------------------------- MODULE MobileShellProofs -------------------------
(***************************************************************************)
(* The iOS shell is safe for every number of connections, commands and     *)
(* worker faults.                                                          *)
(*                                                                         *)
(* No lock is held from the start of a teardown to its end, so the proof   *)
(* follows what each thread still knows at every step: the generation a    *)
(* teardown was called for (a command's is always the current one, a       *)
(* worker's may be over), what a teardown that applied has taken, and      *)
(* which generations anything can name at all (UsedGens): a connection     *)
(* that is not installed yet has been seen by nobody but its command.      *)
(***************************************************************************)
EXTENDS MobileShell, TLAPS

\* A command before it has lifecycle_lock, while it makes a connection that is not installed,
\* and after that.
WaitingPcs == {"idle", "cancel", "signal", "wait"}
FreshPcs == {"register", "dial", "connected", "install"}
MadePcs == {"sup", "aud", "med", "push sup", "push aud", "push med", "init", "final"}
TaskPcs == WaitingPcs \cup {"entry", "down", "check", "begin", "tearing"} \cup FreshPcs \cup MadePcs
TaskRecs == [pc: TaskPcs, cmd: {"none", "connect", "disconnect"}, gen: 0 .. MaxGen]
TearRecs == [pc: {"none", "enter", "exec", "stop", "join", "finish", "returned"}, gen: 0 .. MaxGen,
             target: {"Idle", "Disconnected", "Error"}, sess: 0 .. MaxGen, joins: SUBSET Workers,
             applied: BOOLEAN, failed: BOOLEAN]
\* Types, those of the program counters and the teardown calls included.
ShellTyped ==
    /\ MobileTypeOK
    /\ task \in [Tasks -> TaskRecs] /\ tear \in [Threads -> TearRecs] /\ missed \in BOOLEAN
\* lifecycle_lock is held by the one command past it.
LockIsHeld == \A t \in Tasks : (task[t].pc \notin WaitingPcs) = (lifecycle = t)
\* Where a command is says which command it is and whether it has a generation.
Placed(p, c, g) ==
    /\ p \in FreshPcs \cup MadePcs => g = inner.gen /\ inner.gen # 0
    /\ p \in WaitingPcs \cup {"entry", "check", "begin"} => g = 0
    /\ p = "idle" => c = "none"
    /\ p \in {"entry", "check", "begin"} => c = "connect"
TasksPlaced == \A t \in Tasks : Placed(task[t].pc, task[t].cmd, task[t].gen)
\* A connect that has no generation yet; generations and pending connects are commands issued.
Pending(t) == IF task[t].cmd = "connect" /\ task[t].gen = 0 THEN 1 ELSE 0
ConnectsCounted == inner.gen + Pending(1) + Pending(2) <= calls.connects
\* A teardown is called by a command that waits for it, for the current generation, or by a
\* worker that is tearing down, and then never towards Idle.
TearsPlaced ==
    /\ \A t \in Tasks :
         /\ tear[Task(t)].pc # "none" => task[t].pc = "tearing" /\ tear[Task(t)].gen = inner.gen
    /\ \A w \in Workers :
         tear[w].pc # "none" => worker[w] = "tear" /\ tear[w].target # "Idle"
\* A session a connect has dialled and not installed is connected.
DialledIsLive == \A t \in Tasks : task[t].pc \in {"connected", "install"} => task[t].gen \in live
\* The steps of connect_blocking before worker k is spawned.
NotYet(k) == CASE k = "sup" -> {"sup"} [] k = "aud" -> {"sup", "push sup", "aud"}
                [] k = "med" -> {"sup", "push sup", "aud", "push aud", "init", "med"}
SpawnsOnce ==
    \A t \in Tasks, k \in {"sup", "aud", "med"} :
        task[t].pc \in NotYet(k) => worker[<<k, task[t].gen>>] = "none"
\* The generations anything but the connect under way can name.
UsedGens == {g \in -1 .. MaxGen : g <= inner.gen /\ \A t \in Tasks : ~(task[t].pc \in FreshPcs
 /\ task[t].gen = g)}
OnlyUsed ==
    /\ {inner.session, inner.runtime, coord.done} \subseteq UsedGens
    /\ \A x \in Threads : {tear[x].gen, tear[x].sess} \subseteq UsedGens
       /\ tear[x].sess <= tear[x].gen
    /\ \A w \in Workers : worker[w] # "none" => w[2] \in UsedGens
\* What a teardown of the current generation has taken, nobody holds.
TakenIsGone ==
    /\ inner.state \in {"Idle", "Disconnected"} => inner.session = 0
    /\ coord.done = inner.gen => inner.session = 0
    /\ \A x \in Threads :
         /\ tear[x].pc \in {"stop", "join"} => tear[x].applied /\ tear[x].gen \in stopFlag
         /\ tear[x].applied /\ tear[x].gen = inner.gen => inner.session = 0
\* A teardown that still has the session it took, and one a command runs to get to Idle.
Holding(x, g) == tear[x].gen = g /\ tear[x].pc = "stop" /\ tear[x].sess = g
ToIdle(x) == tear[x].gen = inner.gen /\ tear[x].pc \in {"stop", "join"} /\ tear[x].target = "Idle"
\* As long as no connection was missed: the session in the state is the current one, every
\* worker that runs was told to stop or is of it, and so with the workers a command has yet to
\* spawn; a live session is in the state, with its connect or with its teardown; and a state
\* that says Ready has its session or a command is on the way to Idle.
SessionIsCurrent == inner.session \in {0, inner.gen}
WorkersAreTold == \A w \in Workers : worker[w] = "run" => w[2] \in stopFlag \/ inner.session = w[2]
CommandsTell ==
    \A t \in Tasks : task[t].pc \in MadePcs => task[t].gen \in stopFlag
     \/ inner.session = task[t].gen
LiveIsHeld ==
    \A g \in live :
        \/ inner.session = g
        \/ \E t \in Tasks : task[t].gen = g /\ task[t].pc \in {"connected", "install"}
        \/ \E x \in Threads : Holding(x, g)
ReadyIsThere ==
    inner.state = "Ready" =>
        \/ inner.session = inner.gen /\ inner.runtime = inner.gen /\ inner.gen \in live
        \/ \E x \in Threads : ToIdle(x)
MobileInv ==
    /\ ShellTyped /\ LockIsHeld /\ TasksPlaced /\ ConnectsCounted /\ TearsPlaced
    /\ DialledIsLive /\ SpawnsOnce /\ OnlyUsed /\ TakenIsGone
    /\ ~missed => SessionIsCurrent /\ WorkersAreTold /\ CommandsTell /\ LiveIsHeld /\ ReadyIsThere

TearPcs == {"none", "enter", "exec", "stop", "join", "finish", "returned"}
Targets == {"Idle", "Disconnected", "Error"}

\* What a step makes of the one task, teardown call or state it changes.
TaskBecomes(t, p, c, g) ==
    /\ task' \in [Tasks -> TaskRecs]
    /\ task'[t].pc = p /\ task'[t].cmd = c /\ task'[t].gen = g
    /\ \A u \in Tasks : u # t => task'[u] = task[u]
TearBecomes(x, p, g, target, s, a) ==
    /\ tear' \in [Threads -> TearRecs]
    /\ tear'[x].pc = p /\ tear'[x].gen = g /\ tear'[x].target = target
    /\ tear'[x].sess = s /\ tear'[x].applied = a
    /\ \A y \in Threads : y # x => tear'[y] = tear[y]
InnerRecs == [gen: 0 .. MaxGen, state: {"Idle", "Connecting", "Ready", "Disconnected", "Error"},
              session: 0 .. MaxGen, runtime: 0 .. MaxGen, handles: SUBSET Workers]
InnerBecomes(g, st, s, r) ==
    /\ inner' \in InnerRecs
    /\ inner'.gen = g /\ inner'.state = st /\ inner'.session = s /\ inner'.runtime = r

\* Commands and workers are different threads.
LEMMA ThreadKinds ==
    /\ \A t \in Tasks : Task(t) \in Threads /\ Task(t)[1] = "task" /\ Task(t)[2] = t
    /\ \A w \in Workers : w \in Threads /\ w[1] \in {"sup", "aud", "med"} /\ w[2] \in 1 .. MaxGen
    /\ \A x \in Threads : x \in Workers \/ \E t \in Tasks : x = Task(t)
    /\ \A t \in Tasks, w \in Workers : Task(t) # w
    /\ \A t, u \in Tasks : Task(t) = Task(u) => t = u
    /\ \A k \in {"sup", "aud", "med"}, g \in 1 .. MaxGen :
         <<k, g>> \in Workers /\ <<k, g>>[2] = g
BY SMT DEF Task, Threads, Workers, Tasks

\* The records a step makes of a command are records of a command.
LEMMA TaskRecordMoves ==
    /\ \A r \in TaskRecs : \A p \in TaskPcs : [r EXCEPT !.pc = p] \in TaskRecs
    /\ \A r \in TaskRecs : \A p \in TaskPcs, g \in 0 .. MaxGen :
       [r EXCEPT !.pc = p, !.gen = g] \in TaskRecs
    /\ \A p \in TaskPcs, c \in {"none", "connect", "disconnect"}, g \in 0 .. MaxGen :
         [pc |-> p, cmd |-> c, gen |-> g] \in TaskRecs
BY Zenon DEF TaskRecs

\* The records a step makes of a teardown call are records of a teardown call.
LEMMA TearRecordMoves ==
    /\ \A r \in TearRecs : \A p \in TearPcs : [r EXCEPT !.pc = p] \in TearRecs
    /\ \A r \in TearRecs : \A p \in TearPcs, b \in BOOLEAN :
       [r EXCEPT !.pc = p, !.failed = b] \in TearRecs
    /\ \A r \in TearRecs : \A p \in TearPcs, b \in BOOLEAN :
       [r EXCEPT !.pc = p, !.applied = b] \in TearRecs
    /\ \A r \in TearRecs : \A p \in TearPcs, b \in BOOLEAN, s \in 0 .. MaxGen,
       j \in SUBSET Workers :
         [r EXCEPT !.pc = p, !.applied = b, !.sess = s, !.joins = j] \in TearRecs
    /\ \A p \in TearPcs, g \in 0 .. MaxGen, target \in Targets :
         [NoTear EXCEPT !.pc = p, !.gen = g, !.target = target] \in TearRecs
    /\ NoTear \in TearRecs
<1>1. \A r \in TearRecs : \A p \in TearPcs : [r EXCEPT !.pc = p] \in TearRecs
  BY Zenon DEF TearRecs, TearPcs
<1>2. \A r \in TearRecs : \A p \in TearPcs, b \in BOOLEAN :
      [r EXCEPT !.pc = p, !.failed = b] \in TearRecs
  BY Zenon DEF TearRecs, TearPcs
<1>3. \A r \in TearRecs : \A p \in TearPcs, b \in BOOLEAN :
      [r EXCEPT !.pc = p, !.applied = b] \in TearRecs
  BY Zenon DEF TearRecs, TearPcs
<1>4. \A r \in TearRecs : \A p \in TearPcs, b \in BOOLEAN, s \in 0 .. MaxGen, j \in SUBSET Workers :
         [r EXCEPT !.pc = p, !.applied = b, !.sess = s, !.joins = j] \in TearRecs
  BY Zenon DEF TearRecs, TearPcs
<1>5. 0 \in 0 .. MaxGen
  BY MobileShellAssumption, SMT
<1>6. NoTear \in TearRecs
  BY <1>5, Zenon DEF TearRecs, NoTear
<1>7. \A p \in TearPcs, g \in 0 .. MaxGen, target \in Targets :
         [NoTear EXCEPT !.pc = p, !.gen = g, !.target = target] \in TearRecs
  BY <1>6, Zenon DEF TearRecs, TearPcs, Targets
<1> QED
  BY <1>1, <1>2, <1>3, <1>4, <1>6, <1>7

MobileStates == {"Idle", "Connecting", "Ready", "Disconnected", "Error"}

\* The states a step makes of the shell are states of the shell.
LEMMA InnerRecordMoves ==
    ASSUME NEW r \in InnerRecs, NEW st \in MobileStates, NEW n \in 0 .. MaxGen,
           NEW m \in 0 .. MaxGen
    PROVE  /\ [r EXCEPT !.state = st] \in InnerRecs
           /\ [r EXCEPT !.gen = n, !.state = st] \in InnerRecs
           /\ [r EXCEPT !.state = st, !.session = n] \in InnerRecs
           /\ [r EXCEPT !.state = st, !.session = n, !.runtime = m] \in InnerRecs
           /\ [r EXCEPT !.state = st, !.session = n, !.runtime = m, !.handles = {}] \in InnerRecs
           /\ \A H \in SUBSET Workers : [r EXCEPT !.handles = H] \in InnerRecs
BY Zenon DEF InnerRecs, MobileStates

\* TaskGoes moves one command and changes nothing else of it.
LEMMA TaskGoesTo ==
    ASSUME ShellTyped, NEW t \in Tasks, NEW p \in TaskPcs, TaskGoes(t, p)
    PROVE  TaskBecomes(t, p, task[t].cmd, task[t].gen)
<1>1. task \in [Tasks -> TaskRecs] /\ task' = [task EXCEPT ![t] = [task[t] EXCEPT !.pc = p]]
  BY DEF ShellTyped, TaskGoes
<1>2. [task[t] EXCEPT !.pc = p] \in TaskRecs
  BY <1>1, TaskRecordMoves
<1>3. task' \in [Tasks -> TaskRecs] /\ \A u \in Tasks : u # t => task'[u] = task[u]
  BY <1>1, <1>2
<1>4. task'[t].pc = p /\ task'[t].cmd = task[t].cmd /\ task'[t].gen = task[t].gen
  BY <1>1, SMT DEF TaskRecs
<1> QED
  BY <1>3, <1>4 DEF TaskBecomes

\* Return makes the command idle and gives up the lock.
LEMMA TaskReturns ==
    ASSUME ShellTyped, NEW t \in Tasks, Return(t)
    PROVE  TaskBecomes(t, "idle", "none", 0) /\ lifecycle' = 0 /\ active' \in 0 .. MaxGen
<1>1. task \in [Tasks -> TaskRecs] /\ task' = [task EXCEPT ![t] = IdleTask]
  BY DEF ShellTyped, Return
<1>2. IdleTask \in TaskRecs
  <2>1. 0 \in 0 .. MaxGen
    BY MobileShellAssumption, SMT
  <2> QED
    BY <2>1, TaskRecordMoves, Zenon DEF IdleTask, TaskPcs, WaitingPcs
<1>3. task' \in [Tasks -> TaskRecs] /\ \A u \in Tasks : u # t => task'[u] = task[u]
  BY <1>1, <1>2
<1>4. task'[t].pc = "idle" /\ task'[t].cmd = "none" /\ task'[t].gen = 0
  BY <1>1, SMT DEF IdleTask
<1>5. lifecycle' = 0 /\ active' \in 0 .. MaxGen
  BY MobileShellAssumption, SMT DEF Return, ShellTyped, MobileTypeOK
<1> QED
  BY <1>3, <1>4, <1>5 DEF TaskBecomes

\* A call of handle_terminal_shutdown.
LEMMA TearIsCalled ==
    ASSUME ShellTyped, NEW x \in Threads, NEW g \in 0 .. MaxGen, NEW target \in Targets,
           Calls(x, g, target)
    PROVE  TearBecomes(x, "enter", g, target, 0, FALSE)
<1> DEFINE r == [NoTear EXCEPT !.pc = "enter", !.gen = g, !.target = target]
<1>1. tear \in [Threads -> TearRecs] /\ tear' = [tear EXCEPT ![x] = r]
  BY DEF ShellTyped, Calls
<1>2. r \in TearRecs
  BY TearRecordMoves DEF TearPcs
<1>3. tear' \in [Threads -> TearRecs] /\ \A y \in Threads : y # x => tear'[y] = tear[y]
  BY <1>1, <1>2
<1>4. tear'[x] = r
  BY <1>1
<1>5. r.pc = "enter" /\ r.gen = g /\ r.target = target /\ r.sess = 0 /\ r.applied = FALSE
  BY SMT DEF NoTear
<1> QED
  BY <1>3, <1>4, <1>5 DEF TearBecomes

\* The caller has seen its teardown return.
LEMMA TearEnds ==
    ASSUME ShellTyped, NEW x \in Threads, tear' = [tear EXCEPT ![x] = NoTear]
    PROVE  TearBecomes(x, "none", 0, "Idle", 0, FALSE)
<1>1. tear \in [Threads -> TearRecs] /\ NoTear \in TearRecs
  BY TearRecordMoves DEF ShellTyped
<1>2. tear' \in [Threads -> TearRecs] /\ tear'[x] = NoTear
      /\ \A y \in Threads : y # x => tear'[y] = tear[y]
  BY <1>1
<1> QED
  BY <1>2 DEF TearBecomes, NoTear

\* TearGo moves one teardown and changes nothing else of it.
LEMMA TearGoesTo ==
    ASSUME ShellTyped, NEW x \in Threads, NEW p \in TearPcs, TearGo(x, p)
    PROVE  TearBecomes(x, p, tear[x].gen, tear[x].target, tear[x].sess, tear[x].applied)
<1>1. tear \in [Threads -> TearRecs] /\ tear' = [tear EXCEPT ![x] = [tear[x] EXCEPT !.pc = p]]
  BY DEF ShellTyped, TearGo
<1>2. [tear[x] EXCEPT !.pc = p] \in TearRecs
  BY <1>1, TearRecordMoves
<1>3. tear' \in [Threads -> TearRecs] /\ \A y \in Threads : y # x => tear'[y] = tear[y]
  BY <1>1, <1>2
<1>4. /\ tear'[x].pc = p /\ tear'[x].gen = tear[x].gen /\ tear'[x].target = tear[x].target
      /\ tear'[x].sess = tear[x].sess /\ tear'[x].applied = tear[x].applied
  BY <1>1, SMT DEF TearRecs
<1> QED
  BY <1>3, <1>4 DEF TearBecomes

\* So does a step that also sets the result.
LEMMA TearLeaves ==
    ASSUME ShellTyped, NEW x \in Threads, NEW p \in TearPcs, NEW b \in BOOLEAN,
           tear' = [tear EXCEPT ![x].pc = p, ![x].failed = b]
    PROVE  TearBecomes(x, p, tear[x].gen, tear[x].target, tear[x].sess, tear[x].applied)
<1>1. /\ tear \in [Threads -> TearRecs]
      /\ tear' = [tear EXCEPT ![x] = [tear[x] EXCEPT !.pc = p, !.failed = b]]
  BY DEF ShellTyped
<1>2. [tear[x] EXCEPT !.pc = p, !.failed = b] \in TearRecs
  BY <1>1, TearRecordMoves
<1>3. tear' \in [Threads -> TearRecs] /\ \A y \in Threads : y # x => tear'[y] = tear[y]
  BY <1>1, <1>2
<1>4. /\ tear'[x].pc = p /\ tear'[x].gen = tear[x].gen /\ tear'[x].target = tear[x].target
      /\ tear'[x].sess = tear[x].sess /\ tear'[x].applied = tear[x].applied
  BY <1>1, SMT DEF TearRecs
<1> QED
  BY <1>3, <1>4 DEF TearBecomes

\* While the generation is the same, a generation that may be named stays so.
LEMMA UsedStays ==
    ASSUME MobileInv, inner'.gen = inner.gen,
           \A t \in Tasks : task'[t].pc \in FreshPcs => task[t].pc \in FreshPcs
            /\ task'[t].gen = task[t].gen
    PROVE  UsedGens \subseteq UsedGens' /\ {-1, 0} \subseteq UsedGens
<1>1. inner.gen \in 0 .. MaxGen /\ (\A t \in Tasks : task[t] \in TaskRecs) /\ TasksPlaced
  BY DEF MobileInv, ShellTyped, MobileTypeOK
<1>2. {-1, 0} \subseteq UsedGens
  BY <1>1, MobileShellAssumption, SMT DEF UsedGens, TasksPlaced, Placed, TaskRecs
<1> QED
  BY <1>1, <1>2, SMT DEF UsedGens

\* A command is issued, or gets its generation.
LEMMA TaskStarts ==
    ASSUME ShellTyped, NEW t \in Tasks, NEW p \in TaskPcs, NEW c \in {"none", "connect",
           "disconnect"},
           NEW g \in 0 .. MaxGen,
           \/ task' = [task EXCEPT ![t] = [pc |-> p, cmd |-> c, gen |-> g]]
           \/ c = task[t].cmd /\ task' = [task EXCEPT ![t].pc = p, ![t].gen = g]
    PROVE  TaskBecomes(t, p, c, g)
<1>1. task \in [Tasks -> TaskRecs] /\ task[t] \in TaskRecs
  BY DEF ShellTyped
<1>2. CASE task' = [task EXCEPT ![t] = [pc |-> p, cmd |-> c, gen |-> g]]
  <2>1. [pc |-> p, cmd |-> c, gen |-> g] \in TaskRecs
    BY TaskRecordMoves
  <2> QED
    BY <1>1, <1>2, <2>1 DEF TaskBecomes
<1>3. CASE c = task[t].cmd /\ task' = [task EXCEPT ![t].pc = p, ![t].gen = g]
  <2>1. [task[t] EXCEPT !.pc = p, !.gen = g] \in TaskRecs
    BY <1>1, TaskRecordMoves
  <2>2. task' = [task EXCEPT ![t] = [task[t] EXCEPT !.pc = p, !.gen = g]]
    BY <1>1, <1>3
  <2>3. task' \in [Tasks -> TaskRecs] /\ \A u \in Tasks : u # t => task'[u] = task[u]
    BY <1>1, <2>1, <2>2
  <2>4. task'[t].pc = p /\ task'[t].cmd = c /\ task'[t].gen = g
    BY <1>1, <1>3, <2>2, SMT DEF TaskRecs
  <2> QED
    BY <2>3, <2>4 DEF TaskBecomes
<1> QED
  BY <1>2, <1>3

\* SetError changes only the state shown.
LEMMA InnerErrs ==
    ASSUME inner \in InnerRecs, SetError
    PROVE  InnerBecomes(inner.gen, "Error", inner.session, inner.runtime)
<1>1. 0 \in 0 .. MaxGen
  BY MobileShellAssumption, SMT
<1>2. inner' \in InnerRecs
  BY <1>1, InnerRecordMoves DEF SetError, MobileStates
<1> QED
  BY <1>2, SMT DEF SetError, InnerRecs, InnerBecomes

\* A move of one task that keeps it where it may be.
TaskMay(t, p, c, g) ==
    /\ TaskBecomes(t, p, c, g) /\ inner'.gen = inner.gen
    /\ (p \notin WaitingPcs) = (lifecycle' = t)
    /\ lifecycle' # lifecycle => lifecycle \in {0, t} /\ lifecycle' \in {0, t}
    /\ Placed(p, c, g)
    /\ calls'.connects = calls.connects /\ c = "connect" /\ g = 0 => task[t].cmd = "connect"
       /\ task[t].gen = 0
    /\ calls'.connects \in {calls.connects, calls.connects + 1}
    /\ p \in FreshPcs => task[t].pc \in FreshPcs
    /\ p \in MadePcs /\ inner'.session = inner.session => task[t].pc \in MadePcs
TaskKept ==
    /\ LockIsHeld' /\ TasksPlaced' /\ ConnectsCounted'
    /\ UsedGens \subseteq UsedGens' /\ {-1, 0} \subseteq UsedGens
    /\ inner'.session = inner.session /\ stopFlag \subseteq stopFlag'
       /\ CommandsTell => CommandsTell'

\* Such a move keeps the lock, the places, the count and what the commands tell workers.
LEMMA TaskMayMove ==
    ASSUME MobileInv, NEW t \in Tasks, NEW p, NEW c, NEW g, TaskMay(t, p, c, g)
    PROVE  TaskKept
<1>1. /\ TasksPlaced /\ LockIsHeld /\ ConnectsCounted /\ inner.gen \in 0 .. MaxGen
      /\ \A u \in Tasks : task[u] \in TaskRecs
      /\ lifecycle \in {0, 1, 2} /\ calls.connects \in 0 .. MaxGen
  BY SMT DEF MobileInv, ShellTyped, MobileTypeOK, Tasks
<1>2. LockIsHeld'
  BY <1>1, SMT DEF LockIsHeld, TaskMay, TaskBecomes, Tasks
<1>3. TasksPlaced'
  BY <1>1, SMT DEF TasksPlaced, Placed, TaskMay, TaskBecomes
<1>4. ConnectsCounted'
  <2>1. t \in {1, 2} /\ inner'.gen = inner.gen
    BY DEF Tasks, TaskMay
  <2>2. \A u \in {1, 2} : u # t => Pending(u)' = Pending(u)
    BY <2>1 DEF Pending, TaskMay, TaskBecomes, Tasks
  <2>3. Pending(t)' \in {0, 1} /\ Pending(t) \in {0, 1} /\ Pending(1) \in {0, 1}
        /\ Pending(2) \in {0, 1}
    BY DEF Pending
  <2>4. Pending(t)' - Pending(t) <= calls'.connects - calls.connects
    BY <1>1, SMT DEF Pending, TaskMay, TaskBecomes
  <2>5. calls'.connects \in Int /\ calls.connects \in Int
    BY <1>1, SMT DEF TaskMay
  <2>6. CASE t = 1
    BY <1>1, <2>1, <2>2, <2>3, <2>4, <2>5, <2>6, SMT DEF ConnectsCounted
  <2>7. CASE t = 2
    BY <1>1, <2>1, <2>2, <2>3, <2>4, <2>5, <2>7, SMT DEF ConnectsCounted
  <2> QED
    BY <2>1, <2>6, <2>7
<1>5. UsedGens \subseteq UsedGens' /\ {-1, 0} \subseteq UsedGens
  <2>1. \A u \in Tasks : task'[u].pc \in FreshPcs => task[u].pc \in FreshPcs
        /\ task'[u].gen = task[u].gen
    BY <1>1 DEF TaskMay, TaskBecomes, TasksPlaced, Placed
  <2> QED
    BY <2>1, UsedStays DEF TaskMay
<1>6. ASSUME inner'.session = inner.session, stopFlag \subseteq stopFlag', CommandsTell
      PROVE  CommandsTell'
  <2>1. \A u \in Tasks : task'[u].pc \in MadePcs => task[u].pc \in MadePcs
        /\ task'[u].gen = task[u].gen
    BY <1>1, <1>6 DEF TaskMay, TaskBecomes, TasksPlaced, Placed
  <2> QED
    BY <1>6, <2>1 DEF CommandsTell
<1> QED
  BY <1>2, <1>3, <1>4, <1>5, <1>6 DEF TaskKept

\* The holder of the lock that has no connection half made may name the current generation.
LEMMA HolderUses ==
    ASSUME MobileInv, NEW t \in Tasks, task[t].pc \notin WaitingPcs, task[t].pc \notin FreshPcs
    PROVE  inner.gen \in UsedGens
<1>1. lifecycle = t /\ \A u \in Tasks : u # t => task[u].pc \in WaitingPcs
  BY DEF MobileInv, LockIsHeld
<1>2. \A u \in Tasks : task[u].pc \notin FreshPcs
  BY <1>1, SMT DEF WaitingPcs, FreshPcs
<1>3. inner.gen \in -1 .. MaxGen
  BY MobileShellAssumption, SMT DEF MobileInv, ShellTyped, MobileTypeOK
<1> QED
  BY <1>2, <1>3, SMT DEF UsedGens

\* TeardownTake: a late event is ignored; otherwise the session and the workers are taken.
LEMMA TakeKeepsInv ==
    ASSUME MobileInv, NEW x \in Threads, TeardownTake(x)
    PROVE  MobileInv'
<1>1. /\ ShellTyped /\ MobileTypeOK /\ inner \in InnerRecs
      /\ task \in [Tasks -> TaskRecs] /\ tear \in [Threads -> TearRecs]
      /\ tear[x].pc = "exec" /\ tear[x] \in TearRecs
      /\ UNCHANGED <<active, cancelFlag, cancelPending, lifecycle, coord, task, worker, live,
         calls, missed>>
  BY DEF MobileInv, TeardownTake, ShellTyped, MobileTypeOK, InnerRecs
<1>2. CASE Stale(x) \/ NothingToDo(x)
  <2>1. /\ tear' = [tear EXCEPT ![x] = [tear[x] EXCEPT !.pc = "finish", !.applied = ~Stale(x)]]
        /\ UNCHANGED <<inner, stopFlag>>
    BY <1>2, <1>1, Zenon DEF TeardownTake
  <2>2. TearBecomes(x, "finish", tear[x].gen, tear[x].target, tear[x].sess, ~Stale(x))
    <3>1. [tear[x] EXCEPT !.pc = "finish", !.applied = ~Stale(x)] \in TearRecs
      BY <1>1, TearRecordMoves DEF TearPcs, Stale
    <3> QED
      BY <2>1, <3>1, <1>1, SMT DEF TearBecomes, TearRecs
  <2>3. ShellTyped'
    BY <1>1, <1>2, <2>1, <2>2 DEF ShellTyped, MobileTypeOK, TearBecomes, InnerRecs
  <2>4. LockIsHeld' /\ TasksPlaced' /\ ConnectsCounted' /\ DialledIsLive' /\ SpawnsOnce'
        /\ (~missed' => SessionIsCurrent' /\ WorkersAreTold' /\ CommandsTell')
     BY <1>1, <1>2, <2>1, <2>2 DEF MobileInv, LockIsHeld, TasksPlaced, Placed, ConnectsCounted,
       Pending, DialledIsLive, SpawnsOnce, SessionIsCurrent, WorkersAreTold, CommandsTell
  <2>5. TearsPlaced'
    BY <1>1, <1>2, <2>1, <2>2, ThreadKinds, SMT DEF MobileInv, TearBecomes, TearsPlaced
  <2>6. OnlyUsed'
    <3>1. UsedGens \subseteq UsedGens' /\ {-1, 0} \subseteq UsedGens
      BY <1>1, <1>2, <2>1, <2>2, UsedStays
    <3> QED
      BY <3>1, <1>1, <1>2, <2>1, <2>2, ThreadKinds, SMT DEF MobileInv, TearBecomes, OnlyUsed
  <2>7. TakenIsGone'
    BY <1>1, <1>2, <2>1, <2>2, SMT DEF MobileInv, TearBecomes, TakenIsGone, NothingToDo, Stale
  <2>8. ~missed' => LiveIsHeld'
    BY <1>1, <1>2, <2>1, <2>2, SMT DEF MobileInv, TearBecomes, LiveIsHeld, Holding
  <2>9. ~missed' => ReadyIsThere'
    BY <1>1, <1>2, <2>1, <2>2, SMT DEF MobileInv, TearBecomes, ReadyIsThere, ToIdle
  <2> QED
    BY <2>3, <2>4, <2>5, <2>6, <2>7, <2>8, <2>9 DEF MobileInv
<1>3. CASE ~(Stale(x) \/ NothingToDo(x))
  <2> DEFINE st == IF tear[x].target = "Idle" THEN inner.state ELSE tear[x].target
  <2>1. /\ tear' = [tear EXCEPT ![x] = [tear[x] EXCEPT !.pc = "stop", !.applied = TRUE,
           !.sess = inner.session,
                                                      !.joins = inner.handles \ {x}]]
      /\ stopFlag' = stopFlag \cup {inner.gen} /\ tear[x].gen = inner.gen
      /\ inner' = [inner EXCEPT !.state = st, !.session = 0, !.runtime = 0, !.handles = {}]
    BY <1>3, <1>1, Zenon DEF TeardownTake, Stale
  <2>2. TearBecomes(x, "stop", inner.gen, tear[x].target, inner.session, TRUE)
    <3>1. inner.session \in 0 .. MaxGen /\ inner.handles \ {x} \in SUBSET Workers
      BY <1>1, SMT DEF InnerRecs
    <3>2. [tear[x] EXCEPT !.pc = "stop", !.applied = TRUE, !.sess = inner.session,
          !.joins = inner.handles \ {x}] \in TearRecs
      BY <1>1, <3>1, TearRecordMoves, Zenon DEF TearPcs
    <3> QED
      BY <2>1, <3>2, <1>1, SMT DEF TearBecomes, TearRecs
  <2>3. InnerBecomes(inner.gen, st, 0, 0)
    <3>1. st \in MobileStates /\ 0 \in 0 .. MaxGen
      BY <1>1, MobileShellAssumption, SMT DEF InnerRecs, TearRecs, MobileStates
    <3>2. inner' \in InnerRecs
      BY <1>1, <2>1, <3>1, InnerRecordMoves, Zenon
    <3> HIDE DEF st
    <3> QED
      BY <1>1, <2>1, <3>2, SMT DEF InnerRecs, InnerBecomes
  <2>4. /\ stopFlag' = stopFlag \cup {inner.gen} /\ tear[x].gen = inner.gen
      /\ tear[x].target \in Targets /\ (st = "Ready" => inner.state = "Ready"
         /\ tear[x].target = "Idle")
    BY <1>1, <2>1, SMT DEF TearRecs, Targets
  <2>5. inner.session <= inner.gen /\ inner.gen \in 0 .. MaxGen
    BY <1>1, SMT DEF MobileInv, OnlyUsed, UsedGens, InnerRecs
  <2>6. ShellTyped'
     BY <1>1, <1>3, <2>1, <2>2, <2>3, <2>4, <2>5 DEF ShellTyped, MobileTypeOK, TearBecomes,
       InnerBecomes, InnerRecs
  <2>7. LockIsHeld' /\ DialledIsLive' /\ SpawnsOnce'
    BY <1>1, <1>3, <2>1, <2>2, <2>3, <2>4, <2>5 DEF MobileInv, LockIsHeld, DialledIsLive, SpawnsOnce
  <2>8. TasksPlaced'
     BY <1>1, <1>3, <2>1, <2>2, <2>3, <2>4, <2>5, SMT DEF MobileInv, TearBecomes, InnerBecomes,
       TasksPlaced, Placed
  <2>9. ConnectsCounted'
     BY <1>1, <1>3, <2>1, <2>2, <2>3, <2>4, <2>5, SMT DEF MobileInv, TearBecomes, InnerBecomes,
       ConnectsCounted, Pending
  <2>10. TearsPlaced'
     BY <1>1, <1>3, <2>1, <2>2, <2>3, <2>4, <2>5, ThreadKinds, SMT DEF MobileInv, TearBecomes,
       InnerBecomes, TearsPlaced
  <2>11. OnlyUsed'
    <3>1. UsedGens \subseteq UsedGens' /\ {-1, 0} \subseteq UsedGens
      BY <1>1, <1>3, <2>1, <2>2, <2>3, <2>4, <2>5, UsedStays
    <3> QED
       BY <3>1, <1>1, <2>2, <2>3, <2>4, <2>5, ThreadKinds, SMT DEF MobileInv, TearBecomes,
         InnerBecomes, OnlyUsed
  <2>12. TakenIsGone'
     BY <1>1, <1>3, <2>1, <2>2, <2>3, <2>4, <2>5, SMT DEF MobileInv, TearBecomes, InnerBecomes,
       TakenIsGone
  <2>13. ~missed' => SessionIsCurrent'
     BY <1>1, <1>3, <2>1, <2>2, <2>3, <2>4, <2>5, SMT DEF MobileInv, TearBecomes, InnerBecomes,
       SessionIsCurrent
  <2>14. ~missed' => WorkersAreTold'
     BY <1>1, <1>3, <2>1, <2>2, <2>3, <2>4, <2>5, SMT DEF MobileInv, TearBecomes, InnerBecomes,
       WorkersAreTold, SessionIsCurrent
  <2>15. ~missed' => CommandsTell'
     BY <1>1, <1>3, <2>1, <2>2, <2>3, <2>4, <2>5, SMT DEF MobileInv, TearBecomes, InnerBecomes,
       CommandsTell, SessionIsCurrent, TasksPlaced, Placed
  <2>16. ~missed' => LiveIsHeld'
     BY <1>1, <1>3, <2>1, <2>2, <2>3, <2>4, <2>5, SMT DEF MobileInv, TearBecomes, InnerBecomes,
       LiveIsHeld, Holding, SessionIsCurrent
  <2>17. ~missed' => ReadyIsThere'
     BY <1>1, <1>3, <2>1, <2>2, <2>3, <2>4, <2>5, SMT DEF MobileInv, TearBecomes, InnerBecomes,
       ReadyIsThere, ToIdle
  <2> QED
    BY <2>6, <2>7, <2>8, <2>9, <2>10, <2>11, <2>12, <2>13, <2>14, <2>15, <2>16, <2>17 DEF MobileInv
<1> QED
  BY <1>1, <1>2, <1>3

\* TeardownEnter: a teardown in flight, one that is over, a new one.
LEMMA EnterKeepsInv ==
    ASSUME MobileInv, NEW x \in Threads, TeardownEnter(x)
    PROVE  MobileInv'
<1> DEFINE g == tear[x].gen
<1>1. /\ ShellTyped /\ MobileTypeOK /\ inner \in InnerRecs
      /\ task \in [Tasks -> TaskRecs] /\ tear \in [Threads -> TearRecs]
      /\ tear[x].pc = "enter" /\ tear[x] \in TearRecs
      /\ UNCHANGED <<stopFlag, active, cancelFlag, cancelPending, lifecycle, task, worker, live,
         calls, missed>>
  BY DEF MobileInv, TeardownEnter, ShellTyped, MobileTypeOK, InnerRecs
<1>2. CASE coord.inflight = g
  <2>1. UNCHANGED <<coord, inner>> /\ Leaves(x, FALSE)
    BY <1>2 DEF TeardownEnter
  <2>2. TearBecomes(x, "returned", g, tear[x].target, tear[x].sess, tear[x].applied)
    <3>1. FALSE \in BOOLEAN /\ "returned" \in TearPcs
      BY DEF TearPcs
    <3> QED
      BY <1>1, <2>1, <3>1, TearLeaves, Zenon DEF Leaves
  <2>3. ShellTyped'
    BY <1>1, <1>2, <2>1, <2>2 DEF ShellTyped, MobileTypeOK, TearBecomes, InnerRecs
  <2>4. LockIsHeld' /\ TasksPlaced' /\ ConnectsCounted' /\ DialledIsLive' /\ SpawnsOnce'
        /\ (~missed' => SessionIsCurrent' /\ WorkersAreTold' /\ CommandsTell')
     BY <1>1, <1>2, <2>1, <2>2 DEF MobileInv, LockIsHeld, TasksPlaced, Placed, ConnectsCounted,
       Pending, DialledIsLive, SpawnsOnce, SessionIsCurrent, WorkersAreTold, CommandsTell
  <2>5. TearsPlaced'
    BY <1>1, <1>2, <2>1, <2>2, ThreadKinds, SMT DEF MobileInv, TearBecomes, TearsPlaced
  <2>6. OnlyUsed'
    <3>1. UsedGens \subseteq UsedGens' /\ {-1, 0} \subseteq UsedGens
      BY <1>1, <1>2, <2>1, <2>2, UsedStays
    <3> QED
      BY <3>1, <1>1, <1>2, <2>1, <2>2, ThreadKinds, SMT DEF MobileInv, TearBecomes, OnlyUsed
  <2>7. TakenIsGone'
    BY <1>1, <1>2, <2>1, <2>2, SMT DEF MobileInv, TearBecomes, TakenIsGone
  <2>8. ~missed' => LiveIsHeld'
    BY <1>1, <1>2, <2>1, <2>2, SMT DEF MobileInv, TearBecomes, LiveIsHeld, Holding
  <2>9. ~missed' => ReadyIsThere'
    BY <1>1, <1>2, <2>1, <2>2, SMT DEF MobileInv, TearBecomes, ReadyIsThere, ToIdle
  <2> QED
    BY <2>3, <2>4, <2>5, <2>6, <2>7, <2>8, <2>9 DEF MobileInv
<1>3. CASE coord.inflight # g /\ coord.done = g
  <2>1. /\ UNCHANGED coord /\ Leaves(x, coord.failed)
        /\ inner' = inner \/ (inner.gen = g
           /\ inner' = [inner EXCEPT !.state = "Idle", !.session = 0])
    BY <1>3 DEF TeardownEnter, becomeIdle
  <2>2. TearBecomes(x, "returned", g, tear[x].target, tear[x].sess, tear[x].applied)
    <3>1. coord.failed \in BOOLEAN /\ "returned" \in TearPcs
      BY <1>1 DEF TearPcs, MobileTypeOK
    <3> QED
      BY <1>1, <2>1, <3>1, TearLeaves, Zenon DEF Leaves
  <2>3. /\ inner' \in InnerRecs /\ inner'.gen = inner.gen /\ inner'.session = inner.session
        /\ inner'.runtime = inner.runtime /\ inner'.state \in {inner.state, "Idle"}
        /\ inner'.state = "Idle" => inner'.session = 0
    <3>1. CASE inner' = inner
      BY <1>1, <3>1 DEF MobileInv, TakenIsGone
    <3>2. CASE inner.gen = g /\ inner' = [inner EXCEPT !.state = "Idle", !.session = 0]
      <4>1. inner.session = 0
        BY <1>3, <3>2 DEF MobileInv, TakenIsGone
      <4>2. 0 \in 0 .. MaxGen
        BY MobileShellAssumption, SMT
      <4>3. inner' \in InnerRecs
        BY <1>1, <3>2, <4>2, InnerRecordMoves DEF MobileStates
      <4> QED
        BY <1>1, <3>2, <4>1, <4>3, SMT DEF InnerRecs
    <3> QED
      BY <2>1, <3>1, <3>2
  <2>4. ShellTyped'
     BY <1>1, <1>3, <2>1, <2>2, <2>3 DEF ShellTyped, MobileTypeOK, TearBecomes, InnerBecomes,
       InnerRecs
  <2>5. LockIsHeld' /\ DialledIsLive' /\ SpawnsOnce'
    BY <1>1, <1>3, <2>1, <2>2, <2>3 DEF MobileInv, LockIsHeld, DialledIsLive, SpawnsOnce
  <2>6. TasksPlaced'
     BY <1>1, <1>3, <2>1, <2>2, <2>3, SMT DEF MobileInv, TearBecomes, InnerBecomes, TasksPlaced,
       Placed
  <2>7. ConnectsCounted'
     BY <1>1, <1>3, <2>1, <2>2, <2>3, SMT DEF MobileInv, TearBecomes, InnerBecomes, ConnectsCounted,
       Pending
  <2>8. TearsPlaced'
     BY <1>1, <1>3, <2>1, <2>2, <2>3, ThreadKinds, SMT DEF MobileInv, TearBecomes, InnerBecomes,
       TearsPlaced
  <2>9. OnlyUsed'
    <3>1. UsedGens \subseteq UsedGens' /\ {-1, 0} \subseteq UsedGens
      BY <1>1, <1>3, <2>1, <2>2, <2>3, UsedStays
    <3> QED
       BY <3>1, <1>1, <2>1, <2>2, <2>3, ThreadKinds, SMT DEF MobileInv, TearBecomes, InnerBecomes,
         OnlyUsed
  <2>10. TakenIsGone'
    BY <1>1, <1>3, <2>1, <2>2, <2>3, SMT DEF MobileInv, TearBecomes, InnerBecomes, TakenIsGone
  <2>11. ~missed' => SessionIsCurrent'
    BY <1>1, <1>3, <2>1, <2>2, <2>3, SMT DEF MobileInv, TearBecomes, InnerBecomes, SessionIsCurrent
  <2>12. ~missed' => WorkersAreTold'
    BY <1>1, <1>3, <2>1, <2>2, <2>3, SMT DEF MobileInv, TearBecomes, InnerBecomes, WorkersAreTold
  <2>13. ~missed' => CommandsTell'
    BY <1>1, <1>3, <2>1, <2>2, <2>3, SMT DEF MobileInv, TearBecomes, InnerBecomes, CommandsTell
  <2>14. ~missed' => LiveIsHeld'
     BY <1>1, <1>3, <2>1, <2>2, <2>3, SMT DEF MobileInv, TearBecomes, InnerBecomes, LiveIsHeld,
       Holding
  <2>15. ~missed' => ReadyIsThere'
     BY <1>1, <1>3, <2>1, <2>2, <2>3, SMT DEF MobileInv, TearBecomes, InnerBecomes, ReadyIsThere,
       ToIdle
  <2> QED
    BY <2>4, <2>5, <2>6, <2>7, <2>8, <2>9, <2>10, <2>11, <2>12, <2>13, <2>14, <2>15 DEF MobileInv
<1>4. CASE coord.inflight # g /\ coord.done # g
  <2>1. UNCHANGED inner /\ TearGo(x, "exec") /\ coord' = [coord EXCEPT !.inflight = g]
    BY <1>4 DEF TeardownEnter
  <2>2. TearBecomes(x, "exec", g, tear[x].target, tear[x].sess, tear[x].applied)
    BY <1>1, <2>1, TearGoesTo DEF TearPcs
  <2>3. coord' \in [inflight: -1 .. MaxGen, done: -1 .. MaxGen, failed: BOOLEAN]
        /\ coord'.done = coord.done
    <3>1. g \in -1 .. MaxGen
      BY <1>1, SMT DEF TearRecs
    <3>2. coord \in [inflight: -1 .. MaxGen, done: -1 .. MaxGen, failed: BOOLEAN]
      BY <1>1 DEF MobileTypeOK
    <3> HIDE DEF g
    <3> QED
      BY <2>1, <3>1, <3>2
  <2>4. ShellTyped'
    BY <1>1, <1>4, <2>1, <2>2, <2>3 DEF ShellTyped, MobileTypeOK, TearBecomes, InnerRecs
  <2>5. LockIsHeld' /\ TasksPlaced' /\ ConnectsCounted' /\ DialledIsLive' /\ SpawnsOnce'
        /\ (~missed' => SessionIsCurrent' /\ WorkersAreTold' /\ CommandsTell')
     BY <1>1, <1>4, <2>1, <2>2, <2>3 DEF MobileInv, LockIsHeld, TasksPlaced, Placed,
       ConnectsCounted, Pending, DialledIsLive, SpawnsOnce, SessionIsCurrent, WorkersAreTold,
       CommandsTell
  <2>6. TearsPlaced'
    BY <1>1, <1>4, <2>1, <2>2, <2>3, ThreadKinds, SMT DEF MobileInv, TearBecomes, TearsPlaced
  <2>7. OnlyUsed'
    <3>1. UsedGens \subseteq UsedGens' /\ {-1, 0} \subseteq UsedGens
      BY <1>1, <1>4, <2>1, <2>2, <2>3, UsedStays
    <3> QED
      BY <3>1, <1>1, <1>4, <2>1, <2>2, <2>3, ThreadKinds, SMT DEF MobileInv, TearBecomes, OnlyUsed
  <2>8. TakenIsGone'
    BY <1>1, <1>4, <2>1, <2>2, <2>3, SMT DEF MobileInv, TearBecomes, TakenIsGone
  <2>9. ~missed' => LiveIsHeld'
    BY <1>1, <1>4, <2>1, <2>2, <2>3, SMT DEF MobileInv, TearBecomes, LiveIsHeld, Holding
  <2>10. ~missed' => ReadyIsThere'
    BY <1>1, <1>4, <2>1, <2>2, <2>3, SMT DEF MobileInv, TearBecomes, ReadyIsThere, ToIdle
  <2> QED
    BY <2>4, <2>5, <2>6, <2>7, <2>8, <2>9, <2>10 DEF MobileInv
<1> QED
  BY <1>1, <1>2, <1>3, <1>4

\* TeardownStop: the session taken is disconnected.
LEMMA StopKeepsInv ==
    ASSUME MobileInv, NEW x \in Threads, TeardownStop(x)
    PROVE  MobileInv'
<1>1. /\ ShellTyped /\ MobileTypeOK /\ inner \in InnerRecs
      /\ task \in [Tasks -> TaskRecs] /\ tear \in [Threads -> TearRecs]
      /\ tear[x].pc = "stop" /\ tear[x] \in TearRecs /\ live' = live \ {tear[x].sess}
      /\ UNCHANGED <<inner, stopFlag, active, cancelFlag, cancelPending, lifecycle, coord, task,
         worker, calls, missed>>
  BY DEF MobileInv, TeardownStop, ShellTyped, MobileTypeOK, InnerRecs
<1>2. TearBecomes(x, "join", tear[x].gen, tear[x].target, tear[x].sess, tear[x].applied)
  BY <1>1, TearLeaves DEF TeardownStop, TearPcs
<1>3. ShellTyped'
  BY <1>1, <1>2 DEF ShellTyped, MobileTypeOK, TearBecomes, InnerRecs
<1>4. LockIsHeld' /\ TasksPlaced' /\ ConnectsCounted' /\ SpawnsOnce'
      /\ (~missed' => SessionIsCurrent' /\ WorkersAreTold' /\ CommandsTell')
   BY <1>1, <1>2 DEF MobileInv, LockIsHeld, TasksPlaced, Placed, ConnectsCounted, Pending,
     SpawnsOnce, SessionIsCurrent, WorkersAreTold, CommandsTell
<1>5. TearsPlaced'
  BY <1>1, <1>2, ThreadKinds, SMT DEF MobileInv, TearBecomes, TearsPlaced
<1>6. DialledIsLive'
  <2>1. tear[x].sess \in UsedGens
    BY DEF MobileInv, OnlyUsed
  <2>2. \A u \in Tasks : task[u].pc \in {"connected", "install"} => task[u].gen # tear[x].sess
    BY <2>1, SMT DEF UsedGens, FreshPcs
  <2> QED
    BY <1>1, <2>2 DEF MobileInv, DialledIsLive
<1>7. OnlyUsed'
  <2>1. UsedGens \subseteq UsedGens' /\ {-1, 0} \subseteq UsedGens
    BY <1>1, <1>2, UsedStays
  <2> QED
    BY <2>1, <1>1, <1>2, ThreadKinds, SMT DEF MobileInv, TearBecomes, OnlyUsed
<1>8. TakenIsGone'
  BY <1>1, <1>2, SMT DEF MobileInv, TearBecomes, TakenIsGone
<1>9. ~missed' => LiveIsHeld'
  BY <1>1, <1>2, SMT DEF MobileInv, TearBecomes, LiveIsHeld, Holding
<1>10. ~missed' => ReadyIsThere'
  <2>1. inner.gen \in live /\ inner.session = inner.gen => tear[x].sess # inner.gen
    <3>1. tear[x].gen <= inner.gen /\ tear[x].sess <= tear[x].gen
      BY DEF MobileInv, OnlyUsed, UsedGens
    <3>2. tear[x].applied /\ (tear[x].gen = inner.gen => inner.session = 0)
      BY <1>1 DEF MobileInv, TakenIsGone
    <3>3. tear[x].gen \in Int /\ tear[x].sess \in Int /\ inner.gen \in Int
          /\ (inner.gen \in live => inner.gen # 0)
      BY <1>1, SMT DEF TearRecs, InnerRecs, MobileTypeOK
    <3> QED
      BY <3>1, <3>2, <3>3, SMT
  <2> QED
    BY <1>1, <1>2, <2>1, SMT DEF MobileInv, TearBecomes, ReadyIsThere, ToIdle
<1> QED
  BY <1>3, <1>4, <1>5, <1>6, <1>7, <1>8, <1>9, <1>10 DEF MobileInv

\* TeardownJoin: only the teardown of a task makes the state idle, and its session is gone by then.
LEMMA JoinKeepsInv ==
    ASSUME MobileInv, NEW x \in Threads, TeardownJoin(x)
    PROVE  MobileInv'
<1>1. /\ ShellTyped /\ MobileTypeOK /\ inner \in InnerRecs
      /\ task \in [Tasks -> TaskRecs] /\ tear \in [Threads -> TearRecs]
      /\ tear[x].pc = "join" /\ tear[x] \in TearRecs /\ TearGo(x, "finish")
      /\ UNCHANGED <<stopFlag, active, cancelFlag, cancelPending, lifecycle, coord, task, worker,
         live, calls, missed>>
  BY DEF MobileInv, TeardownJoin, ShellTyped, MobileTypeOK, InnerRecs
<1>2. TearBecomes(x, "finish", tear[x].gen, tear[x].target, tear[x].sess, tear[x].applied)
  BY <1>1, TearGoesTo DEF TearPcs
<1>3. tear[x].target = "Idle" => inner.session = 0 /\ tear[x].gen = inner.gen
  BY <1>1, ThreadKinds, SMT DEF MobileInv, TearsPlaced, TakenIsGone
<1>4. /\ inner' \in InnerRecs /\ inner'.gen = inner.gen /\ inner'.session = inner.session
      /\ inner'.runtime = inner.runtime
      /\ \/ inner'.state = "Error"
         \/ inner'.state = "Idle" /\ inner'.session = 0
         \/ inner'.state = inner.state /\ tear[x].target # "Idle"
  <2>1. 0 \in 0 .. MaxGen
    BY MobileShellAssumption, SMT
  <2>2. CASE inner' = [inner EXCEPT !.state = "Error"]
    <3>1. inner' \in InnerRecs
      BY <1>1, <2>1, <2>2, InnerRecordMoves DEF MobileStates
    <3> QED
      BY <1>1, <2>2, <3>1, SMT DEF InnerRecs
  <2>3. CASE tear[x].target = "Idle" /\ inner' = [inner EXCEPT !.state = "Idle", !.session = 0]
    <3>1. inner' \in InnerRecs
      BY <1>1, <2>1, <2>3, InnerRecordMoves DEF MobileStates
    <3> QED
      BY <1>1, <1>3, <2>3, <3>1, SMT DEF InnerRecs
  <2>4. CASE tear[x].target # "Idle" /\ inner' = inner
    BY <1>1, <2>4
  <2> QED
    BY <2>2, <2>3, <2>4 DEF TeardownJoin, becomeIdle
<1>5. ShellTyped'
  BY <1>1, <1>2, <1>3, <1>4 DEF ShellTyped, MobileTypeOK, TearBecomes, InnerBecomes, InnerRecs
<1>6. LockIsHeld' /\ DialledIsLive' /\ SpawnsOnce'
  BY <1>1, <1>2, <1>3, <1>4 DEF MobileInv, LockIsHeld, DialledIsLive, SpawnsOnce
<1>7. TasksPlaced'
  BY <1>1, <1>2, <1>3, <1>4, SMT DEF MobileInv, TearBecomes, InnerBecomes, TasksPlaced, Placed
<1>8. ConnectsCounted'
  BY <1>1, <1>2, <1>3, <1>4, SMT DEF MobileInv, TearBecomes, InnerBecomes, ConnectsCounted, Pending
<1>9. TearsPlaced'
  BY <1>1, <1>2, <1>3, <1>4, ThreadKinds, SMT DEF MobileInv, TearBecomes, InnerBecomes, TearsPlaced
<1>10. OnlyUsed'
  <2>1. UsedGens \subseteq UsedGens' /\ {-1, 0} \subseteq UsedGens
    BY <1>1, <1>2, <1>3, <1>4, UsedStays
  <2> QED
     BY <2>1, <1>1, <1>2, <1>3, <1>4, ThreadKinds, SMT DEF MobileInv, TearBecomes, InnerBecomes,
       OnlyUsed
<1>11. TakenIsGone'
  BY <1>1, <1>2, <1>3, <1>4, SMT DEF MobileInv, TearBecomes, InnerBecomes, TakenIsGone
<1>12. ~missed' => SessionIsCurrent'
  BY <1>1, <1>2, <1>3, <1>4, SMT DEF MobileInv, TearBecomes, InnerBecomes, SessionIsCurrent
<1>13. ~missed' => WorkersAreTold'
  BY <1>1, <1>2, <1>3, <1>4, SMT DEF MobileInv, TearBecomes, InnerBecomes, WorkersAreTold
<1>14. ~missed' => CommandsTell'
  BY <1>1, <1>2, <1>3, <1>4, SMT DEF MobileInv, TearBecomes, InnerBecomes, CommandsTell
<1>15. ~missed' => LiveIsHeld'
  BY <1>1, <1>2, <1>3, <1>4, SMT DEF MobileInv, TearBecomes, InnerBecomes, LiveIsHeld, Holding
<1>16. ~missed' => ReadyIsThere'
  BY <1>1, <1>2, <1>3, <1>4, SMT DEF MobileInv, TearBecomes, InnerBecomes, ReadyIsThere, ToIdle
<1> QED
  BY <1>5, <1>6, <1>7, <1>8, <1>9, <1>10, <1>11, <1>12, <1>13, <1>14, <1>15, <1>16 DEF MobileInv

\* TeardownFinish: a teardown that applied is recorded as done.
LEMMA FinishKeepsInv ==
    ASSUME MobileInv, NEW x \in Threads, TeardownFinish(x)
    PROVE  MobileInv'
<1>1. /\ ShellTyped /\ MobileTypeOK /\ inner \in InnerRecs
      /\ task \in [Tasks -> TaskRecs] /\ tear \in [Threads -> TearRecs]
      /\ tear[x].pc = "finish" /\ tear[x] \in TearRecs /\ Leaves(x, tear[x].failed)
      /\ UNCHANGED <<inner, stopFlag, active, cancelFlag, cancelPending, lifecycle, task, worker,
         live, calls, missed>>
  BY DEF MobileInv, TeardownFinish, ShellTyped, MobileTypeOK, InnerRecs
<1>2. TearBecomes(x, "returned", tear[x].gen, tear[x].target, tear[x].sess, tear[x].applied)
  <2>1. tear[x].failed \in BOOLEAN
    BY <1>1, SMT DEF TearRecs
  <2> QED
    BY <1>1, <2>1, TearLeaves DEF Leaves, TearPcs
<1>3. /\ coord' \in [inflight: -1 .. MaxGen, done: -1 .. MaxGen, failed: BOOLEAN]
      /\ coord'.done = IF tear[x].applied THEN tear[x].gen ELSE coord.done
  <2> DEFINE d == IF tear[x].applied THEN tear[x].gen ELSE coord.done
              f == IF tear[x].applied THEN tear[x].failed ELSE coord.failed
  <2>1. coord' = [inflight |-> -1, done |-> d, failed |-> f]
    BY DEF TeardownFinish
  <2>2. -1 \in -1 .. MaxGen /\ d \in -1 .. MaxGen /\ f \in BOOLEAN
    BY <1>1, MobileShellAssumption, SMT DEF TearRecs, MobileTypeOK
  <2> HIDE DEF d, f
  <2>3. coord' \in [inflight: -1 .. MaxGen, done: -1 .. MaxGen, failed: BOOLEAN] /\ coord'.done = d
    BY <2>1, <2>2
  <2> QED
    BY <2>3 DEF d
<1>4. ShellTyped'
  BY <1>1, <1>2, <1>3 DEF ShellTyped, MobileTypeOK, TearBecomes, InnerRecs
<1>5. LockIsHeld' /\ TasksPlaced' /\ ConnectsCounted' /\ DialledIsLive' /\ SpawnsOnce'
      /\ (~missed' => SessionIsCurrent' /\ WorkersAreTold' /\ CommandsTell')
   BY <1>1, <1>2, <1>3 DEF MobileInv, LockIsHeld, TasksPlaced, Placed, ConnectsCounted, Pending,
     DialledIsLive, SpawnsOnce, SessionIsCurrent, WorkersAreTold, CommandsTell
<1>6. TearsPlaced'
  BY <1>1, <1>2, <1>3, ThreadKinds, SMT DEF MobileInv, TearBecomes, TearsPlaced
<1>7. OnlyUsed'
  <2>1. UsedGens \subseteq UsedGens' /\ {-1, 0} \subseteq UsedGens
    BY <1>1, <1>2, <1>3, UsedStays
  <2> QED
    BY <2>1, <1>1, <1>2, <1>3, ThreadKinds, SMT DEF MobileInv, TearBecomes, OnlyUsed
<1>8. TakenIsGone'
  BY <1>1, <1>2, <1>3, SMT DEF MobileInv, TearBecomes, TakenIsGone
<1>9. ~missed' => LiveIsHeld'
  BY <1>1, <1>2, <1>3, SMT DEF MobileInv, TearBecomes, LiveIsHeld, Holding
<1>10. ~missed' => ReadyIsThere'
  BY <1>1, <1>2, <1>3, SMT DEF MobileInv, TearBecomes, ReadyIsThere, ToIdle
<1> QED
  BY <1>4, <1>5, <1>6, <1>7, <1>8, <1>9, <1>10 DEF MobileInv

\* A connect is issued: it is counted, and waits for the lock unless a pending cancel refuses it.
LEMMA CallConnectKeepsInv ==
    ASSUME MobileInv, NEW t \in Tasks, CallMobileConnect(t)
    PROVE  MobileInv'
<1>1. /\ ShellTyped /\ MobileTypeOK /\ inner \in InnerRecs
      /\ task \in [Tasks -> TaskRecs] /\ tear \in [Threads -> TearRecs]
      /\ task[t].pc = "idle" /\ calls.commands < MaxCalls /\ calls.connects < MaxGen
      /\ cancelPending' = FALSE
      /\ calls' = [calls EXCEPT !.commands = @ + 1, !.connects = @ + 1]
      /\ UNCHANGED <<inner, stopFlag, active, cancelFlag, lifecycle, coord, tear, worker, live,
         missed>>
  BY DEF MobileInv, CallMobileConnect, FreeTask, TaskAt, ShellTyped, MobileTypeOK, InnerRecs
<1>2. /\ calls' \in [commands: 0 .. MaxCalls, connects: 0 .. MaxGen, faults: 0 .. MaxFaults]
      /\ calls'.connects = calls.connects + 1 /\ calls.connects \in 0 .. MaxGen
  <2> DEFINE n == calls.commands + 1
            m == calls.connects + 1
  <2>1. calls \in [commands: 0 .. MaxCalls, connects: 0 .. MaxGen, faults: 0 .. MaxFaults]
    BY <1>1 DEF MobileTypeOK
  <2>2. n \in 0 .. MaxCalls /\ m \in 0 .. MaxGen /\ calls.connects \in 0 .. MaxGen
    BY <1>1, <2>1, MobileShellAssumption, SMT
  <2>3. calls' = [calls EXCEPT !.commands = n, !.connects = m]
    BY <1>1, <2>1, Zenon
  <2> HIDE DEF n, m
  <2>4. calls' \in [commands: 0 .. MaxCalls, connects: 0 .. MaxGen, faults: 0 .. MaxFaults]
    BY <2>1, <2>2, <2>3, Zenon
  <2>5. calls'.connects = m
    BY <2>1, <2>3, SMT
  <2> QED
    BY <2>2, <2>4, <2>5 DEF m
<1>3. CASE cancelPending
  <2>1. UNCHANGED task
    BY <1>3 DEF CallMobileConnect
  <2>2. ShellTyped'
    BY <1>1, <1>2, <1>3, <2>1 DEF ShellTyped, MobileTypeOK, InnerRecs
  <2>3. LockIsHeld' /\ TasksPlaced' /\ TearsPlaced' /\ DialledIsLive' /\ SpawnsOnce'
        /\ OnlyUsed' /\ TakenIsGone' /\ (~missed' => SessionIsCurrent' /\ WorkersAreTold'
        /\ CommandsTell' /\ LiveIsHeld' /\ ReadyIsThere')
     BY <1>1, <1>2, <1>3, <2>1 DEF MobileInv, LockIsHeld, TasksPlaced, Placed, TearsPlaced,
       DialledIsLive, SpawnsOnce, OnlyUsed, UsedGens, TakenIsGone, SessionIsCurrent, WorkersAreTold,
       CommandsTell, LiveIsHeld, Holding, ReadyIsThere, ToIdle
  <2>4. ConnectsCounted'
    <3>1. Pending(1) \in {0, 1} /\ Pending(2) \in {0, 1} /\ Pending(1)' = Pending(1)
          /\ Pending(2)' = Pending(2)
      BY <2>1 DEF Pending
    <3>2. inner.gen \in Int /\ inner' = inner
      BY <1>1, SMT DEF InnerRecs
    <3> QED
      BY <1>2, <3>1, <3>2, SMT DEF MobileInv, ConnectsCounted
  <2> QED
    BY <2>2, <2>3, <2>4 DEF MobileInv
<1>4. CASE ~cancelPending
  <2>1. TaskBecomes(t, "wait", "connect", 0)
    <3>1. 0 \in 0 .. MaxGen
      BY MobileShellAssumption, SMT
    <3>2. task' = [task EXCEPT ![t] = [pc |-> "wait", cmd |-> "connect", gen |-> 0]]
      BY <1>4 DEF CallMobileConnect
    <3> QED
      BY <1>1, <3>1, <3>2, TaskStarts DEF TaskPcs, WaitingPcs, FreshPcs, MadePcs
  <2>2. ShellTyped'
    BY <1>1, <1>2, <1>4, <2>1 DEF ShellTyped, MobileTypeOK, TaskBecomes, InnerRecs
  <2>3. TakenIsGone' /\ (~missed' => SessionIsCurrent' /\ ReadyIsThere')
    BY <1>1, <1>2, <1>4, <2>1 DEF MobileInv, TakenIsGone, SessionIsCurrent, ReadyIsThere, ToIdle
  <2>4. TaskMay(t, "wait", "connect", 0)
    <3>1. Placed(task[t].pc, task[t].cmd, task[t].gen)
          /\ (task[t].pc \notin WaitingPcs) = (lifecycle = t)
      BY DEF MobileInv, TasksPlaced, LockIsHeld
    <3>2. Placed("wait", "connect", 0)
      BY <3>1, <1>1, <1>2, <1>4, <2>1, SMT DEF Placed, FreshPcs, MadePcs, WaitingPcs
    <3>3. ("wait" \notin WaitingPcs) = (lifecycle' = t) /\ (lifecycle' # lifecycle
          => lifecycle \in {0, t} /\ lifecycle' \in {0, t})
      BY <3>1, <1>1, <1>2, <1>4, <2>1, SMT DEF WaitingPcs, Tasks
    <3>4. ("wait" \in FreshPcs => task[t].pc \in FreshPcs) /\ ("wait" \in MadePcs
          /\ inner'.session = inner.session => task[t].pc \in MadePcs)
      BY <1>1, <1>2, <1>4, <2>1, SMT DEF FreshPcs, MadePcs
    <3> QED
      BY <3>1, <3>2, <3>3, <3>4, <1>1, <1>2, <1>4, <2>1 DEF TaskMay, Placed
  <2>5. LockIsHeld' /\ TasksPlaced' /\ ConnectsCounted' /\ TaskKept
    BY <2>4, TaskMayMove DEF TaskKept
  <2>6. TearsPlaced'
    BY <1>1, <1>2, <1>4, <2>1, ThreadKinds, SMT DEF MobileInv, TaskBecomes, TearsPlaced
  <2>7. DialledIsLive'
    BY <1>1, <1>2, <1>4, <2>1, SMT DEF MobileInv, TaskBecomes, DialledIsLive
  <2>8. SpawnsOnce'
    <3>1. \A k \in {"sup", "aud", "med"} : "wait" \notin NotYet(k)
      BY DEF NotYet
    <3> QED
      BY <3>1, <1>1, <2>1 DEF MobileInv, SpawnsOnce, TaskBecomes
  <2>9. OnlyUsed'
    BY <2>5, <1>1, <1>2, <1>4, <2>1, ThreadKinds, SMT DEF MobileInv, TaskKept, TaskBecomes, OnlyUsed
  <2>10. ~missed' => WorkersAreTold'
    BY <1>1, <1>2, <1>4, <2>1, SMT DEF MobileInv, TaskBecomes, WorkersAreTold
  <2>11. ~missed' => CommandsTell'
    BY <2>5, <1>1, <1>2, <1>4, <2>1, SMT DEF MobileInv, TaskKept
  <2>12. ~missed' => LiveIsHeld'
    BY <1>1, <1>2, <1>4, <2>1, SMT DEF MobileInv, TaskBecomes, LiveIsHeld, Holding
  <2> QED
    BY <2>2, <2>3, <2>5, <2>6, <2>7, <2>8, <2>9, <2>10, <2>11, <2>12 DEF MobileInv
<1> QED
  BY <1>3, <1>4, <1>1 DEF MobileTypeOK

\* A disconnect is issued.
LEMMA CallDisconnectKeepsInv ==
    ASSUME MobileInv, NEW t \in Tasks, CallDisconnect(t)
    PROVE  MobileInv'
<1>1. /\ ShellTyped /\ MobileTypeOK /\ inner \in InnerRecs
      /\ task \in [Tasks -> TaskRecs] /\ tear \in [Threads -> TearRecs]
      /\ task[t].pc = "idle" /\ calls.commands < MaxCalls /\ cancelPending' = TRUE
      /\ calls' = [calls EXCEPT !.commands = @ + 1]
      /\ task' = [task EXCEPT ![t] = [pc |-> "cancel", cmd |-> "disconnect", gen |-> 0]]
      /\ UNCHANGED <<inner, stopFlag, active, cancelFlag, lifecycle, coord, tear, worker, live,
         missed>>
  BY DEF MobileInv, CallDisconnect, FreeTask, TaskAt, ShellTyped, MobileTypeOK, InnerRecs
<1>2. /\ calls' \in [commands: 0 .. MaxCalls, connects: 0 .. MaxGen, faults: 0 .. MaxFaults]
      /\ calls'.connects = calls.connects
  BY <1>1, MobileShellAssumption, SMT DEF MobileTypeOK
<1>3. TaskBecomes(t, "cancel", "disconnect", 0)
  <2>1. 0 \in 0 .. MaxGen
    BY MobileShellAssumption, SMT
  <2> QED
    BY <1>1, <2>1, TaskStarts DEF TaskPcs, WaitingPcs, FreshPcs, MadePcs
<1>4. ShellTyped'
  BY <1>1, <1>2, <1>3 DEF ShellTyped, MobileTypeOK, TaskBecomes, InnerRecs
<1>5. TakenIsGone' /\ (~missed' => SessionIsCurrent' /\ ReadyIsThere')
  BY <1>1, <1>2, <1>3 DEF MobileInv, TakenIsGone, SessionIsCurrent, ReadyIsThere, ToIdle
<1>6. TaskMay(t, "cancel", "disconnect", 0)
  <2>1. Placed(task[t].pc, task[t].cmd, task[t].gen)
        /\ (task[t].pc \notin WaitingPcs) = (lifecycle = t)
    BY DEF MobileInv, TasksPlaced, LockIsHeld
  <2>2. Placed("cancel", "disconnect", 0)
    BY <2>1, <1>1, <1>2, <1>3, SMT DEF Placed, FreshPcs, MadePcs, WaitingPcs
  <2>3. ("cancel" \notin WaitingPcs) = (lifecycle' = t) /\ (lifecycle' # lifecycle
        => lifecycle \in {0, t} /\ lifecycle' \in {0, t})
    BY <2>1, <1>1, <1>2, <1>3, SMT DEF WaitingPcs, Tasks
  <2>4. ("cancel" \in FreshPcs => task[t].pc \in FreshPcs) /\ ("cancel" \in MadePcs
        /\ inner'.session = inner.session => task[t].pc \in MadePcs)
    BY <1>1, <1>2, <1>3, SMT DEF FreshPcs, MadePcs
  <2> QED
    BY <2>1, <2>2, <2>3, <2>4, <1>1, <1>2, <1>3 DEF TaskMay, Placed
<1>7. LockIsHeld' /\ TasksPlaced' /\ ConnectsCounted' /\ TaskKept
  BY <1>6, TaskMayMove DEF TaskKept
<1>8. TearsPlaced'
  BY <1>1, <1>2, <1>3, ThreadKinds, SMT DEF MobileInv, TaskBecomes, TearsPlaced
<1>9. DialledIsLive'
  BY <1>1, <1>2, <1>3, SMT DEF MobileInv, TaskBecomes, DialledIsLive
<1>10. SpawnsOnce'
  <2>1. \A k \in {"sup", "aud", "med"} : "cancel" \notin NotYet(k)
    BY DEF NotYet
  <2> QED
    BY <2>1, <1>1, <1>3 DEF MobileInv, SpawnsOnce, TaskBecomes
<1>11. OnlyUsed'
  BY <1>7, <1>1, <1>2, <1>3, ThreadKinds, SMT DEF MobileInv, TaskKept, TaskBecomes, OnlyUsed
<1>12. ~missed' => WorkersAreTold'
  BY <1>1, <1>2, <1>3, SMT DEF MobileInv, TaskBecomes, WorkersAreTold
<1>13. ~missed' => CommandsTell'
  BY <1>7, <1>1, <1>2, <1>3, SMT DEF MobileInv, TaskKept
<1>14. ~missed' => LiveIsHeld'
  BY <1>1, <1>2, <1>3, SMT DEF MobileInv, TaskBecomes, LiveIsHeld, Holding
<1> QED
  BY <1>4, <1>5, <1>7, <1>8, <1>9, <1>10, <1>11, <1>12, <1>13, <1>14 DEF MobileInv

\* cancel_active_connect: the connect registered is cancelled, then the workers are told.
LEMMA CancelKeepsInv ==
    ASSUME MobileInv, NEW t \in Tasks, CancelActiveConnect(t)
    PROVE  MobileInv'
<1>1. /\ ShellTyped /\ MobileTypeOK /\ inner \in InnerRecs
      /\ task \in [Tasks -> TaskRecs] /\ tear \in [Threads -> TearRecs]
      /\ UNCHANGED <<inner, cancelPending, lifecycle, coord, tear, worker, live, calls, missed>>
  BY DEF MobileInv, CancelActiveConnect, ShellTyped, MobileTypeOK, InnerRecs
<1>2. CASE TaskAt(t, "cancel") /\ cancelFlag' = cancelFlag \cup ({active} \ {0}) /\ active' = 0
           /\ TaskGoes(t, "signal") /\ UNCHANGED stopFlag
  <2>1. TaskBecomes(t, "signal", task[t].cmd, task[t].gen)
    BY <1>1, <1>2, TaskGoesTo DEF TaskPcs, WaitingPcs, FreshPcs, MadePcs
  <2>2. task[t].pc = "cancel" /\ UNCHANGED stopFlag /\ active' \in 0 .. MaxGen
        /\ cancelFlag' \subseteq 1 .. MaxGen
    BY <1>1, <1>2, MobileShellAssumption, SMT DEF TaskAt, MobileTypeOK
  <2>3. ShellTyped'
    BY <1>1, <1>2, <2>1, <2>2 DEF ShellTyped, MobileTypeOK, TaskBecomes, InnerRecs
  <2>4. TakenIsGone' /\ (~missed' => SessionIsCurrent' /\ ReadyIsThere')
    BY <1>1, <1>2, <2>1, <2>2 DEF MobileInv, TakenIsGone, SessionIsCurrent, ReadyIsThere, ToIdle
  <2>5. TaskMay(t, "signal", task[t].cmd, task[t].gen)
    <3>1. Placed(task[t].pc, task[t].cmd, task[t].gen)
          /\ (task[t].pc \notin WaitingPcs) = (lifecycle = t)
      BY DEF MobileInv, TasksPlaced, LockIsHeld
    <3>2. Placed("signal", task[t].cmd, task[t].gen)
      BY <3>1, <1>1, <1>2, <2>1, <2>2, SMT DEF Placed, FreshPcs, MadePcs, WaitingPcs
    <3>3. ("signal" \notin WaitingPcs) = (lifecycle' = t)
          /\ (lifecycle' # lifecycle => lifecycle \in {0, t} /\ lifecycle' \in {0, t})
      BY <3>1, <1>1, <1>2, <2>1, <2>2, SMT DEF WaitingPcs, Tasks
    <3>4. ("signal" \in FreshPcs => task[t].pc \in FreshPcs) /\ ("signal" \in MadePcs
          /\ inner'.session = inner.session => task[t].pc \in MadePcs)
      BY <1>1, <1>2, <2>1, <2>2, SMT DEF FreshPcs, MadePcs
    <3> QED
      BY <3>1, <3>2, <3>3, <3>4, <1>1, <1>2, <2>1, <2>2 DEF TaskMay, Placed
  <2>6. LockIsHeld' /\ TasksPlaced' /\ ConnectsCounted' /\ TaskKept
    BY <2>5, TaskMayMove DEF TaskKept
  <2>7. TearsPlaced'
    BY <1>1, <1>2, <2>1, <2>2, ThreadKinds, SMT DEF MobileInv, TaskBecomes, TearsPlaced
  <2>8. DialledIsLive'
    BY <1>1, <1>2, <2>1, <2>2, SMT DEF MobileInv, TaskBecomes, DialledIsLive
  <2>9. SpawnsOnce'
    <3>1. \A k \in {"sup", "aud", "med"} : "signal" \notin NotYet(k)
      BY DEF NotYet
    <3> QED
      BY <3>1, <1>1, <2>1 DEF MobileInv, SpawnsOnce, TaskBecomes
  <2>10. OnlyUsed'
    BY <2>6, <1>1, <1>2, <2>1, <2>2, ThreadKinds, SMT DEF MobileInv, TaskKept, TaskBecomes, OnlyUsed
  <2>11. ~missed' => WorkersAreTold'
    BY <1>1, <1>2, <2>1, <2>2, SMT DEF MobileInv, TaskBecomes, WorkersAreTold
  <2>12. ~missed' => CommandsTell'
    BY <2>6, <1>1, <1>2, <2>1, <2>2, SMT DEF MobileInv, TaskKept
  <2>13. ~missed' => LiveIsHeld'
    BY <1>1, <1>2, <2>1, <2>2, SMT DEF MobileInv, TaskBecomes, LiveIsHeld, Holding
  <2> QED
    BY <2>3, <2>4, <2>6, <2>7, <2>8, <2>9, <2>10, <2>11, <2>12, <2>13 DEF MobileInv
<1>3. CASE TaskAt(t, "signal") /\ stopFlag' = stopFlag \cup {inner.gen} /\ TaskGoes(t, "wait")
           /\ UNCHANGED <<cancelFlag, active>>
  <2>1. TaskBecomes(t, "wait", task[t].cmd, task[t].gen)
    BY <1>1, <1>3, TaskGoesTo DEF TaskPcs, WaitingPcs, FreshPcs, MadePcs
  <2>2. task[t].pc = "signal" /\ UNCHANGED <<cancelFlag, active>>
        /\ stopFlag' \subseteq 0 .. MaxGen /\ stopFlag \subseteq stopFlag'
    <3>1. inner.gen \in 0 .. MaxGen
      BY <1>1, SMT DEF InnerRecs
    <3>2. stopFlag \subseteq 0 .. MaxGen
      BY <1>1 DEF MobileTypeOK
    <3> QED
      BY <1>3, <3>1, <3>2 DEF TaskAt
  <2>3. ShellTyped'
    BY <1>1, <1>3, <2>1, <2>2 DEF ShellTyped, MobileTypeOK, TaskBecomes, InnerRecs
  <2>4. (~missed' => SessionIsCurrent' /\ ReadyIsThere')
    BY <1>1, <1>3, <2>1, <2>2 DEF MobileInv, SessionIsCurrent, ReadyIsThere, ToIdle
  <2>5. TaskMay(t, "wait", task[t].cmd, task[t].gen)
    <3>1. Placed(task[t].pc, task[t].cmd, task[t].gen)
          /\ (task[t].pc \notin WaitingPcs) = (lifecycle = t)
      BY DEF MobileInv, TasksPlaced, LockIsHeld
    <3>2. Placed("wait", task[t].cmd, task[t].gen)
      BY <3>1, <1>1, <1>3, <2>1, <2>2, SMT DEF Placed, FreshPcs, MadePcs, WaitingPcs
    <3>3. ("wait" \notin WaitingPcs) = (lifecycle' = t) /\ (lifecycle' # lifecycle
          => lifecycle \in {0, t} /\ lifecycle' \in {0, t})
      BY <3>1, <1>1, <1>3, <2>1, <2>2, SMT DEF WaitingPcs, Tasks
    <3>4. ("wait" \in FreshPcs => task[t].pc \in FreshPcs) /\ ("wait" \in MadePcs
          /\ inner'.session = inner.session => task[t].pc \in MadePcs)
      BY <1>1, <1>3, <2>1, <2>2, SMT DEF FreshPcs, MadePcs
    <3> QED
      BY <3>1, <3>2, <3>3, <3>4, <1>1, <1>3, <2>1, <2>2 DEF TaskMay, Placed
  <2>6. LockIsHeld' /\ TasksPlaced' /\ ConnectsCounted' /\ TaskKept
    BY <2>5, TaskMayMove DEF TaskKept
  <2>7. TearsPlaced'
    BY <1>1, <1>3, <2>1, <2>2, ThreadKinds, SMT DEF MobileInv, TaskBecomes, TearsPlaced
  <2>8. DialledIsLive'
    BY <1>1, <1>3, <2>1, <2>2, SMT DEF MobileInv, TaskBecomes, DialledIsLive
  <2>9. SpawnsOnce'
    <3>1. \A k \in {"sup", "aud", "med"} : "wait" \notin NotYet(k)
      BY DEF NotYet
    <3> QED
      BY <3>1, <1>1, <2>1 DEF MobileInv, SpawnsOnce, TaskBecomes
  <2>10. OnlyUsed'
    BY <2>6, <1>1, <1>3, <2>1, <2>2, ThreadKinds, SMT DEF MobileInv, TaskKept, TaskBecomes, OnlyUsed
  <2>11. TakenIsGone'
    BY <1>1, <1>3, <2>1, <2>2, SMT DEF MobileInv, TaskBecomes, TakenIsGone
  <2>12. ~missed' => WorkersAreTold'
    BY <1>1, <1>3, <2>1, <2>2, SMT DEF MobileInv, TaskBecomes, WorkersAreTold
  <2>13. ~missed' => CommandsTell'
    BY <2>6, <1>1, <1>3, <2>1, <2>2, SMT DEF MobileInv, TaskKept
  <2>14. ~missed' => LiveIsHeld'
    BY <1>1, <1>3, <2>1, <2>2, SMT DEF MobileInv, TaskBecomes, LiveIsHeld, Holding
  <2> QED
    BY <2>3, <2>4, <2>6, <2>7, <2>8, <2>9, <2>10, <2>11, <2>12, <2>13, <2>14 DEF MobileInv
<1> QED
  BY <1>2, <1>3 DEF CancelActiveConnect

\* lifecycle_lock is taken.
LEMMA LockKeepsInv ==
    ASSUME MobileInv, NEW t \in Tasks, LockLifecycle(t)
    PROVE  MobileInv'
<1>1. /\ ShellTyped /\ MobileTypeOK /\ inner \in InnerRecs
      /\ task \in [Tasks -> TaskRecs] /\ tear \in [Threads -> TearRecs]
      /\ task[t].pc = "wait" /\ lifecycle = 0 /\ lifecycle' = t
      /\ UNCHANGED <<inner, stopFlag, active, cancelFlag, cancelPending, coord, tear, worker, live,
         calls, missed>>
  BY DEF MobileInv, LockLifecycle, TaskAt, ShellTyped, MobileTypeOK, InnerRecs
<1> DEFINE p == IF task[t].cmd = "connect" THEN "entry" ELSE "down"
<1>2. TaskBecomes(t, p, task[t].cmd, task[t].gen) /\ ((p = "entry"
      /\ task[t].cmd = "connect") \/ p = "down")
  <2>1. p \in TaskPcs
    BY DEF TaskPcs, WaitingPcs, FreshPcs, MadePcs
  <2> QED
    BY <1>1, <2>1, TaskGoesTo DEF LockLifecycle
<1>3. ShellTyped'
  BY <1>1, <1>2 DEF ShellTyped, MobileTypeOK, TaskBecomes, InnerRecs
<1>4. TakenIsGone' /\ (~missed' => SessionIsCurrent' /\ ReadyIsThere')
  BY <1>1, <1>2 DEF MobileInv, TakenIsGone, SessionIsCurrent, ReadyIsThere, ToIdle
<1>5. TaskMay(t, p, task[t].cmd, task[t].gen)
  <2>1. Placed(task[t].pc, task[t].cmd, task[t].gen)
        /\ (task[t].pc \notin WaitingPcs) = (lifecycle = t)
    BY DEF MobileInv, TasksPlaced, LockIsHeld
  <2>2. Placed(p, task[t].cmd, task[t].gen)
    BY <2>1, <1>1, <1>2, SMT DEF Placed, FreshPcs, MadePcs, WaitingPcs
  <2>3. (p \notin WaitingPcs) = (lifecycle' = t) /\ (lifecycle' # lifecycle
        => lifecycle \in {0, t} /\ lifecycle' \in {0, t})
    BY <2>1, <1>1, <1>2, SMT DEF WaitingPcs, Tasks
  <2>4. (p \in FreshPcs => task[t].pc \in FreshPcs) /\ (p \in MadePcs
        /\ inner'.session = inner.session => task[t].pc \in MadePcs)
    BY <1>1, <1>2, SMT DEF FreshPcs, MadePcs
  <2> QED
    BY <2>1, <2>2, <2>3, <2>4, <1>1, <1>2 DEF TaskMay, Placed
<1>6. LockIsHeld' /\ TasksPlaced' /\ ConnectsCounted' /\ TaskKept
  BY <1>5, TaskMayMove DEF TaskKept
<1>7. TearsPlaced'
  BY <1>1, <1>2, ThreadKinds, SMT DEF MobileInv, TaskBecomes, TearsPlaced
<1>8. DialledIsLive'
  BY <1>1, <1>2, SMT DEF MobileInv, TaskBecomes, DialledIsLive
<1>9. SpawnsOnce'
  <2>1. \A k \in {"sup", "aud", "med"} : p \notin NotYet(k)
    BY DEF NotYet
  <2> QED
    BY <2>1, <1>1, <1>2 DEF MobileInv, SpawnsOnce, TaskBecomes
<1>10. OnlyUsed'
  BY <1>6, <1>1, <1>2, ThreadKinds, SMT DEF MobileInv, TaskKept, TaskBecomes, OnlyUsed
<1>11. ~missed' => WorkersAreTold'
  BY <1>1, <1>2, SMT DEF MobileInv, TaskBecomes, WorkersAreTold
<1>12. ~missed' => CommandsTell'
  BY <1>6, <1>1, <1>2, SMT DEF MobileInv, TaskKept
<1>13. ~missed' => LiveIsHeld'
  BY <1>1, <1>2, SMT DEF MobileInv, TaskBecomes, LiveIsHeld, Holding
<1> QED
  BY <1>3, <1>4, <1>6, <1>7, <1>8, <1>9, <1>10, <1>11, <1>12, <1>13 DEF MobileInv

\* connect_blocking looks at the pending cancel before and after its disconnect.
LEMMA CheckPendingKeepsInv ==
    ASSUME MobileInv, NEW t \in Tasks, CheckPending(t)
    PROVE  MobileInv'
<1>1. /\ ShellTyped /\ MobileTypeOK /\ inner \in InnerRecs
      /\ task \in [Tasks -> TaskRecs] /\ tear \in [Threads -> TearRecs]
      /\ task[t].pc \in {"entry", "check"} /\ cancelPending' = FALSE
      /\ UNCHANGED <<inner, stopFlag, cancelFlag, coord, tear, worker, live, calls, missed>>
  BY DEF MobileInv, CheckPending, TaskAt, ShellTyped, MobileTypeOK, InnerRecs
<1>2. CASE Return(t)
  <2>1. TaskBecomes(t, "idle", "none", 0) /\ lifecycle' = 0 /\ active' \in 0 .. MaxGen
    BY <1>1, <1>2, TaskReturns
  <2>2. ShellTyped'
    BY <1>1, <1>2, <2>1 DEF ShellTyped, MobileTypeOK, TaskBecomes, InnerRecs
  <2>3. TakenIsGone' /\ (~missed' => SessionIsCurrent' /\ ReadyIsThere')
    BY <1>1, <1>2, <2>1 DEF MobileInv, TakenIsGone, SessionIsCurrent, ReadyIsThere, ToIdle
  <2>4. TaskMay(t, "idle", "none", 0)
    <3>1. Placed(task[t].pc, task[t].cmd, task[t].gen)
          /\ (task[t].pc \notin WaitingPcs) = (lifecycle = t)
      BY DEF MobileInv, TasksPlaced, LockIsHeld
    <3>2. Placed("idle", "none", 0)
      BY SMT DEF Placed, FreshPcs, MadePcs, WaitingPcs
    <3>3. ("idle" \notin WaitingPcs) = (lifecycle' = t) /\ (lifecycle' # lifecycle
          => lifecycle \in {0, t} /\ lifecycle' \in {0, t})
      BY <3>1, <1>1, <1>2, <2>1, SMT DEF WaitingPcs, Tasks
    <3>4. ("idle" \in FreshPcs => task[t].pc \in FreshPcs) /\ ("idle" \in MadePcs
          /\ inner'.session = inner.session => task[t].pc \in MadePcs)
      BY <1>1, <1>2, <2>1, SMT DEF FreshPcs, MadePcs
    <3> QED
      BY <3>1, <3>2, <3>3, <3>4, <1>1, <1>2, <2>1 DEF TaskMay, Placed
  <2>5. LockIsHeld' /\ TasksPlaced' /\ ConnectsCounted' /\ TaskKept
    BY <2>4, TaskMayMove DEF TaskKept
  <2>6. TearsPlaced'
    BY <1>1, <1>2, <2>1, ThreadKinds, SMT DEF MobileInv, TaskBecomes, TearsPlaced
  <2>7. DialledIsLive'
    BY <1>1, <1>2, <2>1, SMT DEF MobileInv, TaskBecomes, DialledIsLive
  <2>8. SpawnsOnce'
    <3>1. \A k \in {"sup", "aud", "med"} : "idle" \notin NotYet(k)
      BY DEF NotYet
    <3> QED
      BY <3>1, <1>1, <2>1 DEF MobileInv, SpawnsOnce, TaskBecomes
  <2>9. OnlyUsed'
    BY <2>5, <1>1, <1>2, <2>1, ThreadKinds, SMT DEF MobileInv, TaskKept, TaskBecomes, OnlyUsed
  <2>10. ~missed' => WorkersAreTold'
    BY <1>1, <1>2, <2>1, SMT DEF MobileInv, TaskBecomes, WorkersAreTold
  <2>11. ~missed' => CommandsTell'
    BY <2>5, <1>1, <1>2, <2>1, SMT DEF MobileInv, TaskKept
  <2>12. ~missed' => LiveIsHeld'
    BY <1>1, <1>2, <2>1, SMT DEF MobileInv, TaskBecomes, LiveIsHeld, Holding
  <2> QED
    BY <2>2, <2>3, <2>5, <2>6, <2>7, <2>8, <2>9, <2>10, <2>11, <2>12 DEF MobileInv
<1>3. CASE task[t].pc = "entry" /\ TaskGoes(t, "down") /\ UNCHANGED <<lifecycle, active>>
  <2>1. TaskBecomes(t, "down", task[t].cmd, task[t].gen)
    BY <1>1, <1>3, TaskGoesTo DEF TaskPcs, WaitingPcs, FreshPcs, MadePcs
  <2>2. ShellTyped'
    BY <1>1, <1>3, <2>1 DEF ShellTyped, MobileTypeOK, TaskBecomes, InnerRecs
  <2>3. TakenIsGone' /\ (~missed' => SessionIsCurrent' /\ ReadyIsThere')
    BY <1>1, <1>3, <2>1 DEF MobileInv, TakenIsGone, SessionIsCurrent, ReadyIsThere, ToIdle
  <2>4. TaskMay(t, "down", task[t].cmd, task[t].gen)
    <3>1. Placed(task[t].pc, task[t].cmd, task[t].gen)
          /\ (task[t].pc \notin WaitingPcs) = (lifecycle = t)
      BY DEF MobileInv, TasksPlaced, LockIsHeld
    <3>2. Placed("down", task[t].cmd, task[t].gen)
      BY <3>1, <1>1, <1>3, <2>1, SMT DEF Placed, FreshPcs, MadePcs, WaitingPcs
    <3>3. ("down" \notin WaitingPcs) = (lifecycle' = t) /\ (lifecycle' # lifecycle
          => lifecycle \in {0, t} /\ lifecycle' \in {0, t})
      BY <3>1, <1>1, <1>3, <2>1, SMT DEF WaitingPcs, Tasks
    <3>4. ("down" \in FreshPcs => task[t].pc \in FreshPcs) /\ ("down" \in MadePcs
          /\ inner'.session = inner.session => task[t].pc \in MadePcs)
      BY <1>1, <1>3, <2>1, SMT DEF FreshPcs, MadePcs
    <3> QED
      BY <3>1, <3>2, <3>3, <3>4, <1>1, <1>3, <2>1 DEF TaskMay, Placed
  <2>5. LockIsHeld' /\ TasksPlaced' /\ ConnectsCounted' /\ TaskKept
    BY <2>4, TaskMayMove DEF TaskKept
  <2>6. TearsPlaced'
    BY <1>1, <1>3, <2>1, ThreadKinds, SMT DEF MobileInv, TaskBecomes, TearsPlaced
  <2>7. DialledIsLive'
    BY <1>1, <1>3, <2>1, SMT DEF MobileInv, TaskBecomes, DialledIsLive
  <2>8. SpawnsOnce'
    <3>1. \A k \in {"sup", "aud", "med"} : "down" \notin NotYet(k)
      BY DEF NotYet
    <3> QED
      BY <3>1, <1>1, <2>1 DEF MobileInv, SpawnsOnce, TaskBecomes
  <2>9. OnlyUsed'
    BY <2>5, <1>1, <1>3, <2>1, ThreadKinds, SMT DEF MobileInv, TaskKept, TaskBecomes, OnlyUsed
  <2>10. ~missed' => WorkersAreTold'
    BY <1>1, <1>3, <2>1, SMT DEF MobileInv, TaskBecomes, WorkersAreTold
  <2>11. ~missed' => CommandsTell'
    BY <2>5, <1>1, <1>3, <2>1, SMT DEF MobileInv, TaskKept
  <2>12. ~missed' => LiveIsHeld'
    BY <1>1, <1>3, <2>1, SMT DEF MobileInv, TaskBecomes, LiveIsHeld, Holding
  <2> QED
    BY <2>2, <2>3, <2>5, <2>6, <2>7, <2>8, <2>9, <2>10, <2>11, <2>12 DEF MobileInv
<1>4. CASE task[t].pc = "check" /\ TaskGoes(t, "begin") /\ UNCHANGED <<lifecycle, active>>
  <2>1. TaskBecomes(t, "begin", task[t].cmd, task[t].gen)
    BY <1>1, <1>4, TaskGoesTo DEF TaskPcs, WaitingPcs, FreshPcs, MadePcs
  <2>2. ShellTyped'
    BY <1>1, <1>4, <2>1 DEF ShellTyped, MobileTypeOK, TaskBecomes, InnerRecs
  <2>3. TakenIsGone' /\ (~missed' => SessionIsCurrent' /\ ReadyIsThere')
    BY <1>1, <1>4, <2>1 DEF MobileInv, TakenIsGone, SessionIsCurrent, ReadyIsThere, ToIdle
  <2>4. TaskMay(t, "begin", task[t].cmd, task[t].gen)
    <3>1. Placed(task[t].pc, task[t].cmd, task[t].gen)
          /\ (task[t].pc \notin WaitingPcs) = (lifecycle = t)
      BY DEF MobileInv, TasksPlaced, LockIsHeld
    <3>2. Placed("begin", task[t].cmd, task[t].gen)
      BY <3>1, <1>1, <1>4, <2>1, SMT DEF Placed, FreshPcs, MadePcs, WaitingPcs
    <3>3. ("begin" \notin WaitingPcs) = (lifecycle' = t)
          /\ (lifecycle' # lifecycle => lifecycle \in {0, t} /\ lifecycle' \in {0, t})
      BY <3>1, <1>1, <1>4, <2>1, SMT DEF WaitingPcs, Tasks
    <3>4. ("begin" \in FreshPcs => task[t].pc \in FreshPcs) /\ ("begin" \in MadePcs
          /\ inner'.session = inner.session => task[t].pc \in MadePcs)
      BY <1>1, <1>4, <2>1, SMT DEF FreshPcs, MadePcs
    <3> QED
      BY <3>1, <3>2, <3>3, <3>4, <1>1, <1>4, <2>1 DEF TaskMay, Placed
  <2>5. LockIsHeld' /\ TasksPlaced' /\ ConnectsCounted' /\ TaskKept
    BY <2>4, TaskMayMove DEF TaskKept
  <2>6. TearsPlaced'
    BY <1>1, <1>4, <2>1, ThreadKinds, SMT DEF MobileInv, TaskBecomes, TearsPlaced
  <2>7. DialledIsLive'
    BY <1>1, <1>4, <2>1, SMT DEF MobileInv, TaskBecomes, DialledIsLive
  <2>8. SpawnsOnce'
    <3>1. \A k \in {"sup", "aud", "med"} : "begin" \notin NotYet(k)
      BY DEF NotYet
    <3> QED
      BY <3>1, <1>1, <2>1 DEF MobileInv, SpawnsOnce, TaskBecomes
  <2>9. OnlyUsed'
    BY <2>5, <1>1, <1>4, <2>1, ThreadKinds, SMT DEF MobileInv, TaskKept, TaskBecomes, OnlyUsed
  <2>10. ~missed' => WorkersAreTold'
    BY <1>1, <1>4, <2>1, SMT DEF MobileInv, TaskBecomes, WorkersAreTold
  <2>11. ~missed' => CommandsTell'
    BY <2>5, <1>1, <1>4, <2>1, SMT DEF MobileInv, TaskKept
  <2>12. ~missed' => LiveIsHeld'
    BY <1>1, <1>4, <2>1, SMT DEF MobileInv, TaskBecomes, LiveIsHeld, Holding
  <2> QED
    BY <2>2, <2>3, <2>5, <2>6, <2>7, <2>8, <2>9, <2>10, <2>11, <2>12 DEF MobileInv
<1> QED
  BY <1>1, <1>2, <1>3, <1>4 DEF CheckPending, TaskAt

\* disconnect_blocking calls for a teardown of the current generation.
LEMMA DisconnectKeepsInv ==
    ASSUME MobileInv, NEW t \in Tasks, DisconnectBlocking(t)
    PROVE  MobileInv'
<1>1. /\ ShellTyped /\ MobileTypeOK /\ inner \in InnerRecs
      /\ task \in [Tasks -> TaskRecs] /\ tear \in [Threads -> TearRecs]
      /\ task[t].pc = "down" /\ cancelPending' = FALSE /\ Calls(Task(t), inner.gen, "Idle")
      /\ TaskGoes(t, "tearing")
      /\ UNCHANGED <<inner, stopFlag, active, cancelFlag, lifecycle, coord, worker, live, calls,
         missed>>
  BY DEF MobileInv, DisconnectBlocking, TaskAt, ShellTyped, MobileTypeOK, InnerRecs
<1>2. TaskBecomes(t, "tearing", task[t].cmd, task[t].gen)
  BY <1>1, TaskGoesTo DEF TaskPcs, WaitingPcs, FreshPcs, MadePcs
<1>3. TearBecomes(Task(t), "enter", inner.gen, "Idle", 0, FALSE)
  <2>1. inner.gen \in 0 .. MaxGen
    BY <1>1, SMT DEF InnerRecs, TaskRecs
  <2> QED
    BY <1>1, <2>1, ThreadKinds, TearIsCalled DEF Targets
<1>4. tear[Task(t)].pc = "none"
  BY <1>1, SMT DEF MobileInv, TearsPlaced
<1>5. inner.gen \in UsedGens /\ 0 <= inner.gen
  BY <1>1, HolderUses, SMT DEF WaitingPcs, FreshPcs, InnerRecs
<1>6. ShellTyped'
  BY <1>1, <1>2, <1>3, <1>4, <1>5 DEF ShellTyped, MobileTypeOK, TaskBecomes, TearBecomes, InnerRecs
<1>7. (~missed' => SessionIsCurrent')
  BY <1>1, <1>2, <1>3, <1>4, <1>5 DEF MobileInv, SessionIsCurrent
<1>8. TaskMay(t, "tearing", task[t].cmd, task[t].gen)
  <2>1. Placed(task[t].pc, task[t].cmd, task[t].gen)
        /\ (task[t].pc \notin WaitingPcs) = (lifecycle = t)
    BY DEF MobileInv, TasksPlaced, LockIsHeld
  <2>2. Placed("tearing", task[t].cmd, task[t].gen)
    BY SMT DEF Placed, FreshPcs, MadePcs, WaitingPcs
  <2>3. ("tearing" \notin WaitingPcs) = (lifecycle' = t)
        /\ (lifecycle' # lifecycle => lifecycle \in {0, t} /\ lifecycle' \in {0, t})
    BY <2>1, <1>1, <1>2, <1>3, <1>4, <1>5, SMT DEF WaitingPcs, Tasks
  <2>4. ("tearing" \in FreshPcs => task[t].pc \in FreshPcs) /\ ("tearing" \in MadePcs
        /\ inner'.session = inner.session => task[t].pc \in MadePcs)
    BY <1>1, <1>2, <1>3, <1>4, <1>5, SMT DEF FreshPcs, MadePcs
  <2> QED
    BY <2>1, <2>2, <2>3, <2>4, <1>1, <1>2, <1>3, <1>4, <1>5 DEF TaskMay, Placed
<1>9. LockIsHeld' /\ TasksPlaced' /\ ConnectsCounted' /\ TaskKept
  BY <1>8, TaskMayMove DEF TaskKept
<1>10. TearsPlaced'
   BY <1>1, <1>2, <1>3, <1>4, <1>5, ThreadKinds, SMT DEF MobileInv, TaskBecomes, TearBecomes,
     TearsPlaced
<1>11. DialledIsLive'
  BY <1>1, <1>2, <1>3, <1>4, <1>5, SMT DEF MobileInv, TaskBecomes, TearBecomes, DialledIsLive
<1>12. SpawnsOnce'
  <2>1. \A k \in {"sup", "aud", "med"} : "tearing" \notin NotYet(k)
    BY DEF NotYet
  <2> QED
    BY <2>1, <1>1, <1>2 DEF MobileInv, SpawnsOnce, TaskBecomes
<1>13. OnlyUsed'
   BY <1>9, <1>1, <1>2, <1>3, <1>4, <1>5, ThreadKinds, SMT DEF MobileInv, TaskKept, TaskBecomes,
     TearBecomes, OnlyUsed
<1>14. TakenIsGone'
  BY <1>1, <1>2, <1>3, <1>4, <1>5, SMT DEF MobileInv, TaskBecomes, TearBecomes, TakenIsGone
<1>15. ~missed' => WorkersAreTold'
  BY <1>1, <1>2, <1>3, <1>4, <1>5, SMT DEF MobileInv, TaskBecomes, TearBecomes, WorkersAreTold
<1>16. ~missed' => CommandsTell'
  BY <1>9, <1>1, <1>2, <1>3, <1>4, <1>5, SMT DEF MobileInv, TaskKept
<1>17. ~missed' => LiveIsHeld'
  BY <1>1, <1>2, <1>3, <1>4, <1>5, SMT DEF MobileInv, TaskBecomes, TearBecomes, LiveIsHeld, Holding
<1>18. ~missed' => ReadyIsThere'
  BY <1>1, <1>2, <1>3, <1>4, <1>5, SMT DEF MobileInv, TaskBecomes, TearBecomes, ReadyIsThere, ToIdle
<1> QED
  BY <1>6, <1>7, <1>9, <1>10, <1>11, <1>12, <1>13, <1>14, <1>15, <1>16, <1>17, <1>18 DEF MobileInv

\* The teardown a command called has returned: a connect goes on, or the command returns.
LEMMA TornDownKeepsInv ==
    ASSUME MobileInv, NEW t \in Tasks, TornDown(t)
    PROVE  MobileInv'
<1>1. /\ ShellTyped /\ MobileTypeOK /\ inner \in InnerRecs
      /\ task \in [Tasks -> TaskRecs] /\ tear \in [Threads -> TearRecs]
      /\ task[t].pc = "tearing" /\ tear[Task(t)].pc = "returned"
      /\ tear' = [tear EXCEPT ![Task(t)] = NoTear]
      /\ UNCHANGED <<inner, stopFlag, cancelFlag, cancelPending, coord, worker, live, calls,
         missed>>
  BY DEF MobileInv, TornDown, TaskAt, ShellTyped, MobileTypeOK, InnerRecs
<1>2. TearBecomes(Task(t), "none", 0, "Idle", 0, FALSE)
  BY <1>1, ThreadKinds, TearEnds
<1>3. CASE task[t].cmd = "connect" /\ task[t].gen = 0 /\ TaskGoes(t, "check")
           /\ UNCHANGED <<lifecycle, active>>
  <2>1. TaskBecomes(t, "check", task[t].cmd, task[t].gen)
    BY <1>1, <1>3, TaskGoesTo DEF TaskPcs, WaitingPcs, FreshPcs, MadePcs
  <2>2. ShellTyped'
    BY <1>1, <1>2, <1>3, <2>1 DEF ShellTyped, MobileTypeOK, TaskBecomes, TearBecomes, InnerRecs
  <2>3. (~missed' => SessionIsCurrent')
    BY <1>1, <1>2, <1>3, <2>1 DEF MobileInv, SessionIsCurrent
  <2>4. TaskMay(t, "check", task[t].cmd, task[t].gen)
    <3>1. Placed(task[t].pc, task[t].cmd, task[t].gen)
          /\ (task[t].pc \notin WaitingPcs) = (lifecycle = t)
      BY DEF MobileInv, TasksPlaced, LockIsHeld
    <3>2. Placed("check", task[t].cmd, task[t].gen)
      BY <3>1, <1>1, <1>2, <1>3, <2>1, SMT DEF Placed, FreshPcs, MadePcs, WaitingPcs
    <3>3. ("check" \notin WaitingPcs) = (lifecycle' = t)
          /\ (lifecycle' # lifecycle => lifecycle \in {0, t} /\ lifecycle' \in {0, t})
      BY <3>1, <1>1, <1>2, <1>3, <2>1, SMT DEF WaitingPcs, Tasks
    <3>4. ("check" \in FreshPcs => task[t].pc \in FreshPcs) /\ ("check" \in MadePcs
          /\ inner'.session = inner.session => task[t].pc \in MadePcs)
      BY <1>1, <1>2, <1>3, <2>1, SMT DEF FreshPcs, MadePcs
    <3> QED
      BY <3>1, <3>2, <3>3, <3>4, <1>1, <1>2, <1>3, <2>1 DEF TaskMay, Placed
  <2>5. LockIsHeld' /\ TasksPlaced' /\ ConnectsCounted' /\ TaskKept
    BY <2>4, TaskMayMove DEF TaskKept
  <2>6. TearsPlaced'
    BY <1>1, <1>2, <1>3, <2>1, ThreadKinds, SMT DEF MobileInv, TaskBecomes, TearBecomes, TearsPlaced
  <2>7. DialledIsLive'
    BY <1>1, <1>2, <1>3, <2>1, SMT DEF MobileInv, TaskBecomes, TearBecomes, DialledIsLive
  <2>8. SpawnsOnce'
    <3>1. \A k \in {"sup", "aud", "med"} : "check" \notin NotYet(k)
      BY DEF NotYet
    <3> QED
      BY <3>1, <1>1, <2>1 DEF MobileInv, SpawnsOnce, TaskBecomes
  <2>9. OnlyUsed'
     BY <2>5, <1>1, <1>2, <1>3, <2>1, ThreadKinds, SMT DEF MobileInv, TaskKept, TaskBecomes,
       TearBecomes, OnlyUsed
  <2>10. TakenIsGone'
    BY <1>1, <1>2, <1>3, <2>1, SMT DEF MobileInv, TaskBecomes, TearBecomes, TakenIsGone
  <2>11. ~missed' => WorkersAreTold'
    BY <1>1, <1>2, <1>3, <2>1, SMT DEF MobileInv, TaskBecomes, TearBecomes, WorkersAreTold
  <2>12. ~missed' => CommandsTell'
    BY <2>5, <1>1, <1>2, <1>3, <2>1, SMT DEF MobileInv, TaskKept
  <2>13. ~missed' => LiveIsHeld'
    BY <1>1, <1>2, <1>3, <2>1, SMT DEF MobileInv, TaskBecomes, TearBecomes, LiveIsHeld, Holding
  <2>14. ~missed' => ReadyIsThere'
    BY <1>1, <1>2, <1>3, <2>1, SMT DEF MobileInv, TaskBecomes, TearBecomes, ReadyIsThere, ToIdle
  <2> QED
    BY <2>2, <2>3, <2>5, <2>6, <2>7, <2>8, <2>9, <2>10, <2>11, <2>12, <2>13, <2>14 DEF MobileInv
<1>4. CASE Return(t)
  <2>1. TaskBecomes(t, "idle", "none", 0) /\ lifecycle' = 0 /\ active' \in 0 .. MaxGen
    BY <1>1, <1>4, TaskReturns
  <2>2. ShellTyped'
    BY <1>1, <1>2, <1>4, <2>1 DEF ShellTyped, MobileTypeOK, TaskBecomes, TearBecomes, InnerRecs
  <2>3. (~missed' => SessionIsCurrent')
    BY <1>1, <1>2, <1>4, <2>1 DEF MobileInv, SessionIsCurrent
  <2>4. TaskMay(t, "idle", "none", 0)
    <3>1. Placed(task[t].pc, task[t].cmd, task[t].gen)
          /\ (task[t].pc \notin WaitingPcs) = (lifecycle = t)
      BY DEF MobileInv, TasksPlaced, LockIsHeld
    <3>2. Placed("idle", "none", 0)
      BY SMT DEF Placed, FreshPcs, MadePcs, WaitingPcs
    <3>3. ("idle" \notin WaitingPcs) = (lifecycle' = t) /\ (lifecycle' # lifecycle
          => lifecycle \in {0, t} /\ lifecycle' \in {0, t})
      BY <3>1, <1>1, <1>2, <1>4, <2>1, SMT DEF WaitingPcs, Tasks
    <3>4. ("idle" \in FreshPcs => task[t].pc \in FreshPcs) /\ ("idle" \in MadePcs
          /\ inner'.session = inner.session => task[t].pc \in MadePcs)
      BY <1>1, <1>2, <1>4, <2>1, SMT DEF FreshPcs, MadePcs
    <3> QED
      BY <3>1, <3>2, <3>3, <3>4, <1>1, <1>2, <1>4, <2>1 DEF TaskMay, Placed
  <2>5. LockIsHeld' /\ TasksPlaced' /\ ConnectsCounted' /\ TaskKept
    BY <2>4, TaskMayMove DEF TaskKept
  <2>6. TearsPlaced'
    BY <1>1, <1>2, <1>4, <2>1, ThreadKinds, SMT DEF MobileInv, TaskBecomes, TearBecomes, TearsPlaced
  <2>7. DialledIsLive'
    BY <1>1, <1>2, <1>4, <2>1, SMT DEF MobileInv, TaskBecomes, TearBecomes, DialledIsLive
  <2>8. SpawnsOnce'
    <3>1. \A k \in {"sup", "aud", "med"} : "idle" \notin NotYet(k)
      BY DEF NotYet
    <3> QED
      BY <3>1, <1>1, <2>1 DEF MobileInv, SpawnsOnce, TaskBecomes
  <2>9. OnlyUsed'
     BY <2>5, <1>1, <1>2, <1>4, <2>1, ThreadKinds, SMT DEF MobileInv, TaskKept, TaskBecomes,
       TearBecomes, OnlyUsed
  <2>10. TakenIsGone'
    BY <1>1, <1>2, <1>4, <2>1, SMT DEF MobileInv, TaskBecomes, TearBecomes, TakenIsGone
  <2>11. ~missed' => WorkersAreTold'
    BY <1>1, <1>2, <1>4, <2>1, SMT DEF MobileInv, TaskBecomes, TearBecomes, WorkersAreTold
  <2>12. ~missed' => CommandsTell'
    BY <2>5, <1>1, <1>2, <1>4, <2>1, SMT DEF MobileInv, TaskKept
  <2>13. ~missed' => LiveIsHeld'
    BY <1>1, <1>2, <1>4, <2>1, SMT DEF MobileInv, TaskBecomes, TearBecomes, LiveIsHeld, Holding
  <2>14. ~missed' => ReadyIsThere'
    BY <1>1, <1>2, <1>4, <2>1, SMT DEF MobileInv, TaskBecomes, TearBecomes, ReadyIsThere, ToIdle
  <2> QED
    BY <2>2, <2>3, <2>5, <2>6, <2>7, <2>8, <2>9, <2>10, <2>11, <2>12, <2>13, <2>14 DEF MobileInv
<1> QED
  BY <1>3, <1>4 DEF TornDown

\* begin_generation: the new generation is untouched, and unless it is recorded as missed the old
\* session is gone.
LEMMA BeginKeepsInv ==
    ASSUME MobileInv, NEW t \in Tasks, BeginGeneration(t)
    PROVE  MobileInv'
<1>1. /\ ShellTyped /\ MobileTypeOK /\ inner \in InnerRecs
      /\ task \in [Tasks -> TaskRecs] /\ tear \in [Threads -> TearRecs]
      /\ task[t].pc = "begin" /\ task[t] \in TaskRecs /\ missed' = (missed \/ inner.session # 0)
      /\ inner' = [inner EXCEPT !.gen = inner.gen + 1, !.state = "Connecting"]
      /\ task' = [task EXCEPT ![t].pc = "register", ![t].gen = inner.gen + 1]
      /\ UNCHANGED <<stopFlag, active, cancelFlag, cancelPending, lifecycle, coord, tear, worker,
         live, calls>>
  BY DEF MobileInv, BeginGeneration, TaskAt, ShellTyped, MobileTypeOK, InnerRecs
<1> DEFINE n == inner.gen + 1
<1>2. task[t].cmd = "connect" /\ task[t].gen = 0 /\ lifecycle = t
  BY <1>1, SMT DEF MobileInv, TasksPlaced, Placed, LockIsHeld, WaitingPcs
<1>3. inner.gen \in 0 .. MaxGen /\ n \in 1 .. MaxGen
  <2>1. Pending(t) = 1 /\ Pending(1) \in {0, 1} /\ Pending(2) \in {0, 1} /\ t \in {1, 2}
    BY <1>2 DEF Pending, Tasks
  <2>2. inner.gen + Pending(1) + Pending(2) <= calls.connects /\ calls.connects \in 0 .. MaxGen
        /\ inner.gen \in 0 .. MaxGen
    BY <1>1, SMT DEF MobileInv, ConnectsCounted, MobileTypeOK
  <2>3. Pending(1) + Pending(2) >= 1
    BY <2>1, SMT
  <2> QED
    BY <2>1, <2>2, <2>3, MobileShellAssumption, SMT
<1>4. TaskBecomes(t, "register", "connect", n)
  <2>1. n \in 0 .. MaxGen
    BY <1>3, SMT
  <2> QED
    BY <1>1, <1>2, <2>1, TaskStarts DEF TaskPcs, FreshPcs
<1>5. InnerBecomes(n, "Connecting", inner.session, inner.runtime)
  <2>1. n \in 0 .. MaxGen /\ "Connecting" \in MobileStates
    BY <1>3, SMT DEF MobileStates
  <2>2. inner' = [inner EXCEPT !.gen = n, !.state = "Connecting"]
    BY <1>1
  <2> HIDE DEF n
  <2>3. inner \in InnerRecs
    BY <1>1
  <2>4. inner' \in InnerRecs
    BY <2>1, <2>2, <2>3, InnerRecordMoves
  <2> QED
    BY <2>2, <2>3, <2>4, SMT DEF InnerRecs, InnerBecomes
<1>6. \A u \in Tasks : u # t => task[u].pc \in WaitingPcs
  BY <1>2 DEF MobileInv, LockIsHeld
<1>7. \A u \in Tasks : u # t => task'[u] = task[u] /\ task[u].pc \notin FreshPcs \cup MadePcs
  <2>1. \A p : p \in WaitingPcs => p \notin FreshPcs /\ p \notin MadePcs
    BY DEF WaitingPcs, FreshPcs, MadePcs
  <2> QED
    BY <1>4, <1>6, <2>1 DEF TaskBecomes
<1>8. UsedGens \subseteq UsedGens'
  BY <1>1, <1>3, <1>4, <1>5, <1>7, SMT DEF UsedGens, TaskBecomes, InnerBecomes
<1>9. \A x \in Threads : tear[x].gen <= inner.gen
  BY DEF MobileInv, OnlyUsed, UsedGens
<1>10. ShellTyped'
  BY <1>1, <1>4, <1>5 DEF ShellTyped, MobileTypeOK, TaskBecomes, InnerBecomes, InnerRecs
<1>11. LockIsHeld'
  BY <1>1, <1>2, <1>4, SMT DEF MobileInv, TaskBecomes, LockIsHeld, WaitingPcs
<1>12. TasksPlaced'
  <2>1. Placed(task[t].pc, task[t].cmd, task[t].gen)'
    BY <1>3, <1>4, <1>5, SMT DEF Placed, TaskBecomes, InnerBecomes, WaitingPcs, FreshPcs, MadePcs
  <2>2. \A u \in Tasks : u # t => Placed(task[u].pc, task[u].cmd, task[u].gen)'
    BY <1>7 DEF MobileInv, TasksPlaced, Placed
  <2> QED
    BY <2>1, <2>2, <1>7 DEF TasksPlaced
<1>13. ConnectsCounted'
  <2>1. \A u \in {1, 2} : u # t => Pending(u)' = Pending(u)
    BY <1>7 DEF Pending, Tasks
  <2>2. Pending(t) = 1 /\ Pending(t)' = 0 /\ Pending(1) \in {0, 1} /\ Pending(2) \in {0, 1}
        /\ t \in {1, 2}
    BY <1>2, <1>3, <1>4, SMT DEF Pending, Tasks, TaskBecomes
  <2>3. inner.gen + Pending(1) + Pending(2) <= calls.connects /\ inner'.gen = inner.gen + 1
        /\ inner.gen \in Int /\ calls.connects \in Int
    BY <1>1, <1>3, <1>5, SMT DEF MobileInv, ConnectsCounted, MobileTypeOK, InnerBecomes
  <2>4. CASE t = 1
    BY <1>1, <2>1, <2>2, <2>3, <2>4, SMT DEF ConnectsCounted
  <2>5. CASE t = 2
    BY <1>1, <2>1, <2>2, <2>3, <2>5, SMT DEF ConnectsCounted
  <2> QED
    BY <2>2, <2>4, <2>5
<1>14. SpawnsOnce'
  <2>1. \A k \in {"sup", "aud", "med"} : "register" \notin NotYet(k)
    BY DEF NotYet
  <2> QED
    BY <1>1, <1>4, <1>7, <2>1 DEF MobileInv, SpawnsOnce, TaskBecomes
<1>15. DialledIsLive'
  BY <1>1, <1>4, <1>7, SMT DEF MobileInv, DialledIsLive, TaskBecomes
<1>16. TearsPlaced'
  BY <1>1, <1>2, <1>6, <1>7, ThreadKinds, SMT DEF MobileInv, TearsPlaced, WaitingPcs
<1>17. OnlyUsed'
  BY <1>1, <1>5, <1>8, SMT DEF MobileInv, OnlyUsed, InnerBecomes
<1>18. TakenIsGone'
  <2>1. coord.done # n
    BY <1>3, SMT DEF MobileInv, OnlyUsed, UsedGens
  <2>2. \A x \in Threads : tear[x].gen # n
    BY <1>1, <1>3, <1>9, SMT DEF TearRecs
  <2> QED
    BY <1>1, <1>5, <2>1, <2>2, SMT DEF MobileInv, TakenIsGone, InnerBecomes
<1>19. ~missed' => /\ SessionIsCurrent' /\ WorkersAreTold' /\ CommandsTell' /\ LiveIsHeld'
       /\ ReadyIsThere'
  <2> SUFFICES ASSUME ~missed' PROVE SessionIsCurrent' /\ WorkersAreTold' /\ CommandsTell'
                      /\ LiveIsHeld' /\ ReadyIsThere'
    OBVIOUS
  <2>1. ~missed /\ inner.session = 0
    BY <1>1
  <2>2. SessionIsCurrent' /\ WorkersAreTold'
     BY <1>1, <1>5, <2>1, ThreadKinds, SMT DEF MobileInv, SessionIsCurrent, WorkersAreTold,
       InnerBecomes
  <2>3. CommandsTell'
    <3>1. task'[t].pc \notin MadePcs
      BY <1>4, SMT DEF TaskBecomes, MadePcs
    <3> QED
      BY <1>7, <3>1 DEF CommandsTell
  <2>4. LiveIsHeld'
    BY <1>1, <1>7, <2>1, SMT DEF MobileInv, LiveIsHeld, Holding, MobileTypeOK, InnerBecomes
  <2>5. ReadyIsThere'
    BY <1>5, SMT DEF ReadyIsThere, InnerBecomes
  <2> QED
    BY <2>2, <2>3, <2>4, <2>5
<1> QED
  BY <1>10, <1>11, <1>12, <1>13, <1>16, <1>17, <1>18, <1>19, <1>15, <1>14 DEF MobileInv

\* The connect is registered as the active one.
LEMMA RegisterKeepsInv ==
    ASSUME MobileInv, NEW t \in Tasks, RegisterConnect(t)
    PROVE  MobileInv'
<1>1. /\ ShellTyped /\ MobileTypeOK /\ inner \in InnerRecs
      /\ task \in [Tasks -> TaskRecs] /\ tear \in [Threads -> TearRecs]
      /\ task[t].pc = "register" /\ task[t] \in TaskRecs /\ active' = task[t].gen
      /\ TaskGoes(t, "dial")
      /\ UNCHANGED <<inner, stopFlag, cancelFlag, cancelPending, lifecycle, coord, tear, worker,
         live, calls, missed>>
  BY DEF MobileInv, RegisterConnect, TaskAt, ShellTyped, MobileTypeOK, InnerRecs
<1>2. TaskBecomes(t, "dial", task[t].cmd, task[t].gen)
  BY <1>1, TaskGoesTo DEF TaskPcs, WaitingPcs, FreshPcs, MadePcs
<1>3. active' \in 0 .. MaxGen
  BY <1>1, SMT DEF TaskRecs
<1>4. ShellTyped'
  BY <1>1, <1>2, <1>3 DEF ShellTyped, MobileTypeOK, TaskBecomes, InnerRecs
<1>5. TakenIsGone' /\ (~missed' => SessionIsCurrent' /\ ReadyIsThere')
  BY <1>1, <1>2, <1>3 DEF MobileInv, TakenIsGone, SessionIsCurrent, ReadyIsThere, ToIdle
<1>6. TaskMay(t, "dial", task[t].cmd, task[t].gen)
  <2>1. Placed(task[t].pc, task[t].cmd, task[t].gen)
        /\ (task[t].pc \notin WaitingPcs) = (lifecycle = t)
    BY DEF MobileInv, TasksPlaced, LockIsHeld
  <2>2. Placed("dial", task[t].cmd, task[t].gen)
    BY <2>1, <1>1, <1>2, <1>3, SMT DEF Placed, FreshPcs, MadePcs, WaitingPcs
  <2>3. ("dial" \notin WaitingPcs) = (lifecycle' = t) /\ (lifecycle' # lifecycle
        => lifecycle \in {0, t} /\ lifecycle' \in {0, t})
    BY <2>1, <1>1, <1>2, <1>3, SMT DEF WaitingPcs, Tasks
  <2>4. ("dial" \in FreshPcs => task[t].pc \in FreshPcs) /\ ("dial" \in MadePcs
        /\ inner'.session = inner.session => task[t].pc \in MadePcs)
    BY <1>1, <1>2, <1>3, SMT DEF FreshPcs, MadePcs
  <2> QED
    BY <2>1, <2>2, <2>3, <2>4, <1>1, <1>2, <1>3 DEF TaskMay, Placed
<1>7. LockIsHeld' /\ TasksPlaced' /\ ConnectsCounted' /\ TaskKept
  BY <1>6, TaskMayMove DEF TaskKept
<1>8. TearsPlaced'
  BY <1>1, <1>2, <1>3, ThreadKinds, SMT DEF MobileInv, TaskBecomes, TearsPlaced
<1>9. DialledIsLive'
  BY <1>1, <1>2, <1>3, SMT DEF MobileInv, TaskBecomes, DialledIsLive
<1>10. SpawnsOnce'
  <2>1. \A k \in {"sup", "aud", "med"} : "dial" \notin NotYet(k)
    BY DEF NotYet
  <2> QED
    BY <2>1, <1>1, <1>2 DEF MobileInv, SpawnsOnce, TaskBecomes
<1>11. OnlyUsed'
  BY <1>7, <1>1, <1>2, <1>3, ThreadKinds, SMT DEF MobileInv, TaskKept, TaskBecomes, OnlyUsed
<1>12. ~missed' => WorkersAreTold'
  BY <1>1, <1>2, <1>3, SMT DEF MobileInv, TaskBecomes, WorkersAreTold
<1>13. ~missed' => CommandsTell'
  BY <1>7, <1>1, <1>2, <1>3, SMT DEF MobileInv, TaskKept
<1>14. ~missed' => LiveIsHeld'
  BY <1>1, <1>2, <1>3, SMT DEF MobileInv, TaskBecomes, LiveIsHeld, Holding
<1> QED
  BY <1>4, <1>5, <1>7, <1>8, <1>9, <1>10, <1>11, <1>12, <1>13, <1>14 DEF MobileInv

\* The dial is cancelled, fails, or leaves a connected session.
LEMMA DialKeepsInv ==
    ASSUME MobileInv, NEW t \in Tasks, MobileDial(t)
    PROVE  MobileInv'
<1>1. /\ ShellTyped /\ MobileTypeOK /\ inner \in InnerRecs
      /\ task \in [Tasks -> TaskRecs] /\ tear \in [Threads -> TearRecs]
      /\ task[t].pc = "dial"
      /\ UNCHANGED <<stopFlag, cancelFlag, cancelPending, coord, tear, worker, calls, missed>>
  BY DEF MobileInv, MobileDial, TaskAt, ShellTyped, MobileTypeOK, InnerRecs
<1>2. /\ task[t].gen = inner.gen /\ inner.gen \in 1 .. MaxGen /\ inner.gen \notin UsedGens
      /\ (\A u \in Tasks : u # t => task[u].pc \in WaitingPcs)
  <2>1. Placed(task[t].pc, task[t].cmd, task[t].gen) /\ (\A u \in Tasks :
        (task[u].pc \notin WaitingPcs) = (lifecycle = u))
    BY DEF MobileInv, TasksPlaced, LockIsHeld
  <2>2. task[t].pc \in FreshPcs /\ task[t].pc \notin WaitingPcs
    BY <1>1, SMT DEF FreshPcs, WaitingPcs
  <2>3. task[t].gen = inner.gen /\ inner.gen \in 1 .. MaxGen
    BY <1>1, <2>1, <2>2, SMT DEF Placed, InnerRecs
  <2>4. \A u \in Tasks : u # t => task[u].pc \in WaitingPcs
    BY <2>1, <2>2
  <2> QED
    BY <2>2, <2>3, <2>4, SMT DEF UsedGens
<1>3. CASE Return(t) /\ UNCHANGED <<inner, live>>
  <2>1. TaskBecomes(t, "idle", "none", 0) /\ lifecycle' = 0 /\ active' \in 0 .. MaxGen
    BY <1>1, <1>3, TaskReturns
  <2>2. ShellTyped'
    BY <1>1, <1>2, <1>3, <2>1 DEF ShellTyped, MobileTypeOK, TaskBecomes, InnerRecs
  <2>3. TakenIsGone' /\ (~missed' => SessionIsCurrent' /\ ReadyIsThere')
    BY <1>1, <1>2, <1>3, <2>1 DEF MobileInv, TakenIsGone, SessionIsCurrent, ReadyIsThere, ToIdle
  <2>4. TaskMay(t, "idle", "none", 0)
    <3>1. Placed(task[t].pc, task[t].cmd, task[t].gen)
          /\ (task[t].pc \notin WaitingPcs) = (lifecycle = t)
      BY DEF MobileInv, TasksPlaced, LockIsHeld
    <3>2. Placed("idle", "none", 0)
      BY SMT DEF Placed, FreshPcs, MadePcs, WaitingPcs
    <3>3. ("idle" \notin WaitingPcs) = (lifecycle' = t) /\ (lifecycle' # lifecycle
          => lifecycle \in {0, t} /\ lifecycle' \in {0, t})
      BY <3>1, <1>1, <1>2, <1>3, <2>1, SMT DEF WaitingPcs, Tasks
    <3>4. ("idle" \in FreshPcs => task[t].pc \in FreshPcs) /\ ("idle" \in MadePcs
          /\ inner'.session = inner.session => task[t].pc \in MadePcs)
      BY <1>1, <1>2, <1>3, <2>1, SMT DEF FreshPcs, MadePcs
    <3> QED
      BY <3>1, <3>2, <3>3, <3>4, <1>1, <1>2, <1>3, <2>1 DEF TaskMay, Placed
  <2>5. LockIsHeld' /\ TasksPlaced' /\ ConnectsCounted' /\ TaskKept
    BY <2>4, TaskMayMove DEF TaskKept
  <2>6. TearsPlaced'
    BY <1>1, <1>2, <1>3, <2>1, ThreadKinds, SMT DEF MobileInv, TaskBecomes, TearsPlaced
  <2>7. DialledIsLive'
    BY <1>1, <1>2, <1>3, <2>1, SMT DEF MobileInv, TaskBecomes, DialledIsLive
  <2>8. SpawnsOnce'
    <3>1. \A k \in {"sup", "aud", "med"} : "idle" \notin NotYet(k)
      BY DEF NotYet
    <3> QED
      BY <3>1, <1>1, <2>1 DEF MobileInv, SpawnsOnce, TaskBecomes
  <2>9. OnlyUsed'
    BY <2>5, <1>1, <1>2, <1>3, <2>1, ThreadKinds, SMT DEF MobileInv, TaskKept, TaskBecomes, OnlyUsed
  <2>10. ~missed' => WorkersAreTold'
    BY <1>1, <1>2, <1>3, <2>1, SMT DEF MobileInv, TaskBecomes, WorkersAreTold
  <2>11. ~missed' => CommandsTell'
    BY <2>5, <1>1, <1>2, <1>3, <2>1, SMT DEF MobileInv, TaskKept
  <2>12. ~missed' => LiveIsHeld'
    BY <1>1, <1>2, <1>3, <2>1, SMT DEF MobileInv, TaskBecomes, LiveIsHeld, Holding
  <2> QED
    BY <2>2, <2>3, <2>5, <2>6, <2>7, <2>8, <2>9, <2>10, <2>11, <2>12 DEF MobileInv
<1>4. CASE SetError /\ Return(t) /\ UNCHANGED live
  <2>1. TaskBecomes(t, "idle", "none", 0) /\ lifecycle' = 0 /\ active' \in 0 .. MaxGen
    BY <1>1, <1>4, TaskReturns
  <2>2. InnerBecomes(inner.gen, "Error", inner.session, inner.runtime)
    BY <1>1, <1>4, InnerErrs
  <2>3. ShellTyped'
     BY <1>1, <1>2, <1>4, <2>1, <2>2 DEF ShellTyped, MobileTypeOK, TaskBecomes, InnerBecomes,
       InnerRecs
  <2>4. TaskMay(t, "idle", "none", 0)
    <3>1. Placed(task[t].pc, task[t].cmd, task[t].gen)
          /\ (task[t].pc \notin WaitingPcs) = (lifecycle = t)
      BY DEF MobileInv, TasksPlaced, LockIsHeld
    <3>2. Placed("idle", "none", 0)
      BY SMT DEF Placed, FreshPcs, MadePcs, WaitingPcs
    <3>3. ("idle" \notin WaitingPcs) = (lifecycle' = t) /\ (lifecycle' # lifecycle
          => lifecycle \in {0, t} /\ lifecycle' \in {0, t})
      BY <3>1, <1>1, <1>2, <1>4, <2>1, <2>2, SMT DEF WaitingPcs, Tasks
    <3>4. ("idle" \in FreshPcs => task[t].pc \in FreshPcs) /\ ("idle" \in MadePcs
          /\ inner'.session = inner.session => task[t].pc \in MadePcs)
      BY <1>1, <1>2, <1>4, <2>1, <2>2, SMT DEF FreshPcs, MadePcs
    <3> QED
      BY <3>1, <3>2, <3>3, <3>4, <1>1, <1>2, <1>4, <2>1, <2>2 DEF TaskMay, Placed, InnerBecomes
  <2>5. LockIsHeld' /\ TasksPlaced' /\ ConnectsCounted' /\ TaskKept
    BY <2>4, TaskMayMove DEF TaskKept
  <2>6. TearsPlaced'
     BY <1>1, <1>2, <1>4, <2>1, <2>2, ThreadKinds, SMT DEF MobileInv, TaskBecomes, InnerBecomes,
       TearsPlaced
  <2>7. DialledIsLive'
    BY <1>1, <1>2, <1>4, <2>1, <2>2, SMT DEF MobileInv, TaskBecomes, InnerBecomes, DialledIsLive
  <2>8. SpawnsOnce'
    <3>1. \A k \in {"sup", "aud", "med"} : "idle" \notin NotYet(k)
      BY DEF NotYet
    <3> QED
      BY <3>1, <1>1, <2>1 DEF MobileInv, SpawnsOnce, TaskBecomes
  <2>9. OnlyUsed'
     BY <2>5, <1>1, <1>2, <1>4, <2>1, <2>2, ThreadKinds, SMT DEF MobileInv, TaskKept, TaskBecomes,
       InnerBecomes, OnlyUsed
  <2>10. TakenIsGone'
    BY <1>1, <1>2, <1>4, <2>1, <2>2, SMT DEF MobileInv, TaskBecomes, InnerBecomes, TakenIsGone
  <2>11. ~missed' => SessionIsCurrent'
    BY <1>1, <1>2, <1>4, <2>1, <2>2, SMT DEF MobileInv, TaskBecomes, InnerBecomes, SessionIsCurrent
  <2>12. ~missed' => WorkersAreTold'
    BY <1>1, <1>2, <1>4, <2>1, <2>2, SMT DEF MobileInv, TaskBecomes, InnerBecomes, WorkersAreTold
  <2>13. ~missed' => CommandsTell'
    BY <2>5, <1>1, <1>2, <1>4, <2>1, <2>2, SMT DEF MobileInv, TaskKept, InnerBecomes
  <2>14. ~missed' => LiveIsHeld'
     BY <1>1, <1>2, <1>4, <2>1, <2>2, SMT DEF MobileInv, TaskBecomes, InnerBecomes, LiveIsHeld,
       Holding
  <2>15. ~missed' => ReadyIsThere'
     BY <1>1, <1>2, <1>4, <2>1, <2>2, SMT DEF MobileInv, TaskBecomes, InnerBecomes, ReadyIsThere,
       ToIdle
  <2> QED
    BY <2>3, <2>5, <2>6, <2>7, <2>8, <2>9, <2>10, <2>11, <2>12, <2>13, <2>14, <2>15 DEF MobileInv
<1>5. CASE live' = live \cup {task[t].gen} /\ TaskGoes(t, "connected")
           /\ UNCHANGED <<inner, lifecycle, active>>
  <2>1. TaskBecomes(t, "connected", task[t].cmd, task[t].gen)
    BY <1>1, <1>5, TaskGoesTo DEF TaskPcs, WaitingPcs, FreshPcs, MadePcs
  <2>2. live' \subseteq 1 .. MaxGen
    <3>1. live \subseteq 1 .. MaxGen
      BY <1>1 DEF MobileTypeOK
    <3> QED
      BY <1>2, <1>5, <3>1
  <2>3. ShellTyped'
    BY <1>1, <1>2, <1>5, <2>1, <2>2 DEF ShellTyped, MobileTypeOK, TaskBecomes, InnerRecs
  <2>4. TakenIsGone' /\ (~missed' => SessionIsCurrent')
    BY <1>1, <1>2, <1>5, <2>1, <2>2 DEF MobileInv, TakenIsGone, SessionIsCurrent
  <2>5. TaskMay(t, "connected", task[t].cmd, task[t].gen)
    <3>1. Placed(task[t].pc, task[t].cmd, task[t].gen)
          /\ (task[t].pc \notin WaitingPcs) = (lifecycle = t)
      BY DEF MobileInv, TasksPlaced, LockIsHeld
    <3>2. Placed("connected", task[t].cmd, task[t].gen)
      BY <3>1, <1>1, <1>2, <1>5, <2>1, <2>2, SMT DEF Placed, FreshPcs, MadePcs, WaitingPcs
    <3>3. ("connected" \notin WaitingPcs) = (lifecycle' = t)
          /\ (lifecycle' # lifecycle => lifecycle \in {0, t} /\ lifecycle' \in {0, t})
      BY <3>1, <1>1, <1>2, <1>5, <2>1, <2>2, SMT DEF WaitingPcs, Tasks
    <3>4. ("connected" \in FreshPcs => task[t].pc \in FreshPcs) /\ ("connected" \in MadePcs
          /\ inner'.session = inner.session => task[t].pc \in MadePcs)
      BY <1>1, <1>2, <1>5, <2>1, <2>2, SMT DEF FreshPcs, MadePcs
    <3> QED
      BY <3>1, <3>2, <3>3, <3>4, <1>1, <1>2, <1>5, <2>1, <2>2 DEF TaskMay, Placed
  <2>6. LockIsHeld' /\ TasksPlaced' /\ ConnectsCounted' /\ TaskKept
    BY <2>5, TaskMayMove DEF TaskKept
  <2>7. TearsPlaced'
    BY <1>1, <1>2, <1>5, <2>1, <2>2, ThreadKinds, SMT DEF MobileInv, TaskBecomes, TearsPlaced
  <2>8. DialledIsLive'
    BY <1>1, <1>2, <1>5, <2>1, <2>2, SMT DEF MobileInv, TaskBecomes, DialledIsLive
  <2>9. SpawnsOnce'
    <3>1. \A k \in {"sup", "aud", "med"} : "connected" \notin NotYet(k)
      BY DEF NotYet
    <3> QED
      BY <3>1, <1>1, <2>1 DEF MobileInv, SpawnsOnce, TaskBecomes
  <2>10. OnlyUsed'
     BY <2>6, <1>1, <1>2, <1>5, <2>1, <2>2, ThreadKinds, SMT DEF MobileInv, TaskKept, TaskBecomes,
       OnlyUsed
  <2>11. ~missed' => WorkersAreTold'
    BY <1>1, <1>2, <1>5, <2>1, <2>2, SMT DEF MobileInv, TaskBecomes, WorkersAreTold
  <2>12. ~missed' => CommandsTell'
    BY <2>6, <1>1, <1>2, <1>5, <2>1, <2>2, SMT DEF MobileInv, TaskKept
  <2>13. ~missed' => LiveIsHeld'
    BY <1>1, <1>2, <1>5, <2>1, <2>2, SMT DEF MobileInv, TaskBecomes, LiveIsHeld, Holding
  <2>14. ~missed' => ReadyIsThere'
    BY <1>1, <1>2, <1>5, <2>1, <2>2, SMT DEF MobileInv, TaskBecomes, ReadyIsThere, ToIdle
  <2> QED
    BY <2>3, <2>4, <2>6, <2>7, <2>8, <2>9, <2>10, <2>11, <2>12, <2>13, <2>14 DEF MobileInv
<1> QED
  BY <1>3, <1>4, <1>5 DEF MobileDial

\* A connected session is given up to a late cancel or to an error, or goes on to be installed.
LEMMA ConnectedKeepsInv ==
    ASSUME MobileInv, NEW t \in Tasks, Connected(t)
    PROVE  MobileInv'
<1>1. /\ ShellTyped /\ MobileTypeOK /\ inner \in InnerRecs
      /\ task \in [Tasks -> TaskRecs] /\ tear \in [Threads -> TearRecs]
      /\ task[t].pc = "connected"
      /\ UNCHANGED <<stopFlag, cancelFlag, coord, worker, calls, missed>>
  BY DEF MobileInv, Connected, TaskAt, ShellTyped, MobileTypeOK, InnerRecs
<1>2. /\ task[t].gen = inner.gen /\ inner.gen \in 1 .. MaxGen /\ inner.gen \notin UsedGens
      /\ (\A u \in Tasks : u # t => task[u].pc \in WaitingPcs)
  <2>1. Placed(task[t].pc, task[t].cmd, task[t].gen) /\ (\A u \in Tasks :
        (task[u].pc \notin WaitingPcs) = (lifecycle = u))
    BY DEF MobileInv, TasksPlaced, LockIsHeld
  <2>2. task[t].pc \in FreshPcs /\ task[t].pc \notin WaitingPcs
    BY <1>1, SMT DEF FreshPcs, WaitingPcs
  <2>3. task[t].gen = inner.gen /\ inner.gen \in 1 .. MaxGen
    BY <1>1, <2>1, <2>2, SMT DEF Placed, InnerRecs
  <2>4. \A u \in Tasks : u # t => task[u].pc \in WaitingPcs
    BY <2>1, <2>2
  <2> QED
    BY <2>2, <2>3, <2>4, SMT DEF UsedGens
<1>3. \A u \in Tasks : u # t => task[u].pc \notin {"connected", "install"}
  BY <1>2, SMT DEF WaitingPcs
<1>4. tear[Task(t)].pc = "none" /\ inner.session # inner.gen
  BY <1>1, <1>2, SMT DEF MobileInv, TearsPlaced, OnlyUsed
<1>5. CASE live' = live \ {task[t].gen} /\ Return(t) /\ UNCHANGED <<inner, cancelPending, tear>>
  <2>1. TaskBecomes(t, "idle", "none", 0) /\ lifecycle' = 0 /\ active' \in 0 .. MaxGen
    BY <1>1, <1>5, TaskReturns
  <2>2. ShellTyped'
    BY <1>1, <1>2, <1>3, <1>4, <1>5, <2>1 DEF ShellTyped, MobileTypeOK, TaskBecomes, InnerRecs
  <2>3. TakenIsGone' /\ (~missed' => SessionIsCurrent')
    BY <1>1, <1>2, <1>3, <1>4, <1>5, <2>1 DEF MobileInv, TakenIsGone, SessionIsCurrent
  <2>4. TaskMay(t, "idle", "none", 0)
    <3>1. Placed(task[t].pc, task[t].cmd, task[t].gen)
          /\ (task[t].pc \notin WaitingPcs) = (lifecycle = t)
      BY DEF MobileInv, TasksPlaced, LockIsHeld
    <3>2. Placed("idle", "none", 0)
      BY SMT DEF Placed, FreshPcs, MadePcs, WaitingPcs
    <3>3. ("idle" \notin WaitingPcs) = (lifecycle' = t) /\ (lifecycle' # lifecycle
          => lifecycle \in {0, t} /\ lifecycle' \in {0, t})
      BY <3>1, <1>1, <1>2, <1>3, <1>4, <1>5, <2>1, SMT DEF WaitingPcs, Tasks
    <3>4. ("idle" \in FreshPcs => task[t].pc \in FreshPcs) /\ ("idle" \in MadePcs
          /\ inner'.session = inner.session => task[t].pc \in MadePcs)
      BY <1>1, <1>2, <1>3, <1>4, <1>5, <2>1, SMT DEF FreshPcs, MadePcs
    <3> QED
      BY <3>1, <3>2, <3>3, <3>4, <1>1, <1>2, <1>3, <1>4, <1>5, <2>1 DEF TaskMay, Placed
  <2>5. LockIsHeld' /\ TasksPlaced' /\ ConnectsCounted' /\ TaskKept
    BY <2>4, TaskMayMove DEF TaskKept
  <2>6. TearsPlaced'
    BY <1>1, <1>2, <1>3, <1>4, <1>5, <2>1, ThreadKinds, SMT DEF MobileInv, TaskBecomes, TearsPlaced
  <2>7. DialledIsLive'
    BY <1>1, <1>2, <1>3, <1>4, <1>5, <2>1, SMT DEF MobileInv, TaskBecomes, DialledIsLive
  <2>8. SpawnsOnce'
    <3>1. \A k \in {"sup", "aud", "med"} : "idle" \notin NotYet(k)
      BY DEF NotYet
    <3> QED
      BY <3>1, <1>1, <2>1 DEF MobileInv, SpawnsOnce, TaskBecomes
  <2>9. OnlyUsed'
     BY <2>5, <1>1, <1>2, <1>3, <1>4, <1>5, <2>1, ThreadKinds, SMT DEF MobileInv, TaskKept,
       TaskBecomes, OnlyUsed
  <2>10. ~missed' => WorkersAreTold'
    BY <1>1, <1>2, <1>3, <1>4, <1>5, <2>1, SMT DEF MobileInv, TaskBecomes, WorkersAreTold
  <2>11. ~missed' => CommandsTell'
    BY <2>5, <1>1, <1>2, <1>3, <1>4, <1>5, <2>1, SMT DEF MobileInv, TaskKept
  <2>12. ~missed' => LiveIsHeld'
    BY <1>1, <1>2, <1>3, <1>4, <1>5, <2>1, SMT DEF MobileInv, TaskBecomes, LiveIsHeld, Holding
  <2>13. ~missed' => ReadyIsThere'
    BY <1>1, <1>2, <1>3, <1>4, <1>5, <2>1, SMT DEF MobileInv, TaskBecomes, ReadyIsThere, ToIdle
  <2> QED
    BY <2>2, <2>3, <2>5, <2>6, <2>7, <2>8, <2>9, <2>10, <2>11, <2>12, <2>13 DEF MobileInv
<1>6. CASE /\ live' = live \ {task[t].gen} /\ SetError /\ cancelPending' = FALSE
           /\ Calls(Task(t), inner.gen, "Idle") /\ TaskGoes(t, "tearing")
           /\ UNCHANGED <<lifecycle, active>>
  <2>1. TaskBecomes(t, "tearing", task[t].cmd, task[t].gen)
    BY <1>1, <1>6, TaskGoesTo DEF TaskPcs, WaitingPcs, FreshPcs, MadePcs
  <2>2. InnerBecomes(inner.gen, "Error", inner.session, inner.runtime)
    BY <1>1, <1>6, InnerErrs
  <2>3. TearBecomes(Task(t), "enter", inner.gen, "Idle", 0, FALSE)
    <3>1. inner.gen \in 0 .. MaxGen
      BY <1>2, SMT
    <3> QED
      BY <1>1, <1>6, <3>1, ThreadKinds, TearIsCalled DEF Targets
  <2>4. inner.gen \in UsedGens'
    BY <1>2, <2>1, <2>2, SMT DEF UsedGens, TaskBecomes, InnerBecomes, WaitingPcs, FreshPcs
  <2>5. ShellTyped'
     BY <1>1, <1>2, <1>3, <1>4, <1>6, <2>1, <2>2, <2>3, <2>4 DEF ShellTyped, MobileTypeOK,
       TaskBecomes, TearBecomes, InnerBecomes, InnerRecs
  <2>6. TaskMay(t, "tearing", task[t].cmd, task[t].gen)
    <3>1. Placed(task[t].pc, task[t].cmd, task[t].gen)
          /\ (task[t].pc \notin WaitingPcs) = (lifecycle = t)
      BY DEF MobileInv, TasksPlaced, LockIsHeld
    <3>2. Placed("tearing", task[t].cmd, task[t].gen)
      BY SMT DEF Placed, FreshPcs, MadePcs, WaitingPcs
    <3>3. ("tearing" \notin WaitingPcs) = (lifecycle' = t)
          /\ (lifecycle' # lifecycle => lifecycle \in {0, t} /\ lifecycle' \in {0, t})
      BY <3>1, <1>1, <1>2, <1>3, <1>4, <1>6, <2>1, <2>2, <2>3, <2>4, SMT DEF WaitingPcs, Tasks
    <3>4. ("tearing" \in FreshPcs => task[t].pc \in FreshPcs) /\ ("tearing" \in MadePcs
          /\ inner'.session = inner.session => task[t].pc \in MadePcs)
      BY <1>1, <1>2, <1>3, <1>4, <1>6, <2>1, <2>2, <2>3, <2>4, SMT DEF FreshPcs, MadePcs
    <3> QED
       BY <3>1, <3>2, <3>3, <3>4, <1>1, <1>2, <1>3, <1>4, <1>6, <2>1, <2>2, <2>3, <2>4 DEF TaskMay,
         Placed, InnerBecomes
  <2>7. LockIsHeld' /\ TasksPlaced' /\ ConnectsCounted' /\ TaskKept
    BY <2>6, TaskMayMove DEF TaskKept
  <2>8. TearsPlaced'
     BY <1>1, <1>2, <1>3, <1>4, <1>6, <2>1, <2>2, <2>3, <2>4, ThreadKinds, SMT DEF MobileInv,
       TaskBecomes, TearBecomes, InnerBecomes, TearsPlaced
  <2>9. DialledIsLive'
     BY <1>1, <1>2, <1>3, <1>4, <1>6, <2>1, <2>2, <2>3, <2>4, SMT DEF MobileInv, TaskBecomes,
       TearBecomes, InnerBecomes, DialledIsLive
  <2>10. SpawnsOnce'
    <3>1. \A k \in {"sup", "aud", "med"} : "tearing" \notin NotYet(k)
      BY DEF NotYet
    <3> QED
      BY <3>1, <1>1, <2>1 DEF MobileInv, SpawnsOnce, TaskBecomes
  <2>11. OnlyUsed'
     BY <2>7, <1>1, <1>2, <1>3, <1>4, <1>6, <2>1, <2>2, <2>3, <2>4, ThreadKinds, SMT DEF MobileInv,
       TaskKept, TaskBecomes, TearBecomes, InnerBecomes, OnlyUsed
  <2>12. TakenIsGone'
     BY <1>1, <1>2, <1>3, <1>4, <1>6, <2>1, <2>2, <2>3, <2>4, SMT DEF MobileInv, TaskBecomes,
       TearBecomes, InnerBecomes, TakenIsGone
  <2>13. ~missed' => SessionIsCurrent'
     BY <1>1, <1>2, <1>3, <1>4, <1>6, <2>1, <2>2, <2>3, <2>4, SMT DEF MobileInv, TaskBecomes,
       TearBecomes, InnerBecomes, SessionIsCurrent
  <2>14. ~missed' => WorkersAreTold'
     BY <1>1, <1>2, <1>3, <1>4, <1>6, <2>1, <2>2, <2>3, <2>4, SMT DEF MobileInv, TaskBecomes,
       TearBecomes, InnerBecomes, WorkersAreTold
  <2>15. ~missed' => CommandsTell'
     BY <2>7, <1>1, <1>2, <1>3, <1>4, <1>6, <2>1, <2>2, <2>3, <2>4, SMT DEF MobileInv, TaskKept,
       InnerBecomes
  <2>16. ~missed' => LiveIsHeld'
     BY <1>1, <1>2, <1>3, <1>4, <1>6, <2>1, <2>2, <2>3, <2>4, SMT DEF MobileInv, TaskBecomes,
       TearBecomes, InnerBecomes, LiveIsHeld, Holding
  <2>17. ~missed' => ReadyIsThere'
     BY <1>1, <1>2, <1>3, <1>4, <1>6, <2>1, <2>2, <2>3, <2>4, SMT DEF MobileInv, TaskBecomes,
       TearBecomes, InnerBecomes, ReadyIsThere, ToIdle
  <2> QED
    BY <2>5, <2>7, <2>8, <2>9, <2>10, <2>11, <2>12, <2>13, <2>14, <2>15, <2>16, <2>17 DEF MobileInv
<1>7. CASE TaskGoes(t, "install")
           /\ UNCHANGED <<inner, live, cancelPending, tear, lifecycle, active>>
  <2>1. TaskBecomes(t, "install", task[t].cmd, task[t].gen)
    BY <1>1, <1>7, TaskGoesTo DEF TaskPcs, WaitingPcs, FreshPcs, MadePcs
  <2>2. ShellTyped'
    BY <1>1, <1>2, <1>3, <1>4, <1>7, <2>1 DEF ShellTyped, MobileTypeOK, TaskBecomes, InnerRecs
  <2>3. TakenIsGone' /\ (~missed' => SessionIsCurrent' /\ ReadyIsThere')
     BY <1>1, <1>2, <1>3, <1>4, <1>7, <2>1 DEF MobileInv, TakenIsGone, SessionIsCurrent,
       ReadyIsThere, ToIdle
  <2>4. TaskMay(t, "install", task[t].cmd, task[t].gen)
    <3>1. Placed(task[t].pc, task[t].cmd, task[t].gen)
          /\ (task[t].pc \notin WaitingPcs) = (lifecycle = t)
      BY DEF MobileInv, TasksPlaced, LockIsHeld
    <3>2. Placed("install", task[t].cmd, task[t].gen)
      BY <3>1, <1>1, <1>2, <1>3, <1>4, <1>7, <2>1, SMT DEF Placed, FreshPcs, MadePcs, WaitingPcs
    <3>3. ("install" \notin WaitingPcs) = (lifecycle' = t)
          /\ (lifecycle' # lifecycle => lifecycle \in {0, t} /\ lifecycle' \in {0, t})
      BY <3>1, <1>1, <1>2, <1>3, <1>4, <1>7, <2>1, SMT DEF WaitingPcs, Tasks
    <3>4. ("install" \in FreshPcs => task[t].pc \in FreshPcs) /\ ("install" \in MadePcs
          /\ inner'.session = inner.session => task[t].pc \in MadePcs)
      BY <1>1, <1>2, <1>3, <1>4, <1>7, <2>1, SMT DEF FreshPcs, MadePcs
    <3> QED
      BY <3>1, <3>2, <3>3, <3>4, <1>1, <1>2, <1>3, <1>4, <1>7, <2>1 DEF TaskMay, Placed
  <2>5. LockIsHeld' /\ TasksPlaced' /\ ConnectsCounted' /\ TaskKept
    BY <2>4, TaskMayMove DEF TaskKept
  <2>6. TearsPlaced'
    BY <1>1, <1>2, <1>3, <1>4, <1>7, <2>1, ThreadKinds, SMT DEF MobileInv, TaskBecomes, TearsPlaced
  <2>7. DialledIsLive'
    BY <1>1, <1>2, <1>3, <1>4, <1>7, <2>1, SMT DEF MobileInv, TaskBecomes, DialledIsLive
  <2>8. SpawnsOnce'
    <3>1. \A k \in {"sup", "aud", "med"} : "install" \notin NotYet(k)
      BY DEF NotYet
    <3> QED
      BY <3>1, <1>1, <2>1 DEF MobileInv, SpawnsOnce, TaskBecomes
  <2>9. OnlyUsed'
     BY <2>5, <1>1, <1>2, <1>3, <1>4, <1>7, <2>1, ThreadKinds, SMT DEF MobileInv, TaskKept,
       TaskBecomes, OnlyUsed
  <2>10. ~missed' => WorkersAreTold'
    BY <1>1, <1>2, <1>3, <1>4, <1>7, <2>1, SMT DEF MobileInv, TaskBecomes, WorkersAreTold
  <2>11. ~missed' => CommandsTell'
    BY <2>5, <1>1, <1>2, <1>3, <1>4, <1>7, <2>1, SMT DEF MobileInv, TaskKept
  <2>12. ~missed' => LiveIsHeld'
    BY <1>1, <1>2, <1>3, <1>4, <1>7, <2>1, SMT DEF MobileInv, TaskBecomes, LiveIsHeld, Holding
  <2> QED
    BY <2>2, <2>3, <2>5, <2>6, <2>7, <2>8, <2>9, <2>10, <2>11, <2>12 DEF MobileInv
<1> QED
  BY <1>5, <1>6, <1>7 DEF Connected

\* The session becomes the current one, or is given up.
LEMMA InstallKeepsInv ==
    ASSUME MobileInv, NEW t \in Tasks, Install(t)
    PROVE  MobileInv'
<1>1. /\ ShellTyped /\ MobileTypeOK /\ inner \in InnerRecs
      /\ task \in [Tasks -> TaskRecs] /\ tear \in [Threads -> TearRecs]
      /\ task[t].pc = "install"
      /\ UNCHANGED <<stopFlag, cancelFlag, cancelPending, coord, tear, worker, calls, missed>>
  BY DEF MobileInv, Install, TaskAt, ShellTyped, MobileTypeOK, InnerRecs
<1>2. /\ task[t].gen = inner.gen /\ inner.gen \in 1 .. MaxGen /\ inner.gen \notin UsedGens
      /\ (\A u \in Tasks : u # t => task[u].pc \in WaitingPcs)
  <2>1. Placed(task[t].pc, task[t].cmd, task[t].gen) /\ (\A u \in Tasks :
        (task[u].pc \notin WaitingPcs) = (lifecycle = u))
    BY DEF MobileInv, TasksPlaced, LockIsHeld
  <2>2. task[t].pc \in FreshPcs /\ task[t].pc \notin WaitingPcs
    BY <1>1, SMT DEF FreshPcs, WaitingPcs
  <2>3. task[t].gen = inner.gen /\ inner.gen \in 1 .. MaxGen
    BY <1>1, <2>1, <2>2, SMT DEF Placed, InnerRecs
  <2>4. \A u \in Tasks : u # t => task[u].pc \in WaitingPcs
    BY <2>1, <2>2
  <2> QED
    BY <2>2, <2>3, <2>4, SMT DEF UsedGens
<1>3. \A u \in Tasks : u # t => task[u].pc \notin {"connected", "install"}
  BY <1>2, SMT DEF WaitingPcs
<1>4. /\ inner.session # inner.gen /\ inner.runtime # inner.gen /\ coord.done # inner.gen
      /\ \A x \in Threads : tear[x].gen # inner.gen /\ tear[x].sess # inner.gen
  BY <1>2 DEF MobileInv, OnlyUsed
<1>5. CASE SetError /\ live' = live \ {task[t].gen} /\ Return(t)
  <2>1. TaskBecomes(t, "idle", "none", 0) /\ lifecycle' = 0 /\ active' \in 0 .. MaxGen
    BY <1>1, <1>5, TaskReturns
  <2>2. InnerBecomes(inner.gen, "Error", inner.session, inner.runtime)
    BY <1>1, <1>5, InnerErrs
  <2>3. ShellTyped'
     BY <1>1, <1>2, <1>3, <1>4, <1>5, <2>1, <2>2 DEF ShellTyped, MobileTypeOK, TaskBecomes,
       InnerBecomes, InnerRecs
  <2>4. TaskMay(t, "idle", "none", 0)
    <3>1. Placed(task[t].pc, task[t].cmd, task[t].gen)
          /\ (task[t].pc \notin WaitingPcs) = (lifecycle = t)
      BY DEF MobileInv, TasksPlaced, LockIsHeld
    <3>2. Placed("idle", "none", 0)
      BY SMT DEF Placed, FreshPcs, MadePcs, WaitingPcs
    <3>3. ("idle" \notin WaitingPcs) = (lifecycle' = t) /\ (lifecycle' # lifecycle
          => lifecycle \in {0, t} /\ lifecycle' \in {0, t})
      BY <3>1, <1>1, <1>2, <1>3, <1>4, <1>5, <2>1, <2>2, SMT DEF WaitingPcs, Tasks
    <3>4. ("idle" \in FreshPcs => task[t].pc \in FreshPcs) /\ ("idle" \in MadePcs
          /\ inner'.session = inner.session => task[t].pc \in MadePcs)
      BY <1>1, <1>2, <1>3, <1>4, <1>5, <2>1, <2>2, SMT DEF FreshPcs, MadePcs
    <3> QED
       BY <3>1, <3>2, <3>3, <3>4, <1>1, <1>2, <1>3, <1>4, <1>5, <2>1, <2>2 DEF TaskMay, Placed,
         InnerBecomes
  <2>5. LockIsHeld' /\ TasksPlaced' /\ ConnectsCounted' /\ TaskKept
    BY <2>4, TaskMayMove DEF TaskKept
  <2>6. TearsPlaced'
     BY <1>1, <1>2, <1>3, <1>4, <1>5, <2>1, <2>2, ThreadKinds, SMT DEF MobileInv, TaskBecomes,
       InnerBecomes, TearsPlaced
  <2>7. DialledIsLive'
     BY <1>1, <1>2, <1>3, <1>4, <1>5, <2>1, <2>2, SMT DEF MobileInv, TaskBecomes, InnerBecomes,
       DialledIsLive
  <2>8. SpawnsOnce'
    <3>1. \A k \in {"sup", "aud", "med"} : "idle" \notin NotYet(k)
      BY DEF NotYet
    <3> QED
      BY <3>1, <1>1, <2>1 DEF MobileInv, SpawnsOnce, TaskBecomes
  <2>9. OnlyUsed'
     BY <2>5, <1>1, <1>2, <1>3, <1>4, <1>5, <2>1, <2>2, ThreadKinds, SMT DEF MobileInv, TaskKept,
       TaskBecomes, InnerBecomes, OnlyUsed
  <2>10. TakenIsGone'
     BY <1>1, <1>2, <1>3, <1>4, <1>5, <2>1, <2>2, SMT DEF MobileInv, TaskBecomes, InnerBecomes,
       TakenIsGone
  <2>11. ~missed' => SessionIsCurrent'
     BY <1>1, <1>2, <1>3, <1>4, <1>5, <2>1, <2>2, SMT DEF MobileInv, TaskBecomes, InnerBecomes,
       SessionIsCurrent
  <2>12. ~missed' => WorkersAreTold'
     BY <1>1, <1>2, <1>3, <1>4, <1>5, <2>1, <2>2, SMT DEF MobileInv, TaskBecomes, InnerBecomes,
       WorkersAreTold
  <2>13. ~missed' => CommandsTell'
    BY <2>5, <1>1, <1>2, <1>3, <1>4, <1>5, <2>1, <2>2, SMT DEF MobileInv, TaskKept, InnerBecomes
  <2>14. ~missed' => LiveIsHeld'
     BY <1>1, <1>2, <1>3, <1>4, <1>5, <2>1, <2>2, SMT DEF MobileInv, TaskBecomes, InnerBecomes,
       LiveIsHeld, Holding
  <2>15. ~missed' => ReadyIsThere'
     BY <1>1, <1>2, <1>3, <1>4, <1>5, <2>1, <2>2, SMT DEF MobileInv, TaskBecomes, InnerBecomes,
       ReadyIsThere, ToIdle
  <2> QED
    BY <2>3, <2>5, <2>6, <2>7, <2>8, <2>9, <2>10, <2>11, <2>12, <2>13, <2>14, <2>15 DEF MobileInv
<1>6. CASE live' = live \ {task[t].gen} /\ Return(t) /\ UNCHANGED inner
  <2>1. TaskBecomes(t, "idle", "none", 0) /\ lifecycle' = 0 /\ active' \in 0 .. MaxGen
    BY <1>1, <1>6, TaskReturns
  <2>2. ShellTyped'
    BY <1>1, <1>2, <1>3, <1>4, <1>6, <2>1 DEF ShellTyped, MobileTypeOK, TaskBecomes, InnerRecs
  <2>3. TakenIsGone' /\ (~missed' => SessionIsCurrent')
    BY <1>1, <1>2, <1>3, <1>4, <1>6, <2>1 DEF MobileInv, TakenIsGone, SessionIsCurrent
  <2>4. TaskMay(t, "idle", "none", 0)
    <3>1. Placed(task[t].pc, task[t].cmd, task[t].gen)
          /\ (task[t].pc \notin WaitingPcs) = (lifecycle = t)
      BY DEF MobileInv, TasksPlaced, LockIsHeld
    <3>2. Placed("idle", "none", 0)
      BY SMT DEF Placed, FreshPcs, MadePcs, WaitingPcs
    <3>3. ("idle" \notin WaitingPcs) = (lifecycle' = t) /\ (lifecycle' # lifecycle
          => lifecycle \in {0, t} /\ lifecycle' \in {0, t})
      BY <3>1, <1>1, <1>2, <1>3, <1>4, <1>6, <2>1, SMT DEF WaitingPcs, Tasks
    <3>4. ("idle" \in FreshPcs => task[t].pc \in FreshPcs) /\ ("idle" \in MadePcs
          /\ inner'.session = inner.session => task[t].pc \in MadePcs)
      BY <1>1, <1>2, <1>3, <1>4, <1>6, <2>1, SMT DEF FreshPcs, MadePcs
    <3> QED
      BY <3>1, <3>2, <3>3, <3>4, <1>1, <1>2, <1>3, <1>4, <1>6, <2>1 DEF TaskMay, Placed
  <2>5. LockIsHeld' /\ TasksPlaced' /\ ConnectsCounted' /\ TaskKept
    BY <2>4, TaskMayMove DEF TaskKept
  <2>6. TearsPlaced'
    BY <1>1, <1>2, <1>3, <1>4, <1>6, <2>1, ThreadKinds, SMT DEF MobileInv, TaskBecomes, TearsPlaced
  <2>7. DialledIsLive'
    BY <1>1, <1>2, <1>3, <1>4, <1>6, <2>1, SMT DEF MobileInv, TaskBecomes, DialledIsLive
  <2>8. SpawnsOnce'
    <3>1. \A k \in {"sup", "aud", "med"} : "idle" \notin NotYet(k)
      BY DEF NotYet
    <3> QED
      BY <3>1, <1>1, <2>1 DEF MobileInv, SpawnsOnce, TaskBecomes
  <2>9. OnlyUsed'
     BY <2>5, <1>1, <1>2, <1>3, <1>4, <1>6, <2>1, ThreadKinds, SMT DEF MobileInv, TaskKept,
       TaskBecomes, OnlyUsed
  <2>10. ~missed' => WorkersAreTold'
    BY <1>1, <1>2, <1>3, <1>4, <1>6, <2>1, SMT DEF MobileInv, TaskBecomes, WorkersAreTold
  <2>11. ~missed' => CommandsTell'
    BY <2>5, <1>1, <1>2, <1>3, <1>4, <1>6, <2>1, SMT DEF MobileInv, TaskKept
  <2>12. ~missed' => LiveIsHeld'
    BY <1>1, <1>2, <1>3, <1>4, <1>6, <2>1, SMT DEF MobileInv, TaskBecomes, LiveIsHeld, Holding
  <2>13. ~missed' => ReadyIsThere'
    BY <1>1, <1>2, <1>3, <1>4, <1>6, <2>1, SMT DEF MobileInv, TaskBecomes, ReadyIsThere, ToIdle
  <2> QED
    BY <2>2, <2>3, <2>5, <2>6, <2>7, <2>8, <2>9, <2>10, <2>11, <2>12, <2>13 DEF MobileInv
<1>7. CASE /\ inner' = [inner EXCEPT !.state = "Ready", !.session = task[t].gen,
              !.runtime = task[t].gen]
           /\ live' = live \ ({inner.runtime} \ {0}) /\ TaskGoes(t, "sup")
           /\ UNCHANGED <<lifecycle, active>>
  <2>1. TaskBecomes(t, "sup", task[t].cmd, task[t].gen)
    BY <1>1, <1>7, TaskGoesTo DEF TaskPcs, WaitingPcs, FreshPcs, MadePcs
  <2>2. InnerBecomes(inner.gen, "Ready", inner.gen, inner.gen)
    <3> DEFINE n == inner.gen
    <3>1. n \in 0 .. MaxGen /\ "Ready" \in MobileStates /\ inner \in InnerRecs
      BY <1>1, <1>2, SMT DEF MobileStates
    <3>2. inner' = [inner EXCEPT !.state = "Ready", !.session = n, !.runtime = n]
      BY <1>2, <1>7
    <3> HIDE DEF n
    <3>3. inner' \in InnerRecs
      BY <3>1, <3>2, InnerRecordMoves
    <3>4. inner'.gen = inner.gen /\ inner'.state = "Ready" /\ inner'.session = n
          /\ inner'.runtime = n
      BY <3>1, <3>2, SMT DEF InnerRecs
    <3> QED
      BY <3>3, <3>4 DEF InnerBecomes, n
  <2>3. inner.gen \in UsedGens'
    BY <1>2, <2>1, <2>2, SMT DEF UsedGens, TaskBecomes, InnerBecomes, WaitingPcs, FreshPcs
  <2>4. ~missed => inner.session = 0 /\ inner.gen \in live /\ inner.gen \in live'
    BY <1>1, <1>2, <1>4, <1>7, SMT DEF MobileInv, SessionIsCurrent, DialledIsLive
  <2>5. ShellTyped'
     BY <1>1, <1>2, <1>3, <1>4, <1>7, <2>1, <2>2, <2>3, <2>4 DEF ShellTyped, MobileTypeOK,
       TaskBecomes, InnerBecomes, InnerRecs
  <2>6. TaskMay(t, "sup", task[t].cmd, task[t].gen)
    <3>1. Placed(task[t].pc, task[t].cmd, task[t].gen)
          /\ (task[t].pc \notin WaitingPcs) = (lifecycle = t)
      BY DEF MobileInv, TasksPlaced, LockIsHeld
    <3>2. Placed("sup", task[t].cmd, task[t].gen)
       BY <3>1, <1>1, <1>2, <1>3, <1>4, <1>7, <2>1, <2>2, <2>3, <2>4, SMT DEF Placed, FreshPcs,
         MadePcs, WaitingPcs
    <3>3. ("sup" \notin WaitingPcs) = (lifecycle' = t) /\ (lifecycle' # lifecycle
          => lifecycle \in {0, t} /\ lifecycle' \in {0, t})
      BY <3>1, <1>1, <1>2, <1>3, <1>4, <1>7, <2>1, <2>2, <2>3, <2>4, SMT DEF WaitingPcs, Tasks
    <3>4. ("sup" \in FreshPcs => task[t].pc \in FreshPcs) /\ ("sup" \in MadePcs
          /\ inner'.session = inner.session => task[t].pc \in MadePcs)
      BY <1>1, <1>2, <1>3, <1>4, <1>7, <2>1, <2>2, <2>3, <2>4, SMT DEF FreshPcs, MadePcs
    <3> QED
       BY <3>1, <3>2, <3>3, <3>4, <1>1, <1>2, <1>3, <1>4, <1>7, <2>1, <2>2, <2>3, <2>4 DEF TaskMay,
         Placed, InnerBecomes
  <2>7. LockIsHeld' /\ TasksPlaced' /\ ConnectsCounted' /\ TaskKept
    BY <2>6, TaskMayMove DEF TaskKept
  <2>8. TearsPlaced'
     BY <1>1, <1>2, <1>3, <1>4, <1>7, <2>1, <2>2, <2>3, <2>4, ThreadKinds, SMT DEF MobileInv,
       TaskBecomes, InnerBecomes, TearsPlaced
  <2>9. DialledIsLive'
     BY <1>1, <1>2, <1>3, <1>4, <1>7, <2>1, <2>2, <2>3, <2>4, SMT DEF MobileInv, TaskBecomes,
       InnerBecomes, DialledIsLive
  <2>10. SpawnsOnce'
    <3>1. \A k \in {"sup", "aud", "med"} : worker[<<k, inner.gen>>] = "none"
      <4>1. \A k \in {"sup", "aud", "med"} : <<k, inner.gen>> \in Workers
            /\ <<k, inner.gen>>[2] = inner.gen
        BY <1>2, ThreadKinds
      <4> QED
        BY <1>2, <4>1 DEF MobileInv, OnlyUsed
    <3> QED
      BY <1>1, <1>2, <2>1, <3>1 DEF MobileInv, SpawnsOnce, TaskBecomes
  <2>11. OnlyUsed'
     BY <2>7, <1>1, <1>2, <1>3, <1>4, <1>7, <2>1, <2>2, <2>3, <2>4, ThreadKinds, SMT DEF MobileInv,
       TaskKept, TaskBecomes, InnerBecomes, OnlyUsed
  <2>12. TakenIsGone'
     BY <1>1, <1>2, <1>3, <1>4, <1>7, <2>1, <2>2, <2>3, <2>4, SMT DEF MobileInv, TaskBecomes,
       InnerBecomes, TakenIsGone
  <2>13. ~missed' => SessionIsCurrent'
     BY <1>1, <1>2, <1>3, <1>4, <1>7, <2>1, <2>2, <2>3, <2>4, SMT DEF MobileInv, TaskBecomes,
       InnerBecomes, SessionIsCurrent
  <2>14. ~missed' => WorkersAreTold'
     BY <1>1, <1>2, <1>3, <1>4, <1>7, <2>1, <2>2, <2>3, <2>4, ThreadKinds, SMT DEF MobileInv,
       TaskBecomes, InnerBecomes, WorkersAreTold
  <2>15. ~missed' => CommandsTell'
    <3>1. task'[t].gen = inner.gen /\ inner'.session = inner.gen
          /\ \A u \in Tasks : u # t => task'[u] = task[u]
      BY <1>2, <2>1, <2>2 DEF TaskBecomes, InnerBecomes
    <3>2. \A p : p \in WaitingPcs => p \notin MadePcs
      BY DEF WaitingPcs, MadePcs
    <3> QED
      BY <1>2, <3>1, <3>2 DEF CommandsTell
  <2>16. ~missed' => LiveIsHeld'
     BY <1>1, <1>2, <1>3, <1>4, <1>7, <2>1, <2>2, <2>3, <2>4, SMT DEF MobileInv, TaskBecomes,
       InnerBecomes, LiveIsHeld, Holding, MobileTypeOK
  <2>17. ~missed' => ReadyIsThere'
     BY <1>1, <1>2, <1>3, <1>4, <1>7, <2>1, <2>2, <2>3, <2>4, SMT DEF MobileInv, TaskBecomes,
       InnerBecomes, ReadyIsThere, ToIdle
  <2> QED
    BY <2>5, <2>7, <2>8, <2>9, <2>10, <2>11, <2>12, <2>13, <2>14, <2>15, <2>16, <2>17 DEF MobileInv
<1> QED
  BY <1>5, <1>6, <1>7 DEF Install

\* The steps of connect_blocking that spawn a worker come in the order of these tables.
LEMMA PushSteps ==
    \A k \in {"sup", "aud", "med"} :
        /\ Pushing[k] \in {"push sup", "push aud", "push med"}
        /\ AfterPush[k] \in {"aud", "init", "final"}
        /\ Pushing[k] \in TaskPcs /\ AfterPush[k] \in TaskPcs
        /\ k \in MadePcs /\ Pushing[k] \in MadePcs /\ AfterPush[k] \in MadePcs
        /\ \A p \in {k, Pushing[k], AfterPush[k]} :
             p \notin FreshPcs /\ p \notin WaitingPcs
              /\ p \notin {"idle", "entry", "check", "begin", "tearing", "connected", "install"}
        /\ \A j \in {"sup", "aud", "med"} :
             /\ Pushing[k] \in NotYet(j) => k \in NotYet(j) /\ j # k
             /\ AfterPush[k] \in NotYet(j) => Pushing[k] \in NotYet(j)
<1>1. /\ Pushing["sup"] = "push sup" /\ Pushing["aud"] = "push aud" /\ Pushing["med"] = "push med"
      /\ AfterPush["sup"] = "aud" /\ AfterPush["aud"] = "init" /\ AfterPush["med"] = "final"
  BY DEF Pushing, AfterPush
<1>3. \A j, k \in {"sup", "aud", "med"} :
        /\ Pushing[k] \in NotYet(j) => k \in NotYet(j) /\ j # k
        /\ AfterPush[k] \in NotYet(j) => Pushing[k] \in NotYet(j)
  <2>1. /\ \A j \in {"sup", "aud", "med"} : "push sup" \in NotYet(j) => "sup" \in NotYet(j)
           /\ j # "sup"
        /\ \A j \in {"sup", "aud", "med"} : "push aud" \in NotYet(j) => "aud" \in NotYet(j)
           /\ j # "aud"
        /\ \A j \in {"sup", "aud", "med"} : "push med" \notin NotYet(j) /\ "final" \notin NotYet(j)
        /\ \A j \in {"sup", "aud", "med"} : "aud" \in NotYet(j) => "push sup" \in NotYet(j)
        /\ \A j \in {"sup", "aud", "med"} : "init" \in NotYet(j) => "push aud" \in NotYet(j)
    BY DEF NotYet
  <2> QED
    BY <1>1, <2>1
<1>2. \A p \in {"sup", "aud", "med", "push sup", "push aud", "push med", "init", "final"} :
        /\ p \in MadePcs /\ p \in TaskPcs
        /\ p \notin FreshPcs /\ p \notin WaitingPcs
        /\ p \notin {"idle", "entry", "check", "begin", "tearing", "connected", "install"}
  BY DEF MadePcs, TaskPcs, FreshPcs, WaitingPcs
<1> QED
  BY <1>1, <1>2, <1>3

\* A worker is spawned, or the session is torn down.
LEMMA SpawnKeepsInv ==
    ASSUME MobileInv, NEW t \in Tasks, NEW k \in {"sup", "aud", "med"}, SpawnWorker(t, k)
    PROVE  MobileInv'
<1>1. /\ ShellTyped /\ MobileTypeOK /\ inner \in InnerRecs
      /\ task \in [Tasks -> TaskRecs] /\ tear \in [Threads -> TearRecs]
      /\ task[t].pc = k
      /\ UNCHANGED <<inner, stopFlag, active, cancelFlag, cancelPending, lifecycle, coord, live,
         calls, missed>>
  BY DEF MobileInv, SpawnWorker, TaskAt, ShellTyped, MobileTypeOK, InnerRecs
<1>2. /\ task[t].gen = inner.gen /\ inner.gen \in 1 .. MaxGen /\ inner.gen \in UsedGens
      /\ lifecycle = t
      /\ tear[Task(t)].pc = "none" /\ <<k, inner.gen>> \in Workers
      /\ <<k, inner.gen>>[2] = inner.gen
      /\ (~missed => inner.gen \in stopFlag \/ inner.session = inner.gen)
  <2>1. task[t].pc \in MadePcs /\ task[t].pc \notin FreshPcs /\ task[t].pc \notin WaitingPcs
        /\ task[t].pc # "tearing"
    BY <1>1, PushSteps
  <2>2. Placed(task[t].pc, task[t].cmd, task[t].gen)
        /\ (task[t].pc \notin WaitingPcs) = (lifecycle = t)
    BY DEF MobileInv, TasksPlaced, LockIsHeld
  <2>3. task[t].gen = inner.gen /\ inner.gen \in 1 .. MaxGen
    BY <1>1, <2>1, <2>2, SMT DEF Placed, InnerRecs
  <2>4. inner.gen \in UsedGens
    BY <2>1, HolderUses
  <2>5. <<k, inner.gen>> \in Workers /\ <<k, inner.gen>>[2] = inner.gen
    BY <2>3, ThreadKinds
  <2>6. tear[Task(t)].pc = "none"
    BY <2>1 DEF MobileInv, TearsPlaced
  <2>7. ~missed => inner.gen \in stopFlag \/ inner.session = inner.gen
    BY <2>1, <2>3 DEF MobileInv, CommandsTell
  <2> QED
    BY <2>1, <2>2, <2>3, <2>4, <2>5, <2>6, <2>7
<1> DEFINE p == Pushing[k]
<1>3. CASE worker' = [worker EXCEPT ![<<k, task[t].gen>>] = "run"] /\ TaskGoes(t, p)
           /\ UNCHANGED tear
  <2>1. p \in TaskPcs /\ p # "connected" /\ p # "install" /\ p # "tearing" /\ UNCHANGED tear
    BY <1>3, PushSteps
  <2>2. TaskBecomes(t, p, task[t].cmd, task[t].gen)
    BY <1>1, <1>3, <2>1, TaskGoesTo
  <2>3. /\ worker' \in [Workers -> {"none", "run", "tear", "done"}]
        /\ worker'[<<k, inner.gen>>] = "run" /\ \A w \in Workers : w # <<k, inner.gen>>
           => worker'[w] = worker[w]
    BY <1>1, <1>2, <1>3 DEF MobileTypeOK
  <2>4. ShellTyped'
    BY <1>1, <1>2, <1>3, <2>1, <2>2, <2>3 DEF ShellTyped, MobileTypeOK, TaskBecomes, InnerRecs
  <2>5. TakenIsGone' /\ (~missed' => SessionIsCurrent' /\ ReadyIsThere')
     BY <1>1, <1>2, <1>3, <2>1, <2>2, <2>3 DEF MobileInv, TakenIsGone, SessionIsCurrent,
       ReadyIsThere, ToIdle
  <2>6. TaskMay(t, p, task[t].cmd, task[t].gen)
    <3>1. Placed(task[t].pc, task[t].cmd, task[t].gen)
          /\ (task[t].pc \notin WaitingPcs) = (lifecycle = t)
      BY DEF MobileInv, TasksPlaced, LockIsHeld
    <3> QED
      BY <3>1, <1>1, <1>2, <1>3, <2>1, <2>2, <2>3, PushSteps DEF TaskMay, Placed
  <2>7. LockIsHeld' /\ TasksPlaced' /\ ConnectsCounted' /\ TaskKept
    BY <2>6, TaskMayMove DEF TaskKept
  <2>8. TearsPlaced'
    <3>1. /\ \A u \in Tasks : tear[Task(u)].pc # "none" => u # t
          /\ \A w \in Workers : worker[w] = "tear" => worker'[w] = "tear" \/ w = <<k, inner.gen>>
      BY <1>2, <2>3
    <3>2. worker[<<k, inner.gen>>] = "none"
      BY <1>1, <1>2 DEF MobileInv, SpawnsOnce, NotYet
    <3> QED
      BY <3>1, <3>2, <1>1, <1>2, <1>3, <2>1, <2>2, <2>3 DEF MobileInv, TearsPlaced, TaskBecomes
  <2>9. DialledIsLive'
    BY <1>1, <1>2, <1>3, <2>1, <2>2, <2>3, SMT DEF MobileInv, TaskBecomes, DialledIsLive
  <2>10. SpawnsOnce'
    <3>1. \A j \in {"sup", "aud", "med"} : p \in NotYet(j) => k \in NotYet(j) /\ j # k
      BY PushSteps
    <3>2. \A j \in {"sup", "aud", "med"} : <<j, inner.gen>> \in Workers
          /\ (j # k => <<j, inner.gen>> # <<k, inner.gen>>)
      BY <1>2, ThreadKinds
    <3>3. \A u \in Tasks : u # t => task[u].pc \in WaitingPcs
      BY <1>2 DEF MobileInv, LockIsHeld
    <3>4. \A j \in {"sup", "aud", "med"}, q \in WaitingPcs : q \notin NotYet(j)
      BY DEF NotYet, WaitingPcs
    <3> QED
      BY <1>1, <1>2, <2>2, <2>3, <3>1, <3>2, <3>3, <3>4 DEF MobileInv, SpawnsOnce, TaskBecomes
  <2>11. OnlyUsed'
     BY <2>7, <1>1, <1>2, <1>3, <2>1, <2>2, <2>3, ThreadKinds, SMT DEF MobileInv, TaskKept,
       TaskBecomes, OnlyUsed
  <2>12. ~missed' => WorkersAreTold'
    BY <1>1, <1>2, <2>3 DEF MobileInv, WorkersAreTold
  <2>13. ~missed' => CommandsTell'
    BY <2>7, <1>1, <1>2, <1>3, <2>1, <2>2, <2>3, SMT DEF MobileInv, TaskKept
  <2>14. ~missed' => LiveIsHeld'
    BY <1>1, <1>2, <1>3, <2>1, <2>2, <2>3, SMT DEF MobileInv, TaskBecomes, LiveIsHeld, Holding
  <2> QED
    BY <2>4, <2>5, <2>7, <2>8, <2>9, <2>10, <2>11, <2>12, <2>13, <2>14 DEF MobileInv
<1>4. CASE Calls(Task(t), task[t].gen, "Error") /\ TaskGoes(t, "tearing") /\ UNCHANGED worker
  <2>1. TaskBecomes(t, "tearing", task[t].cmd, task[t].gen)
    BY <1>1, <1>4, TaskGoesTo DEF TaskPcs, WaitingPcs, FreshPcs, MadePcs
  <2>2. TearBecomes(Task(t), "enter", inner.gen, "Error", 0, FALSE)
    <3>1. inner.gen \in 0 .. MaxGen /\ Calls(Task(t), inner.gen, "Error")
      BY <1>2, <1>4, SMT
    <3> QED
      BY <1>1, <3>1, ThreadKinds, TearIsCalled DEF Targets
  <2>3. UNCHANGED worker /\ 0 <= inner.gen /\ task[t].pc # "connected" /\ task[t].pc # "install"
    BY <1>1, <1>2, <1>4, SMT
  <2>4. ShellTyped'
     BY <1>1, <1>2, <1>4, <2>1, <2>2, <2>3 DEF ShellTyped, MobileTypeOK, TaskBecomes, TearBecomes,
       InnerRecs
  <2>5. (~missed' => SessionIsCurrent')
    BY <1>1, <1>2, <1>4, <2>1, <2>2, <2>3 DEF MobileInv, SessionIsCurrent
  <2>6. TaskMay(t, "tearing", task[t].cmd, task[t].gen)
    <3>1. Placed(task[t].pc, task[t].cmd, task[t].gen)
          /\ (task[t].pc \notin WaitingPcs) = (lifecycle = t)
      BY DEF MobileInv, TasksPlaced, LockIsHeld
    <3>2. Placed("tearing", task[t].cmd, task[t].gen)
      BY SMT DEF Placed, FreshPcs, MadePcs, WaitingPcs
    <3>3. ("tearing" \notin WaitingPcs) = (lifecycle' = t)
          /\ (lifecycle' # lifecycle => lifecycle \in {0, t} /\ lifecycle' \in {0, t})
      BY <3>1, <1>1, <1>2, <1>4, <2>1, <2>2, <2>3, SMT DEF WaitingPcs, Tasks
    <3>4. ("tearing" \in FreshPcs => task[t].pc \in FreshPcs) /\ ("tearing" \in MadePcs
          /\ inner'.session = inner.session => task[t].pc \in MadePcs)
      BY <1>1, <1>2, <1>4, <2>1, <2>2, <2>3, SMT DEF FreshPcs, MadePcs
    <3> QED
      BY <3>1, <3>2, <3>3, <3>4, <1>1, <1>2, <1>4, <2>1, <2>2, <2>3 DEF TaskMay, Placed
  <2>7. LockIsHeld' /\ TasksPlaced' /\ ConnectsCounted' /\ TaskKept
    BY <2>6, TaskMayMove DEF TaskKept
  <2>8. TearsPlaced'
     BY <1>1, <1>2, <1>4, <2>1, <2>2, <2>3, ThreadKinds, SMT DEF MobileInv, TaskBecomes,
       TearBecomes, TearsPlaced
  <2>9. DialledIsLive'
     BY <1>1, <1>2, <1>4, <2>1, <2>2, <2>3, SMT DEF MobileInv, TaskBecomes, TearBecomes,
       DialledIsLive
  <2>10. SpawnsOnce'
    <3>1. \A w \in {"sup", "aud", "med"} : "tearing" \notin NotYet(w)
      BY DEF NotYet
    <3> QED
      BY <3>1, <2>1, <2>3 DEF MobileInv, SpawnsOnce, TaskBecomes
  <2>11. OnlyUsed'
     BY <2>7, <1>1, <1>2, <2>2, <2>3, ThreadKinds, SMT DEF MobileInv, TaskKept, TaskBecomes,
       TearBecomes, OnlyUsed
  <2>12. TakenIsGone'
    BY <1>1, <1>2, <1>4, <2>1, <2>2, <2>3, SMT DEF MobileInv, TaskBecomes, TearBecomes, TakenIsGone
  <2>13. ~missed' => WorkersAreTold'
     BY <1>1, <1>2, <1>4, <2>1, <2>2, <2>3, SMT DEF MobileInv, TaskBecomes, TearBecomes,
       WorkersAreTold
  <2>14. ~missed' => CommandsTell'
    BY <2>7, <1>1, <1>2, <1>4, <2>1, <2>2, <2>3, SMT DEF MobileInv, TaskKept
  <2>15. ~missed' => LiveIsHeld'
     BY <1>1, <1>2, <1>4, <2>1, <2>2, <2>3, SMT DEF MobileInv, TaskBecomes, TearBecomes, LiveIsHeld,
       Holding
  <2>16. ~missed' => ReadyIsThere'
     BY <1>1, <1>2, <1>4, <2>1, <2>2, <2>3, SMT DEF MobileInv, TaskBecomes, TearBecomes,
       ReadyIsThere, ToIdle
  <2> QED
    BY <2>4, <2>5, <2>7, <2>8, <2>9, <2>10, <2>11, <2>12, <2>13, <2>14, <2>15, <2>16 DEF MobileInv
<1> QED
  BY <1>3, <1>4 DEF SpawnWorker

\* The handle of a worker is kept.
LEMMA PushKeepsInv ==
    ASSUME MobileInv, NEW t \in Tasks, NEW k \in {"sup", "aud", "med"}, PushHandle(t, k)
    PROVE  MobileInv'
<1>1. /\ ShellTyped /\ MobileTypeOK /\ inner \in InnerRecs
      /\ task \in [Tasks -> TaskRecs] /\ tear \in [Threads -> TearRecs]
      /\ task[t].pc = Pushing[k]
      /\ inner' = [inner EXCEPT !.handles = inner.handles \cup {<<k, task[t].gen>>}]
      /\ TaskGoes(t, AfterPush[k])
      /\ UNCHANGED <<stopFlag, active, cancelFlag, cancelPending, lifecycle, coord, tear, worker,
         live, calls, missed>>
  BY DEF MobileInv, PushHandle, TaskAt, ShellTyped, MobileTypeOK, InnerRecs
<1>2. /\ task[t].gen = inner.gen /\ inner.gen \in 1 .. MaxGen /\ inner.gen \in UsedGens
      /\ lifecycle = t
      /\ tear[Task(t)].pc = "none" /\ <<k, inner.gen>> \in Workers
      /\ <<k, inner.gen>>[2] = inner.gen
      /\ (~missed => inner.gen \in stopFlag \/ inner.session = inner.gen)
  <2>1. task[t].pc \in MadePcs /\ task[t].pc \notin FreshPcs /\ task[t].pc \notin WaitingPcs
        /\ task[t].pc # "tearing"
    BY <1>1, PushSteps
  <2>2. Placed(task[t].pc, task[t].cmd, task[t].gen)
        /\ (task[t].pc \notin WaitingPcs) = (lifecycle = t)
    BY DEF MobileInv, TasksPlaced, LockIsHeld
  <2>3. task[t].gen = inner.gen /\ inner.gen \in 1 .. MaxGen
    BY <1>1, <2>1, <2>2, SMT DEF Placed, InnerRecs
  <2>4. inner.gen \in UsedGens
    BY <2>1, HolderUses
  <2>5. <<k, inner.gen>> \in Workers /\ <<k, inner.gen>>[2] = inner.gen
    BY <2>3, ThreadKinds
  <2>6. tear[Task(t)].pc = "none"
    BY <2>1 DEF MobileInv, TearsPlaced
  <2>7. ~missed => inner.gen \in stopFlag \/ inner.session = inner.gen
    BY <2>1, <2>3 DEF MobileInv, CommandsTell
  <2> QED
    BY <2>1, <2>2, <2>3, <2>4, <2>5, <2>6, <2>7
<1> DEFINE p == AfterPush[k]
<1>3. /\ TaskBecomes(t, p, task[t].cmd, task[t].gen) /\ p # "connected" /\ p # "install"
      /\ task[t].pc # "connected" /\ task[t].pc # "install"
  <2>1. /\ p \in TaskPcs /\ p # "connected" /\ p # "install"
        /\ task[t].pc # "connected" /\ task[t].pc # "install"
    BY <1>1, PushSteps
  <2> QED
    BY <1>1, <2>1, TaskGoesTo
<1>4. InnerBecomes(inner.gen, inner.state, inner.session, inner.runtime)
  <2> DEFINE H == inner.handles \cup {<<k, task[t].gen>>}
  <2>1. inner \in InnerRecs /\ inner' = [inner EXCEPT !.handles = H]
    BY <1>1
  <2>2. H \in SUBSET Workers /\ inner.state \in MobileStates /\ 0 \in 0 .. MaxGen
    BY <1>1, <1>2, MobileShellAssumption, SMT DEF InnerRecs, MobileStates
  <2> HIDE DEF H
  <2>3. inner' \in InnerRecs
    BY <2>1, <2>2, InnerRecordMoves
  <2> QED
    BY <2>1, <2>3, SMT DEF InnerRecs, InnerBecomes
<1>5. ShellTyped'
  BY <1>1, <1>2, <1>3, <1>4 DEF ShellTyped, MobileTypeOK, TaskBecomes, InnerBecomes, InnerRecs
<1>6. TaskMay(t, p, task[t].cmd, task[t].gen)
  <2>1. Placed(task[t].pc, task[t].cmd, task[t].gen)
        /\ (task[t].pc \notin WaitingPcs) = (lifecycle = t)
    BY DEF MobileInv, TasksPlaced, LockIsHeld
  <2> QED
    BY <2>1, <1>1, <1>2, <1>3, <1>4, PushSteps DEF InnerBecomes, TaskMay, Placed
<1>7. LockIsHeld' /\ TasksPlaced' /\ ConnectsCounted' /\ TaskKept
  BY <1>6, TaskMayMove DEF TaskKept
<1>8. TearsPlaced'
  BY <1>1, <1>2, <1>3, <1>4, ThreadKinds, SMT DEF MobileInv, TaskBecomes, InnerBecomes, TearsPlaced
<1>9. DialledIsLive'
  BY <1>1, <1>2, <1>3, <1>4, SMT DEF MobileInv, TaskBecomes, InnerBecomes, DialledIsLive
<1>10. SpawnsOnce'
  <2>1. \A j \in {"sup", "aud", "med"} : p \in NotYet(j) => task[t].pc \in NotYet(j)
    BY <1>1, PushSteps
  <2> QED
    BY <1>1, <1>3, <2>1 DEF MobileInv, SpawnsOnce, TaskBecomes
<1>11. OnlyUsed'
   BY <1>7, <1>1, <1>2, <1>3, <1>4, ThreadKinds, SMT DEF MobileInv, TaskKept, TaskBecomes,
     InnerBecomes, OnlyUsed
<1>12. TakenIsGone'
  BY <1>1, <1>2, <1>3, <1>4, SMT DEF MobileInv, TaskBecomes, InnerBecomes, TakenIsGone
<1>13. ~missed' => SessionIsCurrent'
  BY <1>1, <1>2, <1>3, <1>4, SMT DEF MobileInv, TaskBecomes, InnerBecomes, SessionIsCurrent
<1>14. ~missed' => WorkersAreTold'
  BY <1>1, <1>2, <1>3, <1>4, SMT DEF MobileInv, TaskBecomes, InnerBecomes, WorkersAreTold
<1>15. ~missed' => CommandsTell'
  BY <1>7, <1>1, <1>2, <1>3, <1>4, SMT DEF MobileInv, TaskKept, InnerBecomes
<1>16. ~missed' => LiveIsHeld'
  BY <1>1, <1>2, <1>3, <1>4, SMT DEF MobileInv, TaskBecomes, InnerBecomes, LiveIsHeld, Holding
<1>17. ~missed' => ReadyIsThere'
  BY <1>1, <1>2, <1>3, <1>4, SMT DEF MobileInv, TaskBecomes, InnerBecomes, ReadyIsThere, ToIdle
<1> QED
  BY <1>5, <1>7, <1>8, <1>9, <1>10, <1>11, <1>12, <1>13, <1>14, <1>15, <1>16, <1>17 DEF MobileInv

\* The audio worker started its output, or the session is torn down.
LEMMA AudioInitKeepsInv ==
    ASSUME MobileInv, NEW t \in Tasks, AudioInitialised(t)
    PROVE  MobileInv'
<1>1. /\ ShellTyped /\ MobileTypeOK /\ inner \in InnerRecs
      /\ task \in [Tasks -> TaskRecs] /\ tear \in [Threads -> TearRecs]
      /\ task[t].pc = "init"
      /\ UNCHANGED <<inner, stopFlag, active, cancelFlag, cancelPending, lifecycle, coord, live,
         calls, missed>>
  BY DEF MobileInv, AudioInitialised, TaskAt, ShellTyped, MobileTypeOK, InnerRecs
<1> DEFINE k == "aud"
           aud == <<k, task[t].gen>>
<1>2. /\ task[t].gen = inner.gen /\ inner.gen \in 1 .. MaxGen /\ inner.gen \in UsedGens
      /\ lifecycle = t
      /\ tear[Task(t)].pc = "none" /\ <<"aud", inner.gen>> \in Workers
      /\ <<"aud", inner.gen>>[2] = inner.gen
      /\ (~missed => inner.gen \in stopFlag \/ inner.session = inner.gen)
  <2>1. task[t].pc \in MadePcs /\ task[t].pc \notin FreshPcs /\ task[t].pc \notin WaitingPcs
        /\ task[t].pc # "tearing"
    BY <1>1 DEF MadePcs, FreshPcs, WaitingPcs
  <2>2. Placed(task[t].pc, task[t].cmd, task[t].gen)
        /\ (task[t].pc \notin WaitingPcs) = (lifecycle = t)
    BY DEF MobileInv, TasksPlaced, LockIsHeld
  <2>3. task[t].gen = inner.gen /\ inner.gen \in 1 .. MaxGen
    BY <1>1, <2>1, <2>2, SMT DEF Placed, InnerRecs
  <2>4. inner.gen \in UsedGens
    BY <2>1, HolderUses
  <2>5. <<"aud", inner.gen>> \in Workers /\ <<"aud", inner.gen>>[2] = inner.gen
    BY <2>3, ThreadKinds
  <2>6. tear[Task(t)].pc = "none"
    BY <2>1 DEF MobileInv, TearsPlaced
  <2>7. ~missed => inner.gen \in stopFlag \/ inner.session = inner.gen
    BY <2>1, <2>3 DEF MobileInv, CommandsTell
  <2> QED
    BY <2>1, <2>2, <2>3, <2>4, <2>5, <2>6, <2>7
<1>3. CASE TaskGoes(t, "med") /\ UNCHANGED <<tear, worker>>
  <2>1. TaskBecomes(t, "med", task[t].cmd, task[t].gen)
    BY <1>1, <1>3, TaskGoesTo DEF TaskPcs, WaitingPcs, FreshPcs, MadePcs
  <2>2. UNCHANGED <<tear, worker>>
    BY <1>3
  <2>3. ShellTyped'
    BY <1>1, <1>2, <1>3, <2>1, <2>2 DEF ShellTyped, MobileTypeOK, TaskBecomes, InnerRecs
  <2>4. TakenIsGone' /\ (~missed' => SessionIsCurrent' /\ ReadyIsThere')
     BY <1>1, <1>2, <1>3, <2>1, <2>2 DEF MobileInv, TakenIsGone, SessionIsCurrent, ReadyIsThere,
       ToIdle
  <2>5. TaskMay(t, "med", task[t].cmd, task[t].gen)
    <3>1. Placed(task[t].pc, task[t].cmd, task[t].gen)
          /\ (task[t].pc \notin WaitingPcs) = (lifecycle = t)
      BY DEF MobileInv, TasksPlaced, LockIsHeld
    <3>2. Placed("med", task[t].cmd, task[t].gen)
      BY <3>1, <1>1, <1>2, <1>3, <2>1, <2>2, SMT DEF Placed, FreshPcs, MadePcs, WaitingPcs
    <3>3. ("med" \notin WaitingPcs) = (lifecycle' = t) /\ (lifecycle' # lifecycle
          => lifecycle \in {0, t} /\ lifecycle' \in {0, t})
      BY <3>1, <1>1, <1>2, <1>3, <2>1, <2>2, SMT DEF WaitingPcs, Tasks
    <3>4. ("med" \in FreshPcs => task[t].pc \in FreshPcs) /\ ("med" \in MadePcs
          /\ inner'.session = inner.session => task[t].pc \in MadePcs)
      BY <1>1, <1>2, <1>3, <2>1, <2>2, SMT DEF FreshPcs, MadePcs
    <3> QED
      BY <3>1, <3>2, <3>3, <3>4, <1>1, <1>2, <1>3, <2>1, <2>2 DEF TaskMay, Placed
  <2>6. LockIsHeld' /\ TasksPlaced' /\ ConnectsCounted' /\ TaskKept
    BY <2>5, TaskMayMove DEF TaskKept
  <2>7. TearsPlaced'
    BY <1>1, <1>2, <1>3, <2>1, <2>2, ThreadKinds, SMT DEF MobileInv, TaskBecomes, TearsPlaced
  <2>8. DialledIsLive'
    BY <1>1, <1>2, <1>3, <2>1, <2>2, SMT DEF MobileInv, TaskBecomes, DialledIsLive
  <2>9. SpawnsOnce'
    <3>1. \A j \in {"sup", "aud", "med"} : "med" \in NotYet(j) => "init" \in NotYet(j)
      BY DEF NotYet
    <3> QED
      BY <1>1, <2>1, <2>2, <3>1 DEF MobileInv, SpawnsOnce, TaskBecomes
  <2>10. OnlyUsed'
     BY <2>6, <1>1, <1>2, <1>3, <2>1, <2>2, ThreadKinds, SMT DEF MobileInv, TaskKept, TaskBecomes,
       OnlyUsed
  <2>11. ~missed' => WorkersAreTold'
    BY <1>1, <1>2, <1>3, <2>1, <2>2, SMT DEF MobileInv, TaskBecomes, WorkersAreTold
  <2>12. ~missed' => CommandsTell'
    BY <2>6, <1>1, <1>2, <1>3, <2>1, <2>2, SMT DEF MobileInv, TaskKept
  <2>13. ~missed' => LiveIsHeld'
    BY <1>1, <1>2, <1>3, <2>1, <2>2, SMT DEF MobileInv, TaskBecomes, LiveIsHeld, Holding
  <2> QED
    BY <2>3, <2>4, <2>6, <2>7, <2>8, <2>9, <2>10, <2>11, <2>12, <2>13 DEF MobileInv
<1>4. CASE /\ Calls(Task(t), task[t].gen, "Error") /\ TaskGoes(t, "tearing")
           /\ worker' \in {worker, [worker EXCEPT ![aud] = IF @ = "run" THEN "done" ELSE @]}
  <2>1. TaskBecomes(t, "tearing", task[t].cmd, task[t].gen)
    BY <1>1, <1>4, TaskGoesTo DEF TaskPcs, WaitingPcs, FreshPcs, MadePcs
  <2>2. TearBecomes(Task(t), "enter", inner.gen, "Error", 0, FALSE)
    <3>1. inner.gen \in 0 .. MaxGen /\ Calls(Task(t), inner.gen, "Error")
      BY <1>2, <1>4, SMT
    <3> QED
      BY <1>1, <3>1, ThreadKinds, TearIsCalled DEF Targets
  <2>3. /\ worker' \in [Workers -> {"none", "run", "tear", "done"}]
        /\ \A w \in Workers : worker'[w] = worker[w] \/ (worker[w] = "run" /\ worker'[w] = "done")
        /\ 0 <= inner.gen
    <3>1. worker \in [Workers -> {"none", "run", "tear", "done"}] /\ 0 <= inner.gen
      BY <1>1, <1>2, SMT DEF MobileTypeOK
    <3> QED
      BY <1>4, <3>1
  <2>4. ShellTyped'
     BY <1>1, <1>2, <1>4, <2>1, <2>2, <2>3 DEF ShellTyped, MobileTypeOK, TaskBecomes, TearBecomes,
       InnerRecs
  <2>5. (~missed' => SessionIsCurrent')
    BY <1>1, <1>2, <1>4, <2>1, <2>2, <2>3 DEF MobileInv, SessionIsCurrent
  <2>6. TaskMay(t, "tearing", task[t].cmd, task[t].gen)
    <3>1. Placed(task[t].pc, task[t].cmd, task[t].gen)
          /\ (task[t].pc \notin WaitingPcs) = (lifecycle = t)
      BY DEF MobileInv, TasksPlaced, LockIsHeld
    <3>2. Placed("tearing", task[t].cmd, task[t].gen)
      BY SMT DEF Placed, FreshPcs, MadePcs, WaitingPcs
    <3>3. ("tearing" \notin WaitingPcs) = (lifecycle' = t)
          /\ (lifecycle' # lifecycle => lifecycle \in {0, t} /\ lifecycle' \in {0, t})
      BY <3>1, <1>1, <1>2, <1>4, <2>1, <2>2, <2>3, SMT DEF WaitingPcs, Tasks
    <3>4. ("tearing" \in FreshPcs => task[t].pc \in FreshPcs) /\ ("tearing" \in MadePcs
          /\ inner'.session = inner.session => task[t].pc \in MadePcs)
      BY <1>1, <1>2, <1>4, <2>1, <2>2, <2>3, SMT DEF FreshPcs, MadePcs
    <3> QED
      BY <3>1, <3>2, <3>3, <3>4, <1>1, <1>2, <1>4, <2>1, <2>2, <2>3 DEF TaskMay, Placed
  <2>7. LockIsHeld' /\ TasksPlaced' /\ ConnectsCounted' /\ TaskKept
    BY <2>6, TaskMayMove DEF TaskKept
  <2>8. TearsPlaced'
     BY <1>1, <1>2, <1>4, <2>1, <2>2, <2>3, ThreadKinds, SMT DEF MobileInv, TaskBecomes,
       TearBecomes, TearsPlaced
  <2>9. DialledIsLive'
     BY <1>1, <1>2, <1>4, <2>1, <2>2, <2>3, SMT DEF MobileInv, TaskBecomes, TearBecomes,
       DialledIsLive
  <2>10. SpawnsOnce'
    <3>1. \A j \in {"sup", "aud", "med"} : "tearing" \notin NotYet(j)
      BY DEF NotYet
    <3>2. \A u \in Tasks : u # t => task[u].pc \in WaitingPcs
      BY <1>2 DEF MobileInv, LockIsHeld
    <3>3. \A j \in {"sup", "aud", "med"}, q \in WaitingPcs : q \notin NotYet(j)
      BY DEF NotYet, WaitingPcs
    <3> QED
      BY <2>1, <3>1, <3>2, <3>3 DEF SpawnsOnce, TaskBecomes
  <2>11. OnlyUsed'
     BY <2>7, <1>1, <1>2, <2>2, <2>3, ThreadKinds, SMT DEF MobileInv, TaskKept, TaskBecomes,
       TearBecomes, OnlyUsed
  <2>12. TakenIsGone'
    BY <1>1, <1>2, <1>4, <2>1, <2>2, <2>3, SMT DEF MobileInv, TaskBecomes, TearBecomes, TakenIsGone
  <2>13. ~missed' => WorkersAreTold'
     BY <1>1, <1>2, <1>4, <2>1, <2>2, <2>3, SMT DEF MobileInv, TaskBecomes, TearBecomes,
       WorkersAreTold
  <2>14. ~missed' => CommandsTell'
    BY <2>7, <1>1, <1>2, <1>4, <2>1, <2>2, <2>3, SMT DEF MobileInv, TaskKept
  <2>15. ~missed' => LiveIsHeld'
     BY <1>1, <1>2, <1>4, <2>1, <2>2, <2>3, SMT DEF MobileInv, TaskBecomes, TearBecomes, LiveIsHeld,
       Holding
  <2>16. ~missed' => ReadyIsThere'
     BY <1>1, <1>2, <1>4, <2>1, <2>2, <2>3, SMT DEF MobileInv, TaskBecomes, TearBecomes,
       ReadyIsThere, ToIdle
  <2> QED
    BY <2>4, <2>5, <2>7, <2>8, <2>9, <2>10, <2>11, <2>12, <2>13, <2>14, <2>15, <2>16 DEF MobileInv
<1> QED
  BY <1>3, <1>4 DEF AudioInitialised

\* The connect command returns.
LEMMA ConnectReturnsKeepsInv ==
    ASSUME MobileInv, NEW t \in Tasks, ConnectReturns(t)
    PROVE  MobileInv'
<1>1. /\ ShellTyped /\ MobileTypeOK /\ inner \in InnerRecs
      /\ task \in [Tasks -> TaskRecs] /\ tear \in [Threads -> TearRecs]
      /\ task[t].pc = "final" /\ Return(t)
      /\ UNCHANGED <<inner, stopFlag, cancelFlag, cancelPending, coord, tear, worker, live, calls,
         missed>>
  BY DEF MobileInv, ConnectReturns, TaskAt, ShellTyped, MobileTypeOK, InnerRecs
<1>2. TaskBecomes(t, "idle", "none", 0) /\ lifecycle' = 0 /\ active' \in 0 .. MaxGen
  BY <1>1, TaskReturns
<1>3. ShellTyped'
  BY <1>1, <1>2 DEF ShellTyped, MobileTypeOK, TaskBecomes, InnerRecs
<1>4. TakenIsGone' /\ (~missed' => SessionIsCurrent' /\ ReadyIsThere')
  BY <1>1, <1>2 DEF MobileInv, TakenIsGone, SessionIsCurrent, ReadyIsThere, ToIdle
<1>5. TaskMay(t, "idle", "none", 0)
  <2>1. Placed(task[t].pc, task[t].cmd, task[t].gen)
        /\ (task[t].pc \notin WaitingPcs) = (lifecycle = t)
    BY DEF MobileInv, TasksPlaced, LockIsHeld
  <2>2. Placed("idle", "none", 0)
    BY SMT DEF Placed, FreshPcs, MadePcs, WaitingPcs
  <2>3. ("idle" \notin WaitingPcs) = (lifecycle' = t) /\ (lifecycle' # lifecycle
        => lifecycle \in {0, t} /\ lifecycle' \in {0, t})
    BY <2>1, <1>1, <1>2, SMT DEF WaitingPcs, Tasks
  <2>4. ("idle" \in FreshPcs => task[t].pc \in FreshPcs) /\ ("idle" \in MadePcs
        /\ inner'.session = inner.session => task[t].pc \in MadePcs)
    BY <1>1, <1>2, SMT DEF FreshPcs, MadePcs
  <2> QED
    BY <2>1, <2>2, <2>3, <2>4, <1>1, <1>2 DEF TaskMay, Placed
<1>6. LockIsHeld' /\ TasksPlaced' /\ ConnectsCounted' /\ TaskKept
  BY <1>5, TaskMayMove DEF TaskKept
<1>7. TearsPlaced'
  BY <1>1, <1>2, ThreadKinds, SMT DEF MobileInv, TaskBecomes, TearsPlaced
<1>8. DialledIsLive'
  BY <1>1, <1>2, SMT DEF MobileInv, TaskBecomes, DialledIsLive
<1>9. SpawnsOnce'
  <2>1. \A k \in {"sup", "aud", "med"} : "idle" \notin NotYet(k)
    BY DEF NotYet
  <2> QED
    BY <2>1, <1>1, <1>2 DEF MobileInv, SpawnsOnce, TaskBecomes
<1>10. OnlyUsed'
  BY <1>6, <1>1, <1>2, ThreadKinds, SMT DEF MobileInv, TaskKept, TaskBecomes, OnlyUsed
<1>11. ~missed' => WorkersAreTold'
  BY <1>1, <1>2, SMT DEF MobileInv, TaskBecomes, WorkersAreTold
<1>12. ~missed' => CommandsTell'
  BY <1>6, <1>1, <1>2, SMT DEF MobileInv, TaskKept
<1>13. ~missed' => LiveIsHeld'
  BY <1>1, <1>2, SMT DEF MobileInv, TaskBecomes, LiveIsHeld, Holding
<1> QED
  BY <1>3, <1>4, <1>6, <1>7, <1>8, <1>9, <1>10, <1>11, <1>12, <1>13 DEF MobileInv

\* A worker sees its stop flag.
LEMMA WorkerStopsKeepsInv ==
    ASSUME MobileInv, NEW w \in Workers, WorkerStops(w)
    PROVE  MobileInv'
<1>1. /\ ShellTyped /\ MobileTypeOK /\ inner \in InnerRecs
      /\ task \in [Tasks -> TaskRecs] /\ tear \in [Threads -> TearRecs]
      /\ worker[w] = "run" /\ worker' = [worker EXCEPT ![w] = "done"]
      /\ UNCHANGED <<inner, stopFlag, active, cancelFlag, cancelPending, lifecycle, coord, task,
         tear, live, calls, missed>>
  BY DEF MobileInv, WorkerStops, ShellTyped, MobileTypeOK, InnerRecs
<1>2. /\ worker' \in [Workers -> {"none", "run", "tear", "done"}] /\ worker'[w] = "done"
      /\ worker[w] # "none"
      /\ \A v \in Workers : v # w => worker'[v] = worker[v]
  BY <1>1 DEF MobileTypeOK
<1>3. w \in Threads /\ w[2] \in UsedGens /\ w[2] \in 0 .. MaxGen /\ \A t \in Tasks : Task(t) # w
  BY <1>1, <1>2, ThreadKinds, SMT DEF MobileInv, OnlyUsed
<1>4. ShellTyped'
  BY <1>1, <1>2, <1>3 DEF ShellTyped, MobileTypeOK, InnerRecs
<1>5. LockIsHeld' /\ TasksPlaced' /\ ConnectsCounted' /\ DialledIsLive' /\ TakenIsGone'
      /\ (~missed' => SessionIsCurrent' /\ CommandsTell' /\ LiveIsHeld' /\ ReadyIsThere')
   BY <1>1, <1>2, <1>3 DEF MobileInv, LockIsHeld, TasksPlaced, Placed, ConnectsCounted, Pending,
     DialledIsLive, TakenIsGone, SessionIsCurrent, CommandsTell, LiveIsHeld, Holding, ReadyIsThere,
     ToIdle
<1>6. TearsPlaced'
  BY <1>1, <1>2, <1>3, ThreadKinds, SMT DEF MobileInv, TearsPlaced
<1>7. SpawnsOnce'
  <2>1. \A t \in Tasks, k \in {"sup", "aud", "med"} : task[t].pc \in NotYet(k)
        => <<k, task[t].gen>> \in Workers
    <3>1. \A k \in {"sup", "aud", "med"} : \A p : p \in NotYet(k) => p \in MadePcs
      BY DEF NotYet, MadePcs
    <3>2. \A t \in Tasks : task[t].pc \in MadePcs => task[t].gen \in 1 .. MaxGen
      BY <1>1, SMT DEF MobileInv, TasksPlaced, Placed, InnerRecs
    <3> QED
      BY <3>1, <3>2, ThreadKinds
  <2> QED
    BY <1>1, <1>2, <2>1 DEF MobileInv, SpawnsOnce
<1>8. OnlyUsed'
  <2>1. UsedGens \subseteq UsedGens' /\ {-1, 0} \subseteq UsedGens
    BY <1>1, <1>2, <1>3, UsedStays
  <2> QED
    BY <2>1, <1>1, <1>2, <1>3, ThreadKinds, SMT DEF MobileInv, OnlyUsed
<1>9. ~missed' => WorkersAreTold'
  BY <1>1, <1>2, <1>3, SMT DEF MobileInv, WorkersAreTold
<1> QED
  BY <1>4, <1>5, <1>6, <1>7, <1>8, <1>9 DEF MobileInv

\* A terminal event of a worker: it tears its own generation down.
LEMMA WorkerFailsKeepsInv ==
    ASSUME MobileInv, NEW w \in Workers, WorkerFails(w)
    PROVE  MobileInv'
<1> DEFINE target == IF w[1] = "sup" THEN "Disconnected" ELSE "Error"
<1>1. /\ ShellTyped /\ MobileTypeOK /\ inner \in InnerRecs
      /\ task \in [Tasks -> TaskRecs] /\ tear \in [Threads -> TearRecs]
      /\ calls.faults < MaxFaults /\ calls' = [calls EXCEPT !.faults = calls.faults + 1]
      /\ worker[w] = "run" /\ worker' = [worker EXCEPT ![w] = "tear"]
      /\ Calls(w, w[2], IF w[1] = "sup" THEN "Disconnected" ELSE "Error")
      /\ UNCHANGED <<inner, stopFlag, active, cancelFlag, cancelPending, lifecycle, coord, task,
         live, missed>>
  BY DEF MobileInv, WorkerFails, ShellTyped, MobileTypeOK, InnerRecs
<1>2. /\ worker' \in [Workers -> {"none", "run", "tear", "done"}] /\ worker'[w] = "tear"
      /\ worker[w] # "none"
      /\ \A v \in Workers : v # w => worker'[v] = worker[v]
  BY <1>1 DEF MobileTypeOK
<1>3. w \in Threads /\ w[2] \in UsedGens /\ w[2] \in 0 .. MaxGen /\ \A t \in Tasks : Task(t) # w
  BY <1>1, <1>2, ThreadKinds, SMT DEF MobileInv, OnlyUsed
<1>4. TearBecomes(w, "enter", w[2], target, 0, FALSE) /\ target # "Idle" /\ 0 <= w[2]
  <2>1. target \in Targets /\ target # "Idle" /\ 0 <= w[2]
    BY <1>3, SMT DEF Targets
  <2> QED
    BY <1>1, <1>3, <2>1, TearIsCalled
<1>5. calls' \in [commands: 0 .. MaxCalls, connects: 0 .. MaxGen, faults: 0 .. MaxFaults]
      /\ calls'.connects = calls.connects
  <2> DEFINE n == calls.faults + 1
  <2>1. calls \in [commands: 0 .. MaxCalls, connects: 0 .. MaxGen, faults: 0 .. MaxFaults]
    BY <1>1 DEF MobileTypeOK
  <2>2. n \in 0 .. MaxFaults
    BY <1>1, <2>1, MobileShellAssumption, SMT
  <2>3. calls' = [calls EXCEPT !.faults = n]
    BY <1>1
  <2> HIDE DEF n
  <2> QED
    BY <2>1, <2>2, <2>3
<1>6. tear[w].pc = "none"
  BY <1>1 DEF MobileInv, TearsPlaced
<1>7. ShellTyped'
  BY <1>1, <1>2, <1>3, <1>4, <1>5, <1>6 DEF ShellTyped, MobileTypeOK, TearBecomes, InnerRecs
<1>8. LockIsHeld' /\ TasksPlaced' /\ DialledIsLive' /\ (~missed' => SessionIsCurrent'
      /\ CommandsTell')
   BY <1>1, <1>2, <1>3, <1>4, <1>5, <1>6 DEF MobileInv, LockIsHeld, TasksPlaced, Placed,
     DialledIsLive, SessionIsCurrent, CommandsTell
<1>9. ConnectsCounted'
  BY <1>1, <1>2, <1>3, <1>4, <1>5, <1>6, SMT DEF MobileInv, TearBecomes, ConnectsCounted, Pending
<1>10. TearsPlaced'
  BY <1>1, <1>2, <1>3, <1>4, <1>5, <1>6, ThreadKinds, SMT DEF MobileInv, TearBecomes, TearsPlaced
<1>11. SpawnsOnce'
  <2>1. \A t \in Tasks, k \in {"sup", "aud", "med"} : task[t].pc \in NotYet(k)
        => <<k, task[t].gen>> \in Workers
    <3>1. \A k \in {"sup", "aud", "med"} : \A p : p \in NotYet(k) => p \in MadePcs
      BY DEF NotYet, MadePcs
    <3>2. \A t \in Tasks : task[t].pc \in MadePcs => task[t].gen \in 1 .. MaxGen
      BY <1>1, SMT DEF MobileInv, TasksPlaced, Placed, InnerRecs
    <3> QED
      BY <3>1, <3>2, ThreadKinds
  <2> QED
    BY <1>1, <1>2, <2>1 DEF MobileInv, SpawnsOnce
<1>12. OnlyUsed'
  <2>1. UsedGens \subseteq UsedGens' /\ {-1, 0} \subseteq UsedGens
    BY <1>1, <1>2, <1>3, <1>4, <1>5, <1>6, UsedStays
  <2> QED
     BY <2>1, <1>1, <1>2, <1>3, <1>4, <1>5, <1>6, ThreadKinds, SMT DEF MobileInv, TearBecomes,
       OnlyUsed
<1>13. TakenIsGone'
  BY <1>1, <1>2, <1>3, <1>4, <1>5, <1>6, SMT DEF MobileInv, TearBecomes, TakenIsGone
<1>14. ~missed' => WorkersAreTold'
  BY <1>1, <1>2, <1>3, <1>4, <1>5, <1>6, SMT DEF MobileInv, TearBecomes, WorkersAreTold
<1>15. ~missed' => LiveIsHeld'
  BY <1>1, <1>2, <1>3, <1>4, <1>5, <1>6, SMT DEF MobileInv, TearBecomes, LiveIsHeld, Holding
<1>16. ~missed' => ReadyIsThere'
  BY <1>1, <1>2, <1>3, <1>4, <1>5, <1>6, SMT DEF MobileInv, TearBecomes, ReadyIsThere, ToIdle
<1> QED
  BY <1>7, <1>8, <1>9, <1>10, <1>11, <1>12, <1>13, <1>14, <1>15, <1>16 DEF MobileInv

\* The teardown a worker called has returned.
LEMMA WorkerTornDownKeepsInv ==
    ASSUME MobileInv, NEW w \in Workers, WorkerTornDown(w)
    PROVE  MobileInv'
<1>1. /\ ShellTyped /\ MobileTypeOK /\ inner \in InnerRecs
      /\ task \in [Tasks -> TaskRecs] /\ tear \in [Threads -> TearRecs]
      /\ worker[w] = "tear" /\ tear[w].pc = "returned"
      /\ worker' = [worker EXCEPT ![w] = "done"] /\ tear' = [tear EXCEPT ![w] = NoTear]
      /\ UNCHANGED <<inner, stopFlag, active, cancelFlag, cancelPending, lifecycle, coord, task,
         live, calls, missed>>
  BY DEF MobileInv, WorkerTornDown, ShellTyped, MobileTypeOK, InnerRecs
<1>2. /\ worker' \in [Workers -> {"none", "run", "tear", "done"}] /\ worker'[w] = "done"
      /\ worker[w] # "none"
      /\ \A v \in Workers : v # w => worker'[v] = worker[v]
  BY <1>1 DEF MobileTypeOK
<1>3. w \in Threads /\ w[2] \in UsedGens /\ w[2] \in 0 .. MaxGen /\ \A t \in Tasks : Task(t) # w
  BY <1>1, <1>2, ThreadKinds, SMT DEF MobileInv, OnlyUsed
<1>4. TearBecomes(w, "none", 0, "Idle", 0, FALSE)
  BY <1>1, <1>3, TearEnds
<1>5. ShellTyped'
  BY <1>1, <1>2, <1>3, <1>4 DEF ShellTyped, MobileTypeOK, TearBecomes, InnerRecs
<1>6. LockIsHeld' /\ TasksPlaced' /\ ConnectsCounted' /\ DialledIsLive'
      /\ (~missed' => SessionIsCurrent' /\ CommandsTell')
   BY <1>1, <1>2, <1>3, <1>4 DEF MobileInv, LockIsHeld, TasksPlaced, Placed, ConnectsCounted,
     Pending, DialledIsLive, SessionIsCurrent, CommandsTell
<1>7. TearsPlaced'
  BY <1>1, <1>2, <1>3, <1>4, ThreadKinds, SMT DEF MobileInv, TearBecomes, TearsPlaced
<1>8. SpawnsOnce'
  <2>1. \A t \in Tasks, k \in {"sup", "aud", "med"} : task[t].pc \in NotYet(k)
        => <<k, task[t].gen>> \in Workers
    <3>1. \A k \in {"sup", "aud", "med"} : \A p : p \in NotYet(k) => p \in MadePcs
      BY DEF NotYet, MadePcs
    <3>2. \A t \in Tasks : task[t].pc \in MadePcs => task[t].gen \in 1 .. MaxGen
      BY <1>1, SMT DEF MobileInv, TasksPlaced, Placed, InnerRecs
    <3> QED
      BY <3>1, <3>2, ThreadKinds
  <2> QED
    BY <1>1, <1>2, <2>1 DEF MobileInv, SpawnsOnce
<1>9. OnlyUsed'
  <2>1. UsedGens \subseteq UsedGens' /\ {-1, 0} \subseteq UsedGens
    BY <1>1, <1>2, <1>3, <1>4, UsedStays
  <2> QED
    BY <2>1, <1>1, <1>2, <1>3, <1>4, ThreadKinds, SMT DEF MobileInv, TearBecomes, OnlyUsed
<1>10. TakenIsGone'
  BY <1>1, <1>2, <1>3, <1>4, SMT DEF MobileInv, TearBecomes, TakenIsGone
<1>11. ~missed' => WorkersAreTold'
  BY <1>1, <1>2, <1>3, <1>4, SMT DEF MobileInv, TearBecomes, WorkersAreTold
<1>12. ~missed' => LiveIsHeld'
  BY <1>1, <1>2, <1>3, <1>4, SMT DEF MobileInv, TearBecomes, LiveIsHeld, Holding
<1>13. ~missed' => ReadyIsThere'
  BY <1>1, <1>2, <1>3, <1>4, SMT DEF MobileInv, TearBecomes, ReadyIsThere, ToIdle
<1> QED
  BY <1>5, <1>6, <1>7, <1>8, <1>9, <1>10, <1>11, <1>12, <1>13 DEF MobileInv

\* Every step keeps the inductive invariant.
LEMMA StepKeepsMobileInv == MobileInv /\ [MobileNext]_mobileVars => MobileInv'
<1> SUFFICES ASSUME MobileInv, [MobileNext]_mobileVars PROVE MobileInv'
  OBVIOUS
<1>1. CASE \E t \in Tasks : CallMobileConnect(t) \/ CallDisconnect(t) \/ LockLifecycle(t)
  BY <1>1, CallConnectKeepsInv, CallDisconnectKeepsInv, LockKeepsInv
<1>2. CASE \E t \in Tasks : MobileCommand(t)
  <2> SUFFICES ASSUME NEW t \in Tasks, MobileCommand(t) PROVE MobileInv'
    BY <1>2
  <2>1. CASE CancelActiveConnect(t) \/ CheckPending(t) \/ DisconnectBlocking(t) \/ TornDown(t)
    BY <2>1, CancelKeepsInv, CheckPendingKeepsInv, DisconnectKeepsInv, TornDownKeepsInv
  <2>2. CASE BeginGeneration(t) \/ RegisterConnect(t) \/ MobileDial(t) \/ Connected(t) \/ Install(t)
    BY <2>2, BeginKeepsInv, RegisterKeepsInv, DialKeepsInv, ConnectedKeepsInv, InstallKeepsInv
  <2>3. CASE \E k \in {"sup", "aud", "med"} : SpawnWorker(t, k) \/ PushHandle(t, k)
    BY <2>3, SpawnKeepsInv, PushKeepsInv
  <2>4. CASE AudioInitialised(t) \/ ConnectReturns(t)
    BY <2>4, AudioInitKeepsInv, ConnectReturnsKeepsInv
  <2> QED
    BY <2>1, <2>2, <2>3, <2>4 DEF MobileCommand
<1>3. CASE \E x \in Threads : Teardown(x)
  BY <1>3, EnterKeepsInv, TakeKeepsInv, StopKeepsInv, JoinKeepsInv, FinishKeepsInv DEF Teardown
<1>4. CASE \E w \in Workers : WorkerStops(w) \/ WorkerFails(w) \/ WorkerTornDown(w)
  BY <1>4, WorkerStopsKeepsInv, WorkerFailsKeepsInv, WorkerTornDownKeepsInv
<1>5. CASE UNCHANGED mobileVars
   BY <1>5 DEF MobileInv, mobileVars, ShellTyped, MobileTypeOK, LockIsHeld, TasksPlaced, Placed,
     ConnectsCounted, Pending,
     TearsPlaced, DialledIsLive, SpawnsOnce, OnlyUsed, UsedGens, TakenIsGone, SessionIsCurrent,
      WorkersAreTold,
     CommandsTell, LiveIsHeld, Holding, ReadyIsThere, ToIdle
<1> QED
  BY <1>1, <1>2, <1>3, <1>4, <1>5 DEF MobileNext

\* It holds at the start.
LEMMA MobileInitInv == MobileInit => MobileInv
<1> SUFFICES ASSUME MobileInit PROVE MobileInv
  OBVIOUS
<1>1. /\ task = [t \in Tasks |-> IdleTask] /\ tear = [x \in Threads |-> NoTear]
      /\ worker = [w \in Workers |-> "none"]
      /\ inner.gen = 0 /\ inner.state = "Idle" /\ inner.session = 0 /\ inner.runtime = 0
      /\ coord.done = -1
      /\ live = {} /\ lifecycle = 0 /\ calls.connects = 0 /\ 0 \in 0 .. MaxGen
  BY MobileShellAssumption, SMT DEF MobileInit
<1>2. \A t \in Tasks : task[t].pc = "idle" /\ task[t].cmd = "none" /\ task[t].gen = 0
  BY <1>1 DEF IdleTask
<1>3. \A x \in Threads : tear[x].pc = "none" /\ tear[x].gen = 0 /\ tear[x].sess = 0
      /\ tear[x].applied = FALSE
  BY <1>1 DEF NoTear
<1>4. ShellTyped
  <2>1. IdleTask \in TaskRecs
    BY <1>1, TaskRecordMoves DEF IdleTask, TaskPcs, WaitingPcs
  <2>2. task \in [Tasks -> TaskRecs] /\ tear \in [Threads -> TearRecs]
    BY <1>1, <2>1, TearRecordMoves
  <2>3. inner \in InnerRecs
    BY <1>1, Zenon DEF MobileInit, InnerRecs
  <2>4. calls \in [commands: 0 .. MaxCalls, connects: 0 .. MaxGen, faults: 0 .. MaxFaults]
    <3>1. 0 \in 0 .. MaxCalls /\ 0 \in 0 .. MaxFaults
      BY MobileShellAssumption, SMT
    <3> QED
      BY <1>1, <3>1 DEF MobileInit
  <2>5. coord \in [inflight: -1 .. MaxGen, done: -1 .. MaxGen, failed: BOOLEAN]
    <3>1. -1 \in -1 .. MaxGen
      BY MobileShellAssumption, SMT
    <3> QED
      BY <3>1 DEF MobileInit
  <2>6. /\ stopFlag \subseteq 0 .. MaxGen /\ cancelFlag \subseteq 1 .. MaxGen
        /\ live \subseteq 1 .. MaxGen
        /\ active \in 0 .. MaxGen /\ lifecycle \in {0} \cup Tasks /\ cancelPending \in BOOLEAN
        /\ missed \in BOOLEAN
        /\ worker \in [Workers -> {"none", "run", "tear", "done"}]
    BY <1>1 DEF MobileInit
  <2> QED
    BY <2>2, <2>3, <2>4, <2>5, <2>6 DEF ShellTyped, MobileTypeOK, InnerRecs
<1>5. LockIsHeld /\ TasksPlaced
  <2>1. "idle" \in WaitingPcs /\ "idle" \notin FreshPcs /\ "idle" \notin MadePcs
    BY DEF WaitingPcs, FreshPcs, MadePcs
  <2>2. \A t \in Tasks : t # 0
    BY SMT DEF Tasks
  <2> QED
    BY <1>1, <1>2, <2>1, <2>2 DEF LockIsHeld, TasksPlaced, Placed
<1>6. ConnectsCounted
  <2>1. Pending(1) = 0 /\ Pending(2) = 0
    BY <1>2 DEF Pending, Tasks
  <2> QED
    BY <1>1, <2>1, SMT DEF ConnectsCounted
<1>7. TearsPlaced /\ DialledIsLive
  BY <1>2, <1>3, ThreadKinds DEF TearsPlaced, DialledIsLive
<1>8. SpawnsOnce
  <2>1. \A k \in {"sup", "aud", "med"} : "idle" \notin NotYet(k)
    BY DEF NotYet
  <2> QED
    BY <1>2, <2>1 DEF SpawnsOnce
<1>9. OnlyUsed
  <2>1. {-1, 0} \subseteq UsedGens
    BY <1>1, <1>2, MobileShellAssumption, SMT DEF UsedGens, FreshPcs
  <2> QED
    BY <1>1, <1>3, <2>1, SMT DEF OnlyUsed
<1>10. TakenIsGone
  BY <1>1, <1>3 DEF TakenIsGone
<1>11. SessionIsCurrent /\ WorkersAreTold /\ LiveIsHeld /\ ReadyIsThere
  BY <1>1 DEF SessionIsCurrent, WorkersAreTold, LiveIsHeld, ReadyIsThere
<1>12. CommandsTell
  <2>1. "idle" \notin MadePcs
    BY DEF MadePcs
  <2> QED
    BY <1>2, <2>1 DEF CommandsTell
<1> QED
  BY <1>4, <1>5, <1>6, <1>7, <1>8, <1>9, <1>10, <1>11, <1>12 DEF MobileInv

\* It implies the safety of the shell.
LEMMA MobileInvIsSafe == MobileInv => MobileShellSafe
<1> SUFFICES ASSUME MobileInv PROVE MobileShellSafe
  OBVIOUS
<1>1. MobileTypeOK /\ inner.gen \in 0 .. MaxGen /\ live \subseteq 1 .. MaxGen
  BY DEF MobileInv, ShellTyped, MobileTypeOK
<1>2. ASSUME ~missed PROVE ReadyIsLive
  BY <1>2 DEF MobileInv, ReadyIsThere, ReadyIsLive, ToIdle, TearingDown
<1>3. ASSUME ~missed PROVE SessionAccounted
  <2> SUFFICES ASSUME NEW g \in live
               PROVE  \/ inner.session = g /\ inner.gen = g
                      \/ \E t \in Tasks : task[t].gen = g /\ task[t].pc \in {"connected", "install"}
                      \/ TearingDown(g)
    BY DEF SessionAccounted
  <2>1. g # 0
    BY <1>1, SMT
  <2>2. CASE inner.session = g
    BY <1>3, <2>1, <2>2 DEF MobileInv, SessionIsCurrent
  <2>3. CASE \E x \in Threads : Holding(x, g)
    BY <2>3 DEF Holding, TearingDown
  <2> QED
    BY <1>3, <2>2, <2>3 DEF MobileInv, LiveIsHeld
<1>4. ASSUME ~missed PROVE IdleIsQuiet
  <2> SUFFICES ASSUME inner.state = "Idle"
               PROVE  inner.session = 0 /\ \A w \in Workers : worker[w] = "run" => w[2] \in stopFlag
    BY DEF IdleIsQuiet
  <2>1. inner.session = 0
    BY DEF MobileInv, TakenIsGone
  <2>2. \A w \in Workers : w[2] # 0
    BY ThreadKinds, SMT
  <2> QED
    BY <1>4, <2>1, <2>2 DEF MobileInv, WorkersAreTold
<1> QED
  BY <1>1, <1>2, <1>3, <1>4 DEF MobileShellSafe

(***************************************************************************)
(* The iOS shell is safe whatever the order of commands, cancels and dying *)
(* workers: as long as no connection began beside one whose teardown       *)
(* another thread had claimed (begin_generation finds a session), a        *)
(* connection shown as ready is there, no connected session is forgotten,  *)
(* and an idle shell has told every worker to stop (connect_blocking,      *)
(* execute_teardown).                                                      *)
(***************************************************************************)
THEOREM MobileShellStaysSafe == MobileSpec => []MobileShellSafe
<1>1. MobileInit => MobileInv
  BY MobileInitInv
<1>2. MobileInv /\ [MobileNext]_mobileVars => MobileInv'
  BY StepKeepsMobileInv
<1>3. MobileInv => MobileShellSafe
  BY MobileInvIsSafe
<1> QED
  BY <1>1, <1>2, <1>3, PTL DEF MobileSpec
=============================================================================

----------------------------- MODULE Supervisor -----------------------------
(***************************************************************************)
(* PythonSupervisor of python/orchestrator/python_supervisor.py: the main  *)
(* thread starts the workers and then only waits for signals, whose        *)
(* handler stops them; the monitor thread restarts those that die.  A      *)
(* worker's lock is not reentrant, and a handler runs on top of what the   *)
(* main thread was doing, a lock it held included.                         *)
(***************************************************************************)
EXTENDS Naturals, FiniteSets

CONSTANTS
    NumWorkers,     \* workers are numbered in the order they are registered
    Small,          \* the workers with 2 GB of memory; the others have 4
    Critical,       \* the workers the system cannot do without
    RestartLimit,
    MaxDeaths,      \* bound on processes that die by themselves
    MaxSignals      \* bound on SIGINT and SIGTERM

Workers == 1 .. NumWorkers

ASSUME SupervisorAssumption ==
    /\ NumWorkers \in Nat \ {0} /\ RestartLimit \in Nat /\ MaxDeaths \in Nat /\ MaxSignals \in Nat
    /\ Small \subseteq Workers /\ Critical \subseteq Workers

Ram(w) == IF w \in Small THEN 2 ELSE 4
Unlimited == 8

VARIABLES
    privileged,     \* the process may raise its own hard limit
    addressLimit,   \* RLIMIT_AS of the supervisor, which start() lowers
    workerState,
    handle,         \* process of the WorkerHandle: "none", "alive" or "dead"
    live,           \* number of live processes of each worker
    stopFlag,
    restarts,
    lockedBy,       \* who holds the lock of each worker
    isRunning,
    main,           \* [pc, at], at being a worker
    monitor,        \* [pc, at]
    deaths, signals,
    misjudged,      \* history: workers declared dead while alive
    late            \* history: workers the monitor started after they were stopped

workerVars == <<addressLimit, workerState, handle, live, lockedBy>>
supervisorVars == <<privileged, workerVars, stopFlag, restarts, isRunning, main, monitor,
                    deaths, signals, misjudged, late>>

At(pc, w) == [pc |-> pc, at |-> w]

SupervisorInit ==
    /\ privileged \in BOOLEAN
    /\ addressLimit = Unlimited
    /\ workerState = [w \in Workers |-> "stopped"]
    /\ handle = [w \in Workers |-> "none"] /\ live = [w \in Workers |-> 0]
    /\ stopFlag = [w \in Workers |-> FALSE] /\ restarts = [w \in Workers |-> 0]
    /\ lockedBy = [w \in Workers |-> "nobody"]
    /\ isRunning = TRUE
    /\ main = At("start", 1) /\ monitor = At("none", 1)
    /\ deaths = 0 /\ signals = 0 /\ misjudged = {} /\ late = {}

-----------------------------------------------------------------------------
(* WorkerHandle.start and stop, called by who: with the lock taken.        *)
Acquire(w, who) ==
    /\ lockedBy[w] = "nobody"
    /\ lockedBy' = [lockedBy EXCEPT ![w] = who]
Release(w) == lockedBy' = [lockedBy EXCEPT ![w] = "nobody"]

AlreadyRunning(w) ==
    /\ handle[w] = "alive"
    /\ UNCHANGED <<addressLimit, workerState, handle, live>>

Spawn(w) ==
    /\ handle[w] # "alive"
    /\ privileged \/ Ram(w) <= addressLimit
    /\ addressLimit' = Ram(w)
    /\ handle' = [handle EXCEPT ![w] = "alive"]
    /\ live' = [live EXCEPT ![w] = @ + 1]
    /\ workerState' = [workerState EXCEPT ![w] = "running"]

(* Mutant: a worker that could not be started is left as it was.           *)
MutantSpawnFails(w) ==
    /\ handle[w] # "alive"
    /\ UNCHANGED <<addressLimit, workerState, handle, live>>

(* setrlimit or Popen raise: an unprivileged process cannot take back the  *)
(* limit that another worker lowered.                                      *)
SpawnFails(w) ==
    /\ handle[w] # "alive"
    /\ addressLimit' \in {addressLimit} \cup
           (IF privileged \/ Ram(w) <= addressLimit THEN {Ram(w)} ELSE {})
    /\ workerState' = [workerState EXCEPT ![w] = "crashed"]
    /\ UNCHANGED <<handle, live>>

(* Mutant: a worker that is already running is started once more.          *)
MutantFinishStart(w) ==
    /\ \/ /\ addressLimit' = Ram(w)
          /\ handle' = [handle EXCEPT ![w] = "alive"]
          /\ live' = [live EXCEPT ![w] = @ + 1]
          /\ workerState' = [workerState EXCEPT ![w] = "running"]
       \/ SpawnFails(w)
    /\ Release(w)

(* Mutant: a start that fails returns with the lock.                       *)
MutantFinishStartLocked(w) ==
    \/ (AlreadyRunning(w) \/ Spawn(w)) /\ Release(w)
    \/ SpawnFails(w) /\ UNCHANGED lockedBy

FinishStart(w) ==
    /\ AlreadyRunning(w) \/ Spawn(w) \/ SpawnFails(w)
    /\ Release(w)

BeginStop(w, who) ==
    /\ Acquire(w, who)
    /\ stopFlag' = [stopFlag EXCEPT ![w] = TRUE]
    /\ UNCHANGED <<addressLimit, workerState, handle, live>>

(* terminate, or kill after five seconds, and wait.                        *)
FinishStop(w) ==
    /\ live' = [live EXCEPT ![w] = IF handle[w] = "alive" THEN @ - 1 ELSE @]
    /\ handle' = [handle EXCEPT ![w] = "none"]
    /\ workerState' = [workerState EXCEPT ![w] = "stopped"]
    /\ Release(w)
    /\ UNCHANGED addressLimit

-----------------------------------------------------------------------------
(* The main thread: start_all, the wait, and the handler's stop_all.       *)
Up == main.pc # "exited"

MainStarts ==
    LET w == main.at
    IN  /\ \/ /\ main.pc = "start" /\ Acquire(w, "main")
              /\ main' = At("starting", w)
              /\ UNCHANGED <<addressLimit, workerState, handle, live>>
           \/ /\ main.pc = "starting" /\ FinishStart(w)
              /\ main' = IF w < NumWorkers THEN At("start", w + 1) ELSE At("launch", 1)
        /\ UNCHANGED <<privileged, stopFlag, restarts, isRunning, monitor, deaths, signals,
                       misjudged, late>>

LaunchMonitor ==
    /\ main.pc = "launch"
    /\ main' = At("wait", 1) /\ monitor' = At("look", 1)
    /\ UNCHANGED <<privileged, workerVars, stopFlag, restarts, isRunning, deaths, signals,
                   misjudged, late>>

(* signal_handler interrupts the main thread wherever it is.               *)
Signal ==
    /\ Up /\ signals < MaxSignals
    /\ signals' = signals + 1
    /\ isRunning' = FALSE
    /\ main' = At("stop", 1)
    /\ UNCHANGED <<privileged, workerVars, stopFlag, restarts, monitor, deaths, misjudged, late>>

MainStops ==
    LET w == main.at
    IN  /\ \/ /\ main.pc = "stop" /\ BeginStop(w, "main")
              /\ main' = At("stopping", w)
           \/ /\ main.pc = "stopping" /\ FinishStop(w)
              /\ main' = IF w < NumWorkers THEN At("stop", w + 1) ELSE At("join", 1)
              /\ UNCHANGED stopFlag
        /\ UNCHANGED <<privileged, restarts, isRunning, monitor, deaths, signals, misjudged, late>>

(* join ends with the monitor or after five seconds; then sys.exit, which  *)
(* takes the daemon thread with it.                                        *)
Exit ==
    /\ main.pc = "join"
    /\ main' = At("exited", 1)
    /\ UNCHANGED <<privileged, workerVars, stopFlag, restarts, isRunning, monitor, deaths,
                   signals, misjudged, late>>

-----------------------------------------------------------------------------
(* _monitor_loop.                                                          *)
NextWorker(w) == IF w < NumWorkers THEN At("look", w + 1) ELSE At("pause", 1)

MonitorMoves(from, to) ==
    /\ Up /\ monitor.pc = from /\ monitor' = to
    /\ UNCHANGED <<privileged, main, deaths, signals>>

Look ==
    LET w == monitor.at
    IN  /\ MonitorMoves("look", IF stopFlag[w] THEN NextWorker(w)
                                ELSE At(IF handle[w] = "none" THEN "judge" ELSE "poll", w))
        /\ UNCHANGED <<workerVars, stopFlag, restarts, isRunning, misjudged, late>>

(* poll() of the process, then its memory, whose lookup may raise; a       *)
(* process that stop() has taken away since the first test ends the thread.*)
Poll ==
    LET w == monitor.at
    IN  \/ /\ MonitorMoves("poll", CASE handle[w] = "alive" -> NextWorker(w)
                                     [] handle[w] = "dead" -> At("judge", w)
                                     [] handle[w] = "none" -> At("ended", w))
           /\ UNCHANGED <<workerVars, stopFlag, restarts, isRunning, misjudged, late>>
        \/ /\ handle[w] = "alive"
           /\ MonitorMoves("poll", At("judge", w))
           /\ misjudged' = misjudged \cup {w}
           /\ UNCHANGED <<workerVars, stopFlag, restarts, isRunning, late>>

Unhealthy(w) == workerState[w] \in {"running", "crashed"}

(* A worker in another state is not looked after.                          *)
Judge ==
    LET w == monitor.at
        spent == restarts[w] >= RestartLimit
    IN  /\ MonitorMoves("judge", IF ~Unhealthy(w) THEN NextWorker(w)
                                 ELSE IF ~spent THEN At("delay", w)
                                 ELSE IF w \in Critical THEN At("stop", 1) ELSE NextWorker(w))
        /\ workerState' = [workerState EXCEPT ![w] =
               IF ~Unhealthy(w) THEN @ ELSE IF spent THEN "crashed" ELSE "restarting"]
        /\ isRunning' = (isRunning /\ monitor'.pc # "stop")
        /\ UNCHANGED <<addressLimit, handle, live, lockedBy, stopFlag, restarts, misjudged, late>>

(* The delay grows with every restart and nothing cuts it short.           *)
EndDelay ==
    LET w == monitor.at
    IN  /\ MonitorMoves("delay", At("restart", w))
        /\ restarts' = [restarts EXCEPT ![w] = @ + 1]
        /\ UNCHANGED <<workerVars, stopFlag, isRunning, misjudged, late>>

RestartWorker ==
    LET w == monitor.at
    IN  /\ \/ /\ MonitorMoves("restart", At("restarting", w)) /\ Acquire(w, "monitor")
              /\ UNCHANGED <<addressLimit, workerState, handle, live, late>>
           \/ /\ MonitorMoves("restarting", NextWorker(w)) /\ FinishStart(w)
              /\ late' = IF stopFlag[w] THEN late \cup {w} ELSE late
        /\ UNCHANGED <<stopFlag, restarts, isRunning, misjudged>>

Pause ==
    /\ MonitorMoves("pause", At(IF isRunning THEN "look" ELSE "ended", 1))
    /\ UNCHANGED <<workerVars, stopFlag, restarts, isRunning, misjudged, late>>

(* _emergency_shutdown calls stop_all in the monitor thread, which cannot  *)
(* join itself: RuntimeError ends the thread before os._exit.              *)
EmergencyStops ==
    LET w == monitor.at
    IN  /\ \/ MonitorMoves("stop", At("stopping", w)) /\ BeginStop(w, "monitor")
           \/ /\ MonitorMoves("stopping", IF w < NumWorkers THEN At("stop", w + 1)
                                          ELSE At("failed", 1))
              /\ FinishStop(w)
              /\ UNCHANGED stopFlag
        /\ UNCHANGED <<restarts, isRunning, misjudged, late>>

Dies(w) ==
    /\ Up /\ handle[w] = "alive" /\ deaths < MaxDeaths
    /\ deaths' = deaths + 1
    /\ handle' = [handle EXCEPT ![w] = "dead"]
    /\ live' = [live EXCEPT ![w] = @ - 1]
    /\ UNCHANGED <<privileged, addressLimit, workerState, lockedBy, stopFlag, restarts, isRunning,
                   main, monitor, signals, misjudged, late>>

MainThread == MainStarts \/ LaunchMonitor \/ MainStops \/ Exit
MonitorThread == Look \/ Poll \/ Judge \/ EndDelay \/ RestartWorker \/ Pause \/ EmergencyStops

SupervisorNext == MainThread \/ MonitorThread \/ Signal \/ \E w \in Workers : Dies(w)

SupervisorSpec ==
    /\ SupervisorInit /\ [][SupervisorNext]_supervisorVars
    /\ WF_supervisorVars(MainThread) /\ WF_supervisorVars(MonitorThread)

-----------------------------------------------------------------------------
(* A worker never has two processes, a restart or two later included, is   *)
(* restarted no more often than allowed, and a supervisor that exits       *)
(* leaves no process behind but those the monitor, back from its delay,    *)
(* started after the worker had been stopped.                              *)
WorkersAccounted ==
    /\ \A w \in Workers : live[w] <= 1 /\ restarts[w] <= RestartLimit
    /\ \A w \in Workers : ~Up /\ live[w] > 0 => w \in late

(* The last restart that is allowed has been made, and did not start it or *)
(* it has died since.                                                      *)
GivenUp(w) == restarts[w] = RestartLimit /\ workerState[w] = "crashed"

(* A worker that is not running gets a process again, however many starts  *)
(* fail before, unless all its restarts were made and to no avail, the     *)
(* supervisor is stopping, or a failed look at its memory had it declared  *)
(* dead when it was not.  That a restart was counted is not enough.        *)
DeadAreRestarted ==
    \A w \in Workers :
        (main.pc = "wait" /\ live[w] = 0)
            ~> (live[w] > 0 \/ GivenUp(w) \/ ~isRunning \/ w \in misjudged)

(* The handler waits for a lock that the code it interrupted still holds.  *)
WaitsForItself == main.pc = "stop" /\ lockedBy[main.at] = "main"

(* A signal ends the supervisor, unless it came while the main thread was  *)
(* starting or stopping a worker.                                          *)
SignalEnds == (signals > 0) ~> (~Up \/ WaitsForItself)

(* "Critical worker failed permanently. Initiating shutdown...": a monitor *)
(* that has shut the workers down has also ended the process.              *)
EmergencyExits == monitor.pc # "failed"
=============================================================================

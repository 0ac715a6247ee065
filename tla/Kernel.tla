--------------------------------- MODULE Kernel ---------------------------------
(***************************************************************************)
(* kernel/Kernel.cpp and main.cpp: the life of the process.  Initialize    *)
(* starts the net workers, loads and launches the modules and starts the   *)
(* logger; Loop polls the workers until Shutdown; Destory ends the workers *)
(* and deletes everything.  Composed with kernel/logicmgr, the logger and  *)
(* what the life of a worker thread needs of epoller and epollWorker.      *)
(***************************************************************************)
EXTENDS Logger

CONSTANTS Workers,      \* sNetThdCount
          Events,       \* slots of a worker's event queue, 4096
          MaxEvents,    \* bound: events of all workers
          Names,        \* module names
          MaxModules    \* bound: modules in the configured libraries

ASSUME KernelAssumption ==
    /\ Lines \in Nat /\ Block \in Nat \ {0} /\ LogSize \in Nat \ {0}
    /\ Workers \in Nat /\ Events \in Nat \ {0} /\ MaxEvents \in Nat /\ MaxModules \in Nat
    /\ None \notin Nat

Worker == 1 .. Workers

VARIABLES
    at, turn,   \* where the main thread is, and with which worker or module
    modules,    \* m_vctModules
    m_bShutdown,
    asked,      \* Shutdown has been called since the loop was entered
    m_nStatus, wpc,     \* status and place of each worker thread
    events,     \* the length of its m_oEventQueue
    made,       \* events of all workers so far
    ended,      \* workers for which Terminate has answered true
    freed       \* objects that Destory has deleted

mainVars == <<at, turn, modules, m_bShutdown, asked>>
workVars == <<m_nStatus, wpc, events, made>>
vars == <<logVars, mainVars, workVars, ended, freed, halted>>

Init == /\ LogInit
        /\ at = "initialize" /\ turn = 0 /\ modules = <<>>
        /\ m_bShutdown = TRUE /\ asked = FALSE
        /\ m_nStatus = [w \in Worker |-> "STOPED"] /\ wpc = [w \in Worker |-> "none"]
        /\ events = [w \in Worker |-> 0] /\ made = 0
        /\ ended = {} /\ freed = {} /\ halted = "no"

Running == halted = "no" /\ at # "exited"

\* The main thread is not waiting in Log.
Goes(from, to) == Running /\ adding = None /\ at = from /\ at' = to

------------------------------------------------------------------------------
(* Initialize *)

InitializeLeaves == UNCHANGED <<logPool, text, lqueue, adding, taken, file, fate,
                                m_bShutdown, asked, m_nStatus, events, made, ended, freed>>

\* epoller::Initialize starts the threads of the workers.
StartWorkers ==
    /\ Goes("initialize", "load")
    /\ wpc' = [w \in Worker |-> "created"]
    /\ UNCHANGED <<lpc, turn, modules, halted>> /\ InitializeLeaves

\* Initialize answers false, which main asserts against.
InitializeFails ==
    /\ Goes("initialize", "initialize") /\ halted' = "main.cpp:25"
    /\ UNCHANGED <<lpc, wpc, turn, modules>> /\ InitializeLeaves

\* Logicmgr::Initialize: a name may come once.
LoadModule ==
    /\ Goes("load", "load") /\ Len(modules) < MaxModules
    /\ \E name \in Names :
          IF name \in Range(modules)
          THEN halted' = "Logicmgr.cpp:76" /\ UNCHANGED modules
          ELSE modules' = Append(modules, name) /\ UNCHANGED halted
    /\ UNCHANGED <<lpc, wpc, turn>> /\ InitializeLeaves

ModulesLoaded ==
    /\ Goes("load", "modules") /\ turn' = 1
    /\ UNCHANGED <<lpc, wpc, modules, halted>> /\ InitializeLeaves

\* A call of Initialize, then of Launched, of each module has returned.
ModuleReturns ==
    /\ Goes("modules", "modules") /\ turn <= 2 * Len(modules)
    /\ turn' = turn + 1
    /\ UNCHANGED <<lpc, wpc, modules, halted>> /\ InitializeLeaves

StartLogger ==
    /\ Goes("modules", "enter") /\ turn > 2 * Len(modules)
    /\ turn' = 0 /\ lpc' = "created"
    /\ UNCHANGED <<wpc, modules, halted>> /\ InitializeLeaves

------------------------------------------------------------------------------
(* Loop *)

MainLeaves == UNCHANGED <<logVars, modules, m_nStatus, wpc, made, ended, freed, halted>>

EnterLoop ==
    /\ Goes("enter", "loop") /\ m_bShutdown' = FALSE
    /\ UNCHANGED <<turn, asked, events>> /\ MainLeaves

\* Mutant: the flag is reset on each turn.
LoopTestResets ==
    /\ Goes("loop", "turn")
    /\ turn' = 1 /\ m_bShutdown' = FALSE
    /\ UNCHANGED <<asked, events>> /\ MainLeaves

LoopTest ==
    /\ Goes("loop", IF m_bShutdown THEN "destory" ELSE "turn")
    /\ turn' = 1
    /\ UNCHANGED <<m_bShutdown, asked, events>> /\ MainLeaves

\* epollWorker::Processing reads an event and calls the session back; it tests
\* its time after each event.
ReadEvent ==
    /\ Goes("turn", "turn") /\ turn <= Workers /\ events[turn] > 0
    /\ events' = [events EXCEPT ![turn] = @ - 1]
    /\ turn' \in {turn, turn + 1}
    /\ UNCHANGED <<m_bShutdown, asked>> /\ MainLeaves

ProcessingReturns ==
    /\ Goes("turn", "turn") /\ turn <= Workers /\ events[turn] = 0
    /\ turn' = turn + 1
    /\ UNCHANGED <<m_bShutdown, asked, events>> /\ MainLeaves

TurnEnds ==
    /\ Goes("turn", "loop") /\ turn > Workers
    /\ UNCHANGED <<turn, m_bShutdown, asked, events>> /\ MainLeaves

\* Callbacks: of modules while they are initialised and launched, of sessions
\* and timers in the loop.
InCallback == Running /\ adding = None /\ \/ at = "modules" /\ turn <= 2 * Len(modules)
                                          \/ at = "turn"

Shutdown ==
    /\ InCallback
    /\ m_bShutdown' = TRUE /\ asked' = (at = "turn")
    /\ UNCHANGED <<logVars, at, turn, modules, workVars, ended, freed, halted>>

CallLog == InCallback /\ Log /\ UNCHANGED <<mainVars, workVars, ended, freed>>
LogReturns == Running /\ LogAdd /\ UNCHANGED <<mainVars, workVars, ended, freed>>

------------------------------------------------------------------------------
(* Destory *)

DestoryLeaves == UNCHANGED <<logVars, modules, m_bShutdown, asked, wpc, events, made,
                             halted>>

\* Configuration, modules and timers go first.
DestoryManagers ==
    /\ Goes("destory", "terminate") /\ turn' = 1
    /\ freed' = freed \cup {"managers"}
    /\ UNCHANGED <<m_nStatus, ended>> /\ DestoryLeaves

\* epollWorker::Terminate asks a thread that works to stop, and waits.
Terminate ==
    /\ Goes("terminate", "waiting") /\ turn <= Workers /\ m_nStatus[turn] = "WORKING"
    /\ m_nStatus' = [m_nStatus EXCEPT ![turn] = "STOPPING"]
    /\ UNCHANGED <<turn, ended, freed>> /\ DestoryLeaves

\* A thread that has not yet come to work is left alone.
TerminateIdle ==
    /\ Goes("terminate", "terminate") /\ turn <= Workers /\ m_nStatus[turn] # "WORKING"
    /\ turn' = turn + 1
    /\ UNCHANGED <<m_nStatus, ended, freed>> /\ DestoryLeaves

\* Mutant: Terminate does not wait.
TerminateReturnsAtOnce ==
    /\ Goes("waiting", "terminate")
    /\ turn' = turn + 1 /\ ended' = ended \cup {turn}
    /\ UNCHANGED <<m_nStatus, freed>> /\ DestoryLeaves

TerminateReturns ==
    /\ Goes("waiting", "terminate") /\ m_nStatus[turn] = "STOPED"
    /\ turn' = turn + 1 /\ ended' = ended \cup {turn}
    /\ UNCHANGED <<m_nStatus, freed>> /\ DestoryLeaves

DeleteWorkers ==
    /\ Goes("terminate", "logger") /\ turn > Workers
    /\ freed' = freed \cup {"workers"}
    /\ UNCHANGED <<turn, m_nStatus, ended>> /\ DestoryLeaves

\* Logger::Destory deletes the logger and does not end its thread.
DeleteLogger ==
    /\ Goes("logger", "return") /\ freed' = freed \cup {"logger"}
    /\ UNCHANGED <<turn, m_nStatus, ended>> /\ DestoryLeaves

MainReturns ==
    /\ Goes("return", "exited")
    /\ UNCHANGED <<turn, m_nStatus, ended, freed>> /\ DestoryLeaves

MainStep == \/ StartWorkers \/ LoadModule \/ ModulesLoaded \/ ModuleReturns \/ StartLogger
            \/ EnterLoop \/ LoopTest \/ ReadEvent \/ ProcessingReturns \/ TurnEnds
            \/ LogReturns \/ DestoryManagers \/ Terminate \/ TerminateIdle
            \/ TerminateReturns \/ DeleteWorkers \/ DeleteLogger \/ MainReturns

------------------------------------------------------------------------------
(* Threads *)

WorkerGoes(w, from, to) == /\ Running /\ "workers" \notin freed
                           /\ wpc[w] = from /\ wpc' = [wpc EXCEPT ![w] = to]
                           /\ UNCHANGED <<logVars, mainVars, ended, freed, halted>>

WorkerRuns(w) == /\ WorkerGoes(w, "created", "top")
                 /\ m_nStatus' = [m_nStatus EXCEPT ![w] = "WORKING"]
                 /\ UNCHANGED <<events, made>>

WorkerStops(w) == /\ m_nStatus[w] = "STOPPING" /\ WorkerGoes(w, "top", "done")
                  /\ m_nStatus' = [m_nStatus EXCEPT ![w] = "STOPED"]
                  /\ UNCHANGED <<events, made>>

\* epoll_wait has something for the session, and the worker is to Add it.
WorkerHasEvent(w) == /\ m_nStatus[w] # "STOPPING" /\ made < MaxEvents
                     /\ WorkerGoes(w, "top", "post")
                     /\ made' = made + 1
                     /\ UNCHANGED <<m_nStatus, events>>

\* There may be another event in the batch; the status is not looked at then.
WorkerPosts(w) == /\ events[w] < Events
                  /\ events' = [events EXCEPT ![w] = @ + 1]
                  /\ \/ WorkerGoes(w, "post", "top") /\ UNCHANGED made
                     \/ WorkerGoes(w, "post", "post") /\ made < MaxEvents /\ made' = made + 1
                  /\ UNCHANGED m_nStatus

\* A thread of a deleted object reads freed memory: the process ends, or
\* nothing happens.
FreedStep ==
    /\ Running
    /\ \/ "logger" \in freed
       \/ "workers" \in freed /\ \E w \in Worker : wpc[w] # "done"
    /\ halted' = "freed"
    /\ UNCHANGED <<logVars, mainVars, workVars, ended, freed>>

LoggerThread == /\ Running /\ "logger" \notin freed
                /\ LoggerStep /\ UNCHANGED <<mainVars, workVars, ended, freed>>

WorkerThread(w) == WorkerRuns(w) \/ WorkerStops(w) \/ WorkerPosts(w)

Next == \/ MainStep \/ InitializeFails \/ Shutdown \/ CallLog \/ LoggerThread \/ FreedStep
        \/ \E w \in Worker : WorkerThread(w) \/ WorkerHasEvent(w)
        \/ Running /\ FileAges /\ UNCHANGED <<mainVars, workVars, ended, freed>>

Spec == Init /\ [][Next]_vars

\* Every thread runs, callbacks return.
FairSpec == /\ Spec /\ WF_vars(MainStep) /\ WF_vars(LoggerThread)
            /\ \A w \in Worker : WF_vars(WorkerThread(w))

------------------------------------------------------------------------------
(* Properties *)

TypeOK ==
    /\ LogTypeOK
    /\ at \in {"initialize", "load", "modules", "enter", "loop", "turn", "destory",
               "terminate", "waiting", "logger", "return", "exited"}
    /\ turn \in 0 .. 2 * MaxModules + Workers + 1
    /\ modules \in Seq(Names) /\ m_bShutdown \in BOOLEAN /\ asked \in BOOLEAN
    /\ m_nStatus \in [Worker -> {"STOPED", "WORKING", "STOPPING"}]
    /\ wpc \in [Worker -> {"none", "created", "top", "post", "done"}]
    /\ events \in [Worker -> 0 .. Events] /\ made \in 0 .. MaxEvents
    /\ ended \subseteq Worker /\ freed \subseteq {"managers", "workers", "logger"}
    /\ halted \in {"no", "freed", "main.cpp:25", "Logicmgr.cpp:76", "Logger.h:41",
                   "Logger.h:48", "Logger.h:51"}

\* When Terminate has answered true the thread has left the worker for good,
\* whatever it was doing: it is not deleted under its own thread.  The answer
\* false promises nothing (epollWorker.h 25-37, epollWorker.cpp 69-76,
\* epoller.cpp 65-74).
EndedThreadsAreDone == \A w \in ended : wpc[w] = "done"

\* Shutdown in a callback of the loop ends the process, unless Terminate waits
\* for a worker that waits in Add for the main thread (Kernel.cpp 55-79).
Stuck == at = "waiting" /\ wpc[turn] = "post" /\ events[turn] = Events
ShutdownEnds == asked ~> ~Running \/ Stuck
=============================================================================

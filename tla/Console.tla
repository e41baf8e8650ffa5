-------------------------------- MODULE Console --------------------------------
(***************************************************************************)
(* The console of a client: the handlers of webui/api.go that change the   *)
(* configuration file or the runtime, and the service manager              *)
(* (service/manager.go) that runs one client at a time, pushes hot updates *)
(* to it and keeps the status its events report.  Handlers are serialised  *)
(* by actionMu; the goroutine of a runtime, its events and the request     *)
(* that pushes to it are not.  A restart of the console is an initial      *)
(* state: it keeps the file only.                                          *)
(***************************************************************************)
EXTENDS Naturals, FiniteSets

CONSTANTS
  Request,    \* HTTP requests in flight at a time
  List,       \* the service (target) or mapping (edge) lists
  Settings,   \* the other settings of a configuration
  Bodies,     \* what the browsers send
  Reports,    \* the states a client reports
  MaxStarts,  \* bound of the runtimes a console starts
  NoUpdate,   \* the update channel is empty
  NoOne       \* nobody holds actionMu

ASSUME ConsoleAssumption ==
  /\ MaxStarts \in Nat \ {0}
  /\ NoUpdate \notin List
  /\ NoOne \notin Request
  /\ Reports \subseteq {"connecting", "running"}
  /\ Bodies \subseteq [op : {"list", "save", "start", "stop"}, list : List,
                       settings : Settings]

VARIABLES
  disk,      \* the configuration file
  lock,      \* the holder of actionMu
  request,   \* request[r]: where its handler is, and the config in its hands
  running,   \* Manager.cancel # nil; the update channel is not nil either
  started,   \* Manager.generation
  status,    \* Manager.status.State
  said,      \* the state the current runtime reported last
  runtime,   \* runtime[n]: the goroutine of generation n
  channel    \* channel[n]: the one-element update channel of generation n

managerVars == <<running, started, status, said>>
consoleVars == <<disk, lock, request, managerVars, runtime, channel>>

Generation == 1 .. MaxStarts

(***************************************************************************)
(* A handler: waiting for actionMu, then loading, checking and writing the *)
(* file, then starting or pushing; a stop cancels and waits.  "read" says  *)
(* that the file could be loaded, "target" is the generation pushed to or  *)
(* stopped.                                                                *)
(***************************************************************************)
Body == [op : {"none", "list", "save", "start", "stop"}, list : List, settings : Settings]
NoBody == [op |-> "none", list |-> CHOOSE l \in List : TRUE,
           settings |-> CHOOSE s \in Settings : TRUE]
NoRequest == [at |-> "idle", body |-> NoBody, read |-> TRUE, target |-> 0]
Handlers == [at : {"idle", "waiting", "load", "check", "write", "start", "fetch",
                   "push", "stop", "cancel", "await"},
             body : Body, read : BOOLEAN, target : 0 .. MaxStarts]

(***************************************************************************)
(* A runtime: its client runs, has returned, the manager has been told,    *)
(* and done is closed.                                                     *)
(***************************************************************************)
NoRuntime == [at |-> "none", list |-> CHOOSE l \in List : TRUE, cancelled |-> FALSE,
              failed |-> FALSE]
Runtimes == [at : {"none", "running", "returned", "ended", "done"}, list : List,
             cancelled : BOOLEAN, failed : BOOLEAN]

\* Type invariant: every variable of the console keeps its shape.
ConsoleTypeOK ==
  /\ disk \in [list : List, settings : Settings]
  /\ lock \in Request \cup {NoOne}
  /\ request \in [Request -> Handlers]
  /\ running \in BOOLEAN
  /\ started \in 0 .. MaxStarts
  /\ status \in {"idle", "starting", "connecting", "running", "stopping", "error"}
  /\ said \in Reports \cup {"nothing"}
  /\ runtime \in [Generation -> Runtimes]
  /\ channel \in [Generation -> List \cup {NoUpdate}]

Launched(list) == [NoRuntime EXCEPT !.at = "running", !.list = list]

\* NewManager; Run with AutoStart starts what the file says.
ConsoleInit ==
  /\ disk \in [list : List, settings : Settings]
  /\ lock = NoOne
  /\ request = [r \in Request |-> NoRequest]
  /\ channel = [n \in Generation |-> NoUpdate]
  /\ said = "nothing"
  /\ \/ /\ running = FALSE /\ started = 0 /\ status = "idle"
        /\ runtime = [n \in Generation |-> NoRuntime]
     \/ /\ running = TRUE /\ started = 1 /\ status = "starting"
        /\ runtime = [n \in Generation |-> IF n = 1 THEN Launched(disk.list)
                                           ELSE NoRuntime]

-----------------------------------------------------------------------------
(***************************************************************************)
(* The handlers.                                                           *)
(***************************************************************************)
At(r, place) == request[r].at = place
Op(r) == request[r].body.op

Goes(r, place) == request' = [request EXCEPT ![r].at = place]

\* The deferred unlock and the answer.
Answered(r) ==
  /\ request' = [request EXCEPT ![r] = NoRequest]
  /\ lock' = NoOne

Receive(r) ==
  /\ At(r, "idle")
  /\ Goes(r, "waiting")
  /\ UNCHANGED <<disk, lock, managerVars, runtime, channel>>

\* What the request asks was decoded before; nothing looked at it yet.  The
\* bound of the model: no start is asked for once MaxStarts are used up.
Enter(r) ==
  /\ At(r, "waiting")
  /\ lock' = r
  /\ \E body \in {b \in Bodies : b.op = "start" => started < MaxStarts} :
       request' = [request EXCEPT ![r].at = IF body.op = "stop" THEN "stop" ELSE "load",
                                  ![r].body = body]
  /\ UNCHANGED <<disk, managerVars, runtime, channel>>

\* Mutant: without actionMu.
EnterUnlocked(r) == Enter(r)

Lock(r) == lock = NoOne /\ Enter(r)

\* Load: a list handler replaces the list of the file, the generic ones
\* (mergeManagedLists) everything but the list.
LoadFile(r) ==
  /\ At(r, "load")
  /\ request' = [request EXCEPT
       ![r].at = IF Op(r) = "list" THEN "write" ELSE "check",
       ![r].body.list = IF Op(r) = "list" THEN @ ELSE disk.list,
       ![r].body.settings = IF Op(r) = "list" THEN disk.settings ELSE @]
  /\ UNCHANGED <<disk, lock, managerVars, runtime, channel>>


\* The file cannot be read or decoded: mergeManagedLists returns what the
\* browser sent.
MergeFails(r) ==
  /\ At(r, "load") /\ Op(r) # "list"
  /\ request' = [request EXCEPT ![r].at = "check", ![r].read = FALSE]
  /\ UNCHANGED <<disk, lock, managerVars, runtime, channel>>

Refuse(r) ==
  /\ Answered(r)
  /\ UNCHANGED <<disk, managerVars, runtime, channel>>

\* A list handler answers 500.
LoadFails(r) == At(r, "load") /\ Op(r) = "list" /\ Refuse(r)

\* Mutant: the file is saved under a client that runs.
CheckNothing(r) ==
  /\ At(r, "check")
  /\ Goes(r, "write")
  /\ UNCHANGED <<disk, lock, managerVars, runtime, channel>>

CheckRunning(r) ==
  /\ At(r, "check")
  /\ IF running THEN Answered(r) ELSE Goes(r, "write") /\ UNCHANGED lock
  /\ UNCHANGED <<disk, managerVars, runtime, channel>>

\* config.Save replaces the file in one rename; only the list is used then.
Write(r) ==
  /\ At(r, "write")
  /\ disk' = [list |-> request[r].body.list, settings |-> request[r].body.settings]
  /\ IF Op(r) = "save" THEN Answered(r)
     ELSE /\ request' = [request EXCEPT
               ![r] = [NoRequest EXCEPT !.at = IF Op(r) = "list" THEN "fetch" ELSE "start",
                                        !.body.list = request[r].body.list]]
          /\ UNCHANGED lock
  /\ UNCHANGED <<managerVars, runtime, channel>>

\* The new file is invalid, or cannot be written.
WriteFails(r) == At(r, "write") /\ Refuse(r)

\* Manager.Start; nobody holds the channel of the runtime before any more.
StartRuntime(r) ==
  /\ At(r, "start")
  /\ started < MaxStarts
  /\ Answered(r)
  /\ IF running THEN UNCHANGED <<managerVars, runtime, channel>>
     ELSE /\ running' = TRUE
          /\ channel' = [n \in Generation |-> NoUpdate]
          /\ started' = started + 1
          /\ status' = "starting"
          /\ said' = "nothing"
          /\ runtime' = [runtime EXCEPT ![started + 1] = Launched(request[r].body.list)]
  /\ UNCHANGED disk

\* UpdateServices, UpdateMappings: the channel is read under the lock of the
\* manager and used after it.
FetchChannel(r) ==
  /\ At(r, "fetch")
  /\ IF running
     THEN /\ request' = [request EXCEPT ![r].at = "push", ![r].target = started]
          /\ UNCHANGED lock
     ELSE Answered(r)
  /\ UNCHANGED <<disk, managerVars, runtime, channel>>

\* replaceChannelValue: send, or take the pending value out and try again.
Send(r) ==
  /\ At(r, "push")
  /\ channel[request[r].target] = NoUpdate
  /\ channel' = [channel EXCEPT ![request[r].target] = request[r].body.list]
  /\ Answered(r)
  /\ UNCHANGED <<disk, managerVars, runtime>>

\* Mutant: the pending value stays: a channel that is full refuses the new one.
DrainNothing(r) ==
  /\ At(r, "push")
  /\ channel[request[r].target] # NoUpdate
  /\ Refuse(r)

\* Mutant: a plain send, which waits until the runtime receives.
DrainNever(r) == FALSE

Drain(r) ==
  /\ At(r, "push")
  /\ channel[request[r].target] # NoUpdate
  /\ channel' = [channel EXCEPT ![request[r].target] = NoUpdate]
  /\ UNCHANGED <<disk, lock, request, managerVars, runtime>>

\* Manager.Stop, up to its unlock.
StopRuntime(r) ==
  /\ At(r, "stop")
  /\ IF running
     THEN /\ status' = "stopping"
          /\ request' = [request EXCEPT ![r].at = "cancel", ![r].target = started]
          /\ UNCHANGED lock
     ELSE Answered(r) /\ UNCHANGED status
  /\ UNCHANGED <<disk, running, started, said, runtime, channel>>

CancelRuntime(r) ==
  /\ At(r, "cancel")
  /\ runtime' = [runtime EXCEPT ![request[r].target].cancelled = TRUE]
  /\ Goes(r, "await")
  /\ UNCHANGED <<disk, lock, managerVars, channel>>

\* done is closed, or ten seconds are over.
StopReturns(r) == At(r, "await") /\ Refuse(r)

-----------------------------------------------------------------------------
(***************************************************************************)
(* The goroutine of generation n and the client it runs.                   *)
(***************************************************************************)
Applies(n) ==
  /\ runtime[n].at = "running" /\ channel[n] # NoUpdate
  /\ runtime' = [runtime EXCEPT ![n].list = channel[n]]
  /\ channel' = [channel EXCEPT ![n] = NoUpdate]
  /\ UNCHANGED <<disk, lock, request, managerVars>>

\* recordEventForGeneration, applying the state or not; goroutines of a
\* client that nobody joins report after it returned.
Record(n, state, applied) ==
  /\ runtime[n].at # "none"
  /\ said' = IF n = started THEN state ELSE said
  /\ status' = IF applied THEN state ELSE status
  /\ UNCHANGED <<disk, lock, request, running, started, runtime, channel>>

Report(n, state) == Record(n, state, n = started)

\* The client returns: cancelled, or of an error of its own.
Returns(n) ==
  /\ runtime[n].at = "running"
  /\ runtime' = [runtime EXCEPT
       ![n] = [NoRuntime EXCEPT !.at = "returned", !.cancelled = runtime[n].cancelled,
                                !.failed = ~runtime[n].cancelled]]
  /\ UNCHANGED <<disk, lock, request, managerVars, channel>>

Errs(n) == runtime[n].failed /\ ~runtime[n].cancelled

EndsFrom(n, places) ==
  /\ runtime[n].at \in places
  /\ running' = FALSE
  /\ status' = IF Errs(n) THEN "error" ELSE "idle"
  /\ runtime' = [runtime EXCEPT ![n].at = IF @ = "returned" THEN "ended" ELSE @]
  /\ UNCHANGED <<disk, lock, request, started, said, channel>>

\* Mutant: the manager forgets a runtime as soon as it is cancelled.
EndsWhenCancelled(n) ==
  EndsFrom(n, {"returned"} \cup
              IF running /\ n = started /\ runtime[n].cancelled THEN {"running"} ELSE {})

Ends(n) == EndsFrom(n, {"returned"})

\* The runtime_error event, and close(done).
Closes(n, applied) ==
  /\ runtime[n].at = "ended"
  /\ runtime' = [runtime EXCEPT ![n] = [NoRuntime EXCEPT !.at = "done"]]
  /\ status' = IF applied THEN "error" ELSE status
  /\ UNCHANGED <<disk, lock, request, running, started, said, channel>>

\* Mutant: the error of a runtime is recorded whatever runs now.
ClosesUnchecked(n) == Closes(n, Errs(n))

ClosesDone(n) == Closes(n, Errs(n) /\ n = started)

-----------------------------------------------------------------------------
HandlerStep(r) ==
  \/ LoadFile(r) \/ MergeFails(r) \/ LoadFails(r)
  \/ CheckRunning(r) \/ Write(r) \/ WriteFails(r)
  \/ StartRuntime(r) \/ FetchChannel(r) \/ Send(r) \/ Drain(r)
  \/ StopRuntime(r) \/ CancelRuntime(r) \/ StopReturns(r)

RuntimeStep(n) == Applies(n) \/ Returns(n) \/ Ends(n) \/ ClosesDone(n)

ConsoleNext ==
  \/ \E r \in Request : Receive(r) \/ Lock(r) \/ HandlerStep(r)
  \/ \E n \in Generation :
       \/ RuntimeStep(n)
       \/ \E state \in Reports : Report(n, state)

(***************************************************************************)
(* Fairness: a handler that holds actionMu goes on, a handler that waits   *)
(* for it gets it (sync.Mutex hands over to the longest waiter), and the   *)
(* goroutine of a client finishes.  A client that is not cancelled and     *)
(* waits on its channel is handed the value by the send itself: strong     *)
(* fairness, or saves that follow each other would drain every update.     *)
(***************************************************************************)
ConsoleFairness ==
  /\ \A r \in Request : SF_consoleVars(Lock(r)) /\ WF_consoleVars(HandlerStep(r))
  /\ \A n \in Generation :
       /\ SF_consoleVars(~runtime[n].cancelled /\ Applies(n))
       /\ WF_consoleVars(Ends(n) \/ ClosesDone(n))

ConsoleSpec == ConsoleInit /\ [][ConsoleNext]_consoleVars /\ ConsoleFairness

-----------------------------------------------------------------------------
(***************************************************************************)
(* Safety.                                                                 *)
(***************************************************************************)

\* Two clients never run at once, not even while one that was cancelled
\* still closes its listeners, and the manager knows of the one that does
\* (Start, the goroutine it starts).
OneRuntime ==
  \A n \in Generation :
    runtime[n].at \in {"running", "returned"} <=> running /\ n = started

\* The status is of the current runtime: a report or an error that an
\* earlier one makes late is dropped (recordEventForGeneration).
StatusOfThisRuntime ==
  /\ status \in Reports => said = status
  /\ running => status \notin {"idle", "error"}

\* What a handler past actionMu has in its hands is still true: it is the
\* holder; what it copied from the file is in the file, and what it wrote is
\* what it hands on; the generation it pushes to or stops is the current one;
\* and no client runs when a generic endpoint writes or starts.
HandlerCurrent(r) ==
  /\ ~At(r, "idle") /\ ~At(r, "waiting") => lock = r
  /\ At(r, "check") => Op(r) # "list"
  /\ At(r, "write") /\ Op(r) = "list" => request[r].body.settings = disk.settings
  /\ (At(r, "check") \/ At(r, "write")) /\ Op(r) # "list" /\ request[r].read
       => request[r].body.list = disk.list
  /\ At(r, "start") \/ (At(r, "write") /\ Op(r) # "list") => ~running
  /\ request[r].at \in {"start", "fetch", "push"} => request[r].body.list = disk.list
  /\ request[r].at \in {"push", "cancel", "await"} => request[r].target = started

\* A save is never lost on its way: the client that runs serves the list of
\* the file, or finds it in its channel, unless a handler still brings it.
UpdatePending(n) ==
  runtime[n].at = "running" =>
    \/ \E r \in Request : At(r, "fetch") \/ At(r, "push")
    \/ channel[n] = disk.list
    \/ channel[n] = NoUpdate /\ runtime[n].list = disk.list

\* The list a client serves, its update channel, the file and the handlers in
\* between agree, whatever starts, ends, saves and stops interleave (Manager,
\* replaceChannelValue, handleServices, handleMappings).
ConsoleInv ==
  /\ ConsoleTypeOK
  /\ OneRuntime /\ StatusOfThisRuntime
  /\ \A r \in Request : HandlerCurrent(r)
  /\ \A n \in Generation : UpdatePending(n)

\* Concurrent handlers never undo each other's part of the file: one that
\* writes leaves the section it does not own as it was, unless it is a
\* generic one that could not read the file (handleConfig, handleStart,
\* handleServices, handleMappings).
SectionsKept ==
  [][\A r \in Request : At(r, "write") /\ disk' # disk /\ request'[r] # request[r] =>
       /\ Op(r) = "list" => disk'.settings = disk.settings
       /\ Op(r) # "list" /\ request[r].read => disk'.list = disk.list]_consoleVars

\* Only the endpoint of the managed list changes it (mergeManagedLists: "a
\* stale browser configuration can never wipe them through the generic
\* save or start endpoints").
ManagedListsKept ==
  [][\A r \in Request : At(r, "write") /\ Op(r) # "list" /\ request'[r] # request[r] =>
       disk'.list = disk.list]_consoleVars

(***************************************************************************)
(* Liveness.                                                               *)
(***************************************************************************)

\* The list last saved reaches the client that runs, when a hot update
\* races with a start, an end or another update (replaceChannelValue).
SavedListsApplied ==
  \A n \in Generation : \A l \in List :
    (runtime[n].at = "running" /\ disk.list = l /\ runtime[n].list # l)
      ~> \/ runtime[n].list = l
         \/ disk.list # l
         \/ runtime[n].at # "running" \/ runtime[n].cancelled

\* Every request is answered: no error path keeps actionMu, and a runtime
\* that has stopped receiving never blocks a save (replaceChannelValue: "a
\* busy runtime never blocks configuration saves").
RequestsAnswered == \A r \in Request : At(r, "waiting") ~> At(r, "idle")

=============================================================================

---------------------------- MODULE Console_proofs ----------------------------
(***************************************************************************)
(* Theorems about Console, for any number of requests, lists and starts:   *)
(* types; one runtime at a time and a status that is its own; and the      *)
(* sections of the file, which rest on who holds actionMu.                 *)
(***************************************************************************)
EXTENDS Console, TLAPS

\* Every initial state has the types.
LEMMA InitTyped == ConsoleInit => ConsoleTypeOK
<1> USE ConsoleAssumption
<1> SUFFICES ASSUME ConsoleInit PROVE ConsoleTypeOK
    OBVIOUS
<1>1. \E l \in List : TRUE
  BY DEF ConsoleInit
<1>2. \E s \in Settings : TRUE
  BY DEF ConsoleInit
<1>3. NoBody \in Body
  BY <1>1, <1>2 DEF NoBody, Body
<1>4. NoRequest \in Handlers
  BY <1>3 DEF NoRequest, Handlers
<1>5. NoRuntime \in Runtimes /\ \A l \in List : Launched(l) \in Runtimes
  BY <1>1 DEF NoRuntime, Runtimes, Launched
<1>6. disk.list \in List
  BY DEF ConsoleInit
<1>7. runtime \in [Generation -> Runtimes]
  <2>1. CASE runtime = [n \in Generation |-> NoRuntime]
    BY <1>5, <2>1
  <2>2. CASE runtime = [n \in Generation |-> IF n = 1 THEN Launched(disk.list)
                                             ELSE NoRuntime]
    BY <1>5, <1>6, <2>2
  <2> QED
    BY <2>1, <2>2 DEF ConsoleInit
<1>8. request \in [Request -> Handlers] /\ channel \in [Generation -> List \cup {NoUpdate}]
  BY <1>4 DEF ConsoleInit
<1>9. started \in 0 .. MaxStarts
  BY DEF ConsoleInit
<1> QED
  BY <1>7, <1>8, <1>9 DEF ConsoleInit, ConsoleTypeOK

\* Every step keeps the types.
LEMMA StepTyped == ConsoleTypeOK /\ [ConsoleNext]_consoleVars => ConsoleTypeOK'
<1> USE ConsoleAssumption
<1> SUFFICES ASSUME ConsoleTypeOK, [ConsoleNext]_consoleVars PROVE ConsoleTypeOK'
    OBVIOUS
<1> USE DEF ConsoleTypeOK
<1>a. disk.list \in List /\ disk.settings \in Settings
  OBVIOUS
<1>b. NoBody \in Body
  BY <1>a DEF NoBody, Body
<1>c. NoRequest \in Handlers
  BY <1>b DEF NoRequest, Handlers
<1>d. NoRuntime \in Runtimes /\ \A l \in List : Launched(l) \in Runtimes
  BY <1>a DEF NoRuntime, Runtimes, Launched
<1>e. ASSUME NEW r \in Request PROVE request[r] \in Handlers
  OBVIOUS
<1>f. ASSUME NEW n \in Generation PROVE runtime[n] \in Runtimes
  OBVIOUS
<1>1. ASSUME NEW r \in Request, Receive(r) PROVE ConsoleTypeOK'
  BY <1>1, <1>e DEF Receive, Goes, Handlers, managerVars
<1>2. ASSUME NEW r \in Request, Lock(r) PROVE ConsoleTypeOK'
  <2>1. PICK body \in Bodies :
          request' = [request EXCEPT ![r].at = IF body.op = "stop" THEN "stop" ELSE "load",
                                     ![r].body = body]
    BY <1>2 DEF Lock, Enter
  <2>2. body \in Body
    BY DEF Body
  <2>3. request' \in [Request -> Handlers]
    <3> DEFINE next == [request[r] EXCEPT
                          !.at = IF body.op = "stop" THEN "stop" ELSE "load", !.body = body]
    <3>1. next \in Handlers
      BY <1>e, <2>2 DEF Handlers
    <3>2. request' = [request EXCEPT ![r] = next]
      BY <1>e, <2>1 DEF Handlers
    <3> HIDE DEF next
    <3> QED
      BY <3>1, <3>2
  <2> QED
    BY <1>2, <2>3 DEF Lock, Enter, managerVars
<1>3. ASSUME NEW r \in Request, LoadFile(r) PROVE ConsoleTypeOK'
  <2> DEFINE b == request[r].body
             at == IF Op(r) = "list" THEN "write" ELSE "check"
             list == IF Op(r) = "list" THEN b.list ELSE disk.list
             settings == IF Op(r) = "list" THEN disk.settings ELSE b.settings
  <2>1. b \in Body
    BY <1>e DEF Handlers
  <2>2. [b EXCEPT !.list = list, !.settings = settings] \in Body
    BY <1>a, <2>1 DEF Body
  <2> DEFINE next == [request[r] EXCEPT !.at = at,
                                       !.body = [b EXCEPT !.list = list,
                                                          !.settings = settings]]
  <2>3. request' = [request EXCEPT ![r] = next]
    <3>1. request[r] = [at |-> request[r].at, body |-> b, read |-> request[r].read,
                        target |-> request[r].target]
      BY <1>e DEF Handlers
    <3>2. b = [op |-> b.op, list |-> b.list, settings |-> b.settings]
      BY <2>1 DEF Body
    <3> QED
      BY <1>3, <3>1, <3>2 DEF LoadFile
  <2>4. next \in Handlers
    BY <1>e, <2>2 DEF Handlers
  <2> HIDE DEF next
  <2>5. request' \in [Request -> Handlers]
    BY <2>3, <2>4
  <2> QED
    BY <1>3, <2>5 DEF LoadFile, managerVars
<1>4. ASSUME NEW r \in Request, MergeFails(r) PROVE ConsoleTypeOK'
  <2> DEFINE next == [request[r] EXCEPT !.at = "check", !.read = FALSE]
  <2>1. next \in Handlers
    BY <1>e DEF Handlers
  <2>2. request' = [request EXCEPT ![r] = next]
    BY <1>4, <1>e DEF MergeFails, Handlers
  <2> HIDE DEF next
  <2>3. request' \in [Request -> Handlers]
    BY <2>1, <2>2
  <2> QED
    BY <1>4, <2>3 DEF MergeFails, managerVars
<1>5. ASSUME NEW r \in Request, Refuse(r) PROVE ConsoleTypeOK'
  BY <1>5, <1>c DEF Refuse, Answered, managerVars
<1>6. ASSUME NEW r \in Request, CheckRunning(r) PROVE ConsoleTypeOK'
  BY <1>6, <1>c, <1>e DEF CheckRunning, Answered, Goes, Handlers, managerVars
<1>7. ASSUME NEW r \in Request, Write(r) PROVE ConsoleTypeOK'
  <2>1. request[r].body.list \in List /\ request[r].body.settings \in Settings
    BY <1>e DEF Handlers, Body
  <2>2. [NoRequest EXCEPT !.at = IF Op(r) = "list" THEN "fetch" ELSE "start",
                          !.body.list = request[r].body.list] \in Handlers
    <3>1. [NoBody EXCEPT !.list = request[r].body.list] \in Body
      BY <1>b, <2>1 DEF Body
    <3> QED
      BY <1>c, <3>1 DEF NoRequest, Handlers
  <2> QED
    BY <1>7, <1>c, <2>1, <2>2 DEF Write, Answered, managerVars
<1>8. ASSUME NEW r \in Request, StartRuntime(r) PROVE ConsoleTypeOK'
  <2>1. Launched(request[r].body.list) \in Runtimes
    BY <1>d, <1>e DEF Handlers, Body
  <2> QED
    <3>1. CASE running
      BY <1>8, <1>c, <3>1 DEF StartRuntime, Answered, managerVars
    <3>2. CASE ~running
      <4>1. started' \in 0 .. MaxStarts
        BY <1>8, <3>2 DEF StartRuntime
      <4>2. runtime' \in [Generation -> Runtimes]
        BY <1>8, <2>1, <3>2 DEF StartRuntime
      <4> QED
        BY <1>8, <1>c, <3>2, <4>1, <4>2 DEF StartRuntime, Answered
    <3> QED
      BY <3>1, <3>2
<1>9. ASSUME NEW r \in Request, FetchChannel(r) PROVE ConsoleTypeOK'
  BY <1>9, <1>c, <1>e DEF FetchChannel, Answered, Handlers, managerVars
<1>10. ASSUME NEW r \in Request, Send(r) PROVE ConsoleTypeOK'
  BY <1>10, <1>c, <1>e DEF Send, Answered, Handlers, Body, managerVars
<1>11. ASSUME NEW r \in Request, Drain(r) PROVE ConsoleTypeOK'
  BY <1>11 DEF Drain, managerVars
<1>12. ASSUME NEW r \in Request, StopRuntime(r) PROVE ConsoleTypeOK'
  BY <1>12, <1>c, <1>e DEF StopRuntime, Answered, Handlers
<1>13. ASSUME NEW r \in Request, CancelRuntime(r) PROVE ConsoleTypeOK'
  <2>1. request' \in [Request -> Handlers]
    BY <1>13, <1>e DEF CancelRuntime, Goes, Handlers
  <2>2. runtime' \in [Generation -> Runtimes]
    <3>1. runtime' = [runtime EXCEPT ![request[r].target].cancelled = TRUE]
      BY <1>13 DEF CancelRuntime
    <3>2. ASSUME NEW n \in Generation PROVE [runtime[n] EXCEPT !.cancelled = TRUE] \in Runtimes
      BY <1>f DEF Runtimes
    <3> QED
      BY <3>1, <3>2
  <2> QED
    BY <1>13, <2>1, <2>2 DEF CancelRuntime, managerVars
<1>14. ASSUME NEW n \in Generation, Applies(n) PROVE ConsoleTypeOK'
  BY <1>14, <1>f DEF Applies, Runtimes, managerVars
<1>15. ASSUME NEW n \in Generation, Returns(n) PROVE ConsoleTypeOK'
  BY <1>15, <1>d, <1>f DEF Returns, Runtimes, managerVars
<1>16. ASSUME NEW n \in Generation, Ends(n) PROVE ConsoleTypeOK'
  BY <1>16, <1>f DEF Ends, EndsFrom, Runtimes
<1>17. ASSUME NEW n \in Generation, ClosesDone(n) PROVE ConsoleTypeOK'
  BY <1>17, <1>d DEF ClosesDone, Closes, Runtimes
<1>18. ASSUME NEW n \in Generation, NEW s \in Reports, Report(n, s) PROVE ConsoleTypeOK'
  BY <1>18 DEF Report, Record
<1>19. CASE UNCHANGED consoleVars
  BY <1>19 DEF consoleVars, managerVars
<1>20. ASSUME NEW r \in Request, HandlerStep(r) PROVE ConsoleTypeOK'
  BY <1>3, <1>4, <1>5, <1>6, <1>7, <1>8, <1>9, <1>10, <1>11, <1>12, <1>13, <1>20
  DEF HandlerStep, LoadFails, WriteFails, StopReturns
<1> QED
  BY <1>1, <1>2, <1>14, <1>15, <1>16, <1>17, <1>18, <1>19, <1>20
  DEF ConsoleNext, RuntimeStep

\* Every variable of the console keeps its type (internal/webui/api.go,
\* internal/service/manager.go).
THEOREM ConsoleTypeCorrect == ConsoleSpec => []ConsoleTypeOK
  BY InitTyped, StepTyped, PTL DEF ConsoleSpec

-----------------------------------------------------------------------------
(***************************************************************************)
(* One runtime and its status.  Which of them ended is what makes a late   *)
(* error stale: a generation that is "ended" is not the one that runs.     *)
(***************************************************************************)
RuntimeInv == OneRuntime /\ StatusOfThisRuntime

\* Initially.
LEMMA InitRuntime == ConsoleInit => RuntimeInv
<1> USE ConsoleAssumption DEF RuntimeInv, OneRuntime, StatusOfThisRuntime
<1> SUFFICES ASSUME ConsoleInit PROVE RuntimeInv
    OBVIOUS
<1>1. NoRuntime.at = "none" /\ Launched(disk.list).at = "running"
  BY DEF NoRuntime, Launched
<1>2. CASE running = FALSE /\ status = "idle" /\ runtime = [n \in Generation |-> NoRuntime]
  BY <1>1, <1>2
<1>3. CASE /\ running = TRUE /\ started = 1 /\ status = "starting"
           /\ runtime = [n \in Generation |-> IF n = 1 THEN Launched(disk.list)
                                              ELSE NoRuntime]
  BY <1>1, <1>3
<1> QED
  BY <1>2, <1>3 DEF ConsoleInit

\* Every step keeps RuntimeInv.
LEMMA StepRuntime ==
  ConsoleTypeOK /\ RuntimeInv /\ [ConsoleNext]_consoleVars => RuntimeInv'
<1> USE ConsoleAssumption
<1> SUFFICES ASSUME ConsoleTypeOK, RuntimeInv, [ConsoleNext]_consoleVars PROVE RuntimeInv'
    OBVIOUS
<1> USE DEF RuntimeInv, OneRuntime, StatusOfThisRuntime
<1>t. /\ runtime \in [Generation -> Runtimes]
      /\ started \in 0 .. MaxStarts
      /\ running \in BOOLEAN
  BY DEF ConsoleTypeOK
<1>1. CASE UNCHANGED <<managerVars, runtime>>
  BY <1>1 DEF managerVars
<1>2. ASSUME NEW r \in Request, StartRuntime(r) PROVE RuntimeInv'
  <2>1. CASE running
    BY <1>2, <2>1 DEF StartRuntime, managerVars
  <2>2. CASE ~running
    <3>1. \A n \in Generation : runtime'[n] = IF n = started + 1
            THEN Launched(request[r].body.list) ELSE runtime[n]
      BY <1>2, <1>t, <2>2 DEF StartRuntime
    <3>2. Launched(request[r].body.list).at = "running"
      BY DEF Launched, NoRuntime
    <3> QED
      BY <1>2, <1>t, <2>2, <3>1, <3>2 DEF StartRuntime
  <2> QED
    BY <2>1, <2>2
<1>3. ASSUME NEW r \in Request, StopRuntime(r) PROVE RuntimeInv'
  BY <1>3 DEF StopRuntime
<1>4. ASSUME NEW r \in Request, CancelRuntime(r) PROVE RuntimeInv'
  <2>1. \A n \in Generation : runtime'[n].at = runtime[n].at
    BY <1>4, <1>t DEF CancelRuntime, Runtimes
  <2> QED
    BY <1>4, <2>1 DEF CancelRuntime, managerVars
<1>5. ASSUME NEW n \in Generation, Applies(n) PROVE RuntimeInv'
  <2>1. \A m \in Generation : runtime'[m].at = runtime[m].at
    BY <1>5, <1>t DEF Applies, Runtimes
  <2> QED
    BY <1>5, <2>1 DEF Applies, managerVars
<1>6. ASSUME NEW n \in Generation, Returns(n) PROVE RuntimeInv'
  <2>1. \A m \in Generation : \/ runtime'[m].at = runtime[m].at
                              \/ m = n /\ runtime'[m].at = "returned"
    BY <1>6, <1>t DEF Returns, NoRuntime
  <2>2. runtime[n].at = "running" /\ runtime'[n].at = "returned"
    BY <1>6, <1>t DEF Returns, NoRuntime
  <2> QED
    BY <1>6, <2>1, <2>2 DEF Returns, managerVars
<1>7. ASSUME NEW n \in Generation, Ends(n) PROVE RuntimeInv'
  <2>1. \A m \in Generation : runtime'[m].at = IF m = n THEN "ended" ELSE runtime[m].at
    BY <1>7, <1>t DEF Ends, EndsFrom, Runtimes
  <2>2. n = started
    BY <1>7 DEF Ends, EndsFrom
  <2> QED
    BY <1>7, <2>1, <2>2 DEF Ends, EndsFrom
<1>8. ASSUME NEW n \in Generation, ClosesDone(n) PROVE RuntimeInv'
  <2>1. \A m \in Generation : runtime'[m].at = IF m = n THEN "done" ELSE runtime[m].at
    BY <1>8, <1>t DEF ClosesDone, Closes, NoRuntime
  <2>2. runtime[n].at = "ended" /\ ~(running /\ n = started)
    BY <1>8 DEF ClosesDone, Closes
  <2> QED
    BY <1>8, <2>1, <2>2 DEF ClosesDone, Closes
<1>9. ASSUME NEW n \in Generation, NEW s \in Reports, Report(n, s) PROVE RuntimeInv'
  BY <1>9 DEF Report, Record
<1>10. ASSUME NEW r \in Request, HandlerStep(r) PROVE RuntimeInv'
  BY <1>1, <1>2, <1>3, <1>4, <1>10
  DEF HandlerStep, LoadFile, MergeFails, LoadFails, Refuse, CheckRunning, Write,
      WriteFails, FetchChannel, Send, Drain, StopReturns
<1> QED
  BY <1>1, <1>5, <1>6, <1>7, <1>8, <1>9, <1>10
  DEF ConsoleNext, RuntimeStep, Receive, Lock, Enter, consoleVars

\* Two clients never run at once, however starts, stops and ends interleave
\* (Manager.Start).
THEOREM OneRuntimeCorrect == ConsoleSpec => []OneRuntime
<1>1. ConsoleInit => ConsoleTypeOK /\ RuntimeInv
  BY InitTyped, InitRuntime
<1>2. ConsoleTypeOK /\ RuntimeInv /\ [ConsoleNext]_consoleVars
        => ConsoleTypeOK' /\ RuntimeInv'
  BY StepTyped, StepRuntime
<1>3. RuntimeInv => OneRuntime
  BY DEF RuntimeInv
<1> QED
  BY <1>1, <1>2, <1>3, PTL DEF ConsoleSpec

\* The status is that of the current runtime (recordEventForGeneration).
THEOREM StatusCorrect == ConsoleSpec => []StatusOfThisRuntime
<1>1. ConsoleInit => ConsoleTypeOK /\ RuntimeInv
  BY InitTyped, InitRuntime
<1>2. ConsoleTypeOK /\ RuntimeInv /\ [ConsoleNext]_consoleVars
        => ConsoleTypeOK' /\ RuntimeInv'
  BY StepTyped, StepRuntime
<1>3. RuntimeInv => StatusOfThisRuntime
  BY DEF RuntimeInv
<1> QED
  BY <1>1, <1>2, <1>3, PTL DEF ConsoleSpec

-----------------------------------------------------------------------------
(***************************************************************************)
(* The file.  A handler past actionMu is its holder, so that nobody writes *)
(* between its load and its write: what it copied is still in the file.    *)
(***************************************************************************)
Holding == \A r \in Request : ~At(r, "idle") /\ ~At(r, "waiting") => lock = r

CopyFresh ==
  \A r \in Request :
    /\ At(r, "check") => Op(r) # "list"
    /\ At(r, "write") /\ Op(r) = "list" => request[r].body.settings = disk.settings
    /\ (At(r, "check") \/ At(r, "write")) /\ Op(r) # "list" /\ request[r].read
         => request[r].body.list = disk.list

FileInv == Holding /\ CopyFresh

\* Initially nobody holds anything.
LEMMA InitFile == ConsoleInit => FileInv
  BY DEF ConsoleInit, FileInv, Holding, CopyFresh, At, NoRequest

\* A handler that answers keeps FileInv when the file does not change, or
\* when it changes while that handler holds actionMu.
LEMMA AnswerKeepsFile ==
  ASSUME NEW r \in Request, ConsoleTypeOK, FileInv, Answered(r), lock = r
  PROVE  FileInv'
<1>1. \A q \in Request : request'[q] = IF q = r THEN NoRequest ELSE request[q]
  BY DEF Answered, ConsoleTypeOK
<1>2. \A q \in Request : q # r => request[q].at \in {"idle", "waiting"}
  BY DEF FileInv, Holding, At
<1> QED
  BY <1>1, <1>2 DEF FileInv, Holding, CopyFresh, At, Op, NoRequest

\* A handler that goes on holds actionMu: the others are idle or waiting.
LEMMA HolderKeepsFile ==
  ASSUME NEW r \in Request, ConsoleTypeOK, FileInv, lock' = r,
         lock = r \/ ~\E q \in Request : lock = q,
         \A q \in Request : q # r => request'[q] = request[q],
         request'[r].at = "check" => request'[r].body.op # "list",
         request'[r].at = "write" /\ request'[r].body.op = "list"
           => request'[r].body.settings = disk'.settings,
         request'[r].at \in {"check", "write"} /\ request'[r].body.op # "list"
           /\ request'[r].read => request'[r].body.list = disk'.list
  PROVE  FileInv'
<1>1. \A q \in Request : q # r => request'[q].at \in {"idle", "waiting"}
  BY DEF FileInv, Holding, At
<1> QED
  BY <1>1 DEF FileInv, Holding, CopyFresh, At, Op

\* Every step keeps FileInv, and changes the file only as SectionsKept says.
LEMMA StepFile ==
  ConsoleTypeOK /\ FileInv /\ [ConsoleNext]_consoleVars => FileInv'
<1> USE ConsoleAssumption
<1> SUFFICES ASSUME ConsoleTypeOK, FileInv, [ConsoleNext]_consoleVars PROVE FileInv'
    OBVIOUS
<1>t. request \in [Request -> Handlers]
  BY DEF ConsoleTypeOK
<1>h. ASSUME NEW r \in Request, request[r].at \notin {"idle", "waiting"} PROVE lock = r
  BY <1>h DEF FileInv, Holding, At
<1>f. ASSUME NEW r \in Request PROVE
        /\ request[r].at = "check" => request[r].body.op # "list"
        /\ request[r].at = "write" /\ request[r].body.op = "list"
             => request[r].body.settings = disk.settings
        /\ request[r].at \in {"check", "write"} /\ request[r].body.op # "list"
           /\ request[r].read => request[r].body.list = disk.list
  BY DEF FileInv, CopyFresh, At, Op
<1>1. CASE UNCHANGED <<disk, lock, request>>
  BY <1>1 DEF FileInv, Holding, CopyFresh, At, Op
<1>2. ASSUME NEW r \in Request, Receive(r) PROVE FileInv'
  <2>1. \A q \in Request : request'[q] = IF q = r THEN [request[r] EXCEPT !.at = "waiting"]
                                          ELSE request[q]
    BY <1>2, <1>t DEF Receive, Goes
  <2>2. request'[r].at = "waiting"
    BY <1>t, <2>1 DEF Handlers
  <2> QED
    BY <1>2, <2>1, <2>2 DEF Receive, FileInv, Holding, CopyFresh, At, Op
<1>3. ASSUME NEW r \in Request, Lock(r) PROVE FileInv'
  <2>1. \A q \in Request : q # r => request'[q] = request[q]
    BY <1>3, <1>t DEF Lock, Enter
  <2>2. request'[r].at \in {"load", "stop"}
    BY <1>3, <1>t DEF Lock, Enter, Handlers
  <2> QED
    BY <1>3, <2>1, <2>2, HolderKeepsFile DEF Lock, Enter
<1>4. ASSUME NEW r \in Request, LoadFile(r) PROVE FileInv'
  <2>1. \A q \in Request : q # r => request'[q] = request[q]
    BY <1>4, <1>t DEF LoadFile
  <2>2. /\ request'[r].at = IF Op(r) = "list" THEN "write" ELSE "check"
        /\ request'[r].body.op = Op(r)
        /\ request'[r].body.list = IF Op(r) = "list" THEN request[r].body.list ELSE disk.list
        /\ request'[r].body.settings =
             IF Op(r) = "list" THEN disk.settings ELSE request[r].body.settings
    BY <1>4, <1>t DEF LoadFile, Handlers, Body, Op
  <2>3. lock' = r /\ lock = r /\ disk' = disk
    BY <1>4, <1>h DEF LoadFile, At
  <2> QED
    BY <2>1, <2>2, <2>3, HolderKeepsFile
<1>5. ASSUME NEW r \in Request, MergeFails(r) PROVE FileInv'
  <2>1. \A q \in Request : q # r => request'[q] = request[q]
    BY <1>5, <1>t DEF MergeFails
  <2>2. /\ request'[r].at = "check" /\ request'[r].body = request[r].body
        /\ ~request'[r].read /\ request[r].body.op # "list"
    BY <1>5, <1>t DEF MergeFails, Handlers, Op
  <2>3. lock' = r /\ lock = r
    BY <1>5, <1>h DEF MergeFails, At
  <2> QED
    BY <2>1, <2>2, <2>3, HolderKeepsFile
<1>6. ASSUME NEW r \in Request, Answered(r), request[r].at \notin {"idle", "waiting"}
      PROVE FileInv'
  BY <1>6, <1>h, AnswerKeepsFile
<1>7. ASSUME NEW r \in Request, NEW place \in {"write", "start", "fetch", "push", "cancel", "await"},
             request[r].at \notin {"idle", "waiting"}, Goes(r, place),
             place = "write" => request[r].at = "check",
             UNCHANGED <<disk, lock>>
      PROVE FileInv'
  <2>1. \A q \in Request : q # r => request'[q] = request[q]
    BY <1>7, <1>t DEF Goes
  <2>2. /\ request'[r].at = place /\ request'[r].body = request[r].body
        /\ request'[r].read = request[r].read
    BY <1>7, <1>t DEF Goes, Handlers
  <2>3. lock = r
    BY <1>7, <1>h
  <2> QED
    BY <1>7, <1>f, <2>1, <2>2, <2>3, HolderKeepsFile
<1>8. ASSUME NEW r \in Request, CheckRunning(r) PROVE FileInv'
  BY <1>6, <1>7, <1>8 DEF CheckRunning, At
<1>9. ASSUME NEW r \in Request, Write(r) PROVE FileInv'
  <2>1. CASE Op(r) = "save"
    BY <1>6, <1>9, <2>1 DEF Write, At
  <2>2. CASE Op(r) # "save"
    <3>1. \A q \in Request : q # r => request'[q] = request[q]
      BY <1>9, <1>t, <2>2 DEF Write
    <3>2. request'[r].at \in {"fetch", "start"}
      <4>1. request'[r] = [NoRequest EXCEPT !.at = IF Op(r) = "list" THEN "fetch" ELSE "start",
                                            !.body.list = request[r].body.list]
        BY <1>9, <1>t, <2>2 DEF Write
      <4> QED
        BY <4>1 DEF NoRequest
    <3>3. lock' = r /\ lock = r
      BY <1>9, <1>h, <2>2 DEF Write, At
    <3> QED
      BY <3>1, <3>2, <3>3, HolderKeepsFile
  <2> QED
    BY <2>1, <2>2
<1>10. ASSUME NEW r \in Request, NEW place \in {"push", "cancel"},
              request[r].at \notin {"idle", "waiting"},
              request' = [request EXCEPT ![r].at = place, ![r].target = started],
              UNCHANGED <<disk, lock>>
       PROVE FileInv'
  <2>1. \A q \in Request : q # r => request'[q] = request[q]
    BY <1>10, <1>t
  <2>2. request'[r].at = place
    BY <1>10, <1>t DEF Handlers
  <2>3. lock = r
    BY <1>10, <1>h
  <2> QED
    BY <1>10, <2>1, <2>2, <2>3, HolderKeepsFile
<1>11. ASSUME NEW r \in Request, FetchChannel(r) \/ StopRuntime(r) PROVE FileInv'
  <2>1. request[r].at \in {"fetch", "stop"} /\ disk' = disk
    BY <1>11 DEF FetchChannel, StopRuntime, At
  <2> QED
    BY <1>6, <1>10, <1>11, <2>1 DEF FetchChannel, StopRuntime, At
<1>12. ASSUME NEW r \in Request, CancelRuntime(r) PROVE FileInv'
  BY <1>7, <1>12 DEF CancelRuntime, At
<1>13. ASSUME NEW r \in Request,
              \/ LoadFails(r) \/ WriteFails(r) \/ StopReturns(r)
              \/ StartRuntime(r) \/ Send(r)
       PROVE FileInv'
  BY <1>6, <1>13 DEF LoadFails, WriteFails, StopReturns, StartRuntime, Send, Refuse, At
<1>14. ASSUME NEW r \in Request, HandlerStep(r) PROVE FileInv'
  BY <1>1, <1>4, <1>5, <1>8, <1>9, <1>11, <1>12, <1>13, <1>14 DEF HandlerStep, Drain
<1> QED
  BY <1>1, <1>2, <1>3, <1>14
  DEF ConsoleNext, RuntimeStep, Applies, Returns, Ends, EndsFrom, ClosesDone,
      Closes, Report, Record, consoleVars

\* Concurrent handlers never undo each other's part of the file
\* (handleConfig, handleStart, handleServices, handleMappings).
THEOREM SectionsKeptCorrect == ConsoleSpec => SectionsKept
<1> DEFINE Kept(r) ==
      At(r, "write") /\ disk' # disk /\ request'[r] # request[r] =>
        /\ Op(r) = "list" => disk'.settings = disk.settings
        /\ Op(r) # "list" /\ request[r].read => disk'.list = disk.list
<1>1. ASSUME ConsoleTypeOK, FileInv, [ConsoleNext]_consoleVars, NEW r \in Request
      PROVE  Kept(r)
  <2> SUFFICES ASSUME At(r, "write"), disk' # disk, request'[r] # request[r]
               PROVE  /\ Op(r) = "list" => disk'.settings = disk.settings
                      /\ Op(r) # "list" /\ request[r].read => disk'.list = disk.list
      OBVIOUS
  <2>1. PICK q \in Request : Write(q)
    BY <1>1
    DEF ConsoleNext, RuntimeStep, HandlerStep, Receive, Lock, Enter, LoadFile, MergeFails,
        LoadFails, Refuse, CheckRunning, WriteFails, StartRuntime, FetchChannel, Send,
        Drain, StopRuntime, CancelRuntime, StopReturns, Applies, Returns, Ends,
        EndsFrom, ClosesDone, Closes, Report, Record, consoleVars
  <2>2. q = r
    BY <1>1, <2>1 DEF FileInv, Holding, Write, At
  <2>3. disk' = [list |-> request[r].body.list, settings |-> request[r].body.settings]
    BY <2>1, <2>2 DEF Write
  <2> QED
    BY <1>1, <2>3 DEF FileInv, CopyFresh
<1>2. ConsoleInit => ConsoleTypeOK /\ FileInv
  BY InitTyped, InitFile
<1>3. ConsoleTypeOK /\ FileInv /\ [ConsoleNext]_consoleVars => ConsoleTypeOK' /\ FileInv'
  BY StepTyped, StepFile
<1>4. ConsoleTypeOK /\ FileInv /\ [ConsoleNext]_consoleVars
        => [\A r \in Request : Kept(r)]_consoleVars
  BY <1>1
<1> QED
  BY <1>2, <1>3, <1>4, PTL DEF ConsoleSpec, SectionsKept

-----------------------------------------------------------------------------
(***************************************************************************)
(* Saves on their way.  A handler that holds actionMu keeps the others out *)
(* of the manager, so that nothing starts between its check, its write and *)
(* its push: the generation it pushes to is the one that runs, if one does.*)
(***************************************************************************)
Handed ==
  \A r \in Request :
    /\ At(r, "start") \/ (At(r, "write") /\ Op(r) # "list") => ~running
    /\ request[r].at \in {"start", "fetch", "push"} => request[r].body.list = disk.list
    /\ request[r].at \in {"push", "cancel", "await"} => request[r].target = started

Updates == \A n \in Generation : UpdatePending(n)

CurrentInv == Handed /\ Updates

\* Initially nothing is on its way, and a client started by Run serves the file.
LEMMA InitCurrent == ConsoleInit => CurrentInv
<1> SUFFICES ASSUME ConsoleInit PROVE CurrentInv
    OBVIOUS
<1>1. Handed
  BY DEF ConsoleInit, Handed, At, NoRequest
<1>2. ASSUME NEW n \in Generation PROVE UpdatePending(n)
  <2>1. NoRuntime.at = "none" /\ Launched(disk.list).list = disk.list
    BY DEF NoRuntime, Launched
  <2>2. channel[n] = NoUpdate
    BY DEF ConsoleInit
  <2>3. CASE runtime = [m \in Generation |-> NoRuntime]
    BY <2>1, <2>3 DEF UpdatePending
  <2>4. CASE runtime = [m \in Generation |-> IF m = 1 THEN Launched(disk.list) ELSE NoRuntime]
    BY <2>1, <2>2, <2>4 DEF UpdatePending
  <2> QED
    BY <2>3, <2>4 DEF ConsoleInit
<1> QED
  BY <1>1, <1>2 DEF CurrentInv, Updates

\* The handler that moves is the only one past actionMu.
LEMMA HolderKeepsHanded ==
  ASSUME NEW r \in Request, FileInv, lock = r \/ ~\E q \in Request : lock = q,
         \A q \in Request : q # r => request'[q] = request[q],
         request'[r].at = "start" \/ (request'[r].at = "write" /\ request'[r].body.op # "list")
           => ~running',
         request'[r].at \in {"start", "fetch", "push"} => request'[r].body.list = disk'.list,
         request'[r].at \in {"push", "cancel", "await"} => request'[r].target = started'
  PROVE  Handed'
<1>1. \A q \in Request : q # r => request'[q].at \in {"idle", "waiting"}
  BY DEF FileInv, Holding, At
<1> QED
  BY <1>1 DEF Handed, At, Op

\* A step of the runtimes or the reports leaves the handlers what they hold.
LEMMA OutsideKeepsHanded ==
  ASSUME Handed, UNCHANGED <<disk, request, started>>, running' = running \/ ~running'
  PROVE  Handed'
  BY DEF Handed, At, Op

\* A step that leaves the clients, their channels and the file alone, and is
\* not one of a handler with a list in its hands, loses no save.
LEMMA QuietKeepsUpdates ==
  ASSUME Updates, NEW r \in Request, request[r].at \notin {"fetch", "push"},
         \A q \in Request : q # r => request'[q] = request[q],
         UNCHANGED <<disk, channel>>,
         \A n \in Generation : /\ runtime'[n].at = runtime[n].at
                               /\ runtime'[n].list = runtime[n].list
  PROVE  Updates'
<1> SUFFICES ASSUME NEW n \in Generation, runtime'[n].at = "running"
             PROVE  \/ \E q \in Request : At(q, "fetch")' \/ At(q, "push")'
                    \/ channel'[n] = disk'.list
                    \/ channel'[n] = NoUpdate /\ runtime'[n].list = disk'.list
    BY DEF Updates, UpdatePending
<1>1. \/ \E q \in Request : At(q, "fetch") \/ At(q, "push")
      \/ channel[n] = disk.list
      \/ channel[n] = NoUpdate /\ runtime[n].list = disk.list
  BY DEF Updates, UpdatePending
<1>2. CASE \E q \in Request : At(q, "fetch") \/ At(q, "push")
  BY <1>2 DEF At
<1> QED
  BY <1>1, <1>2

\* What a step does to the request of a handler that answers.
LEMMA AnswerKeepsHanded ==
  ASSUME NEW r \in Request, ConsoleTypeOK, FileInv, Answered(r), lock = r
  PROVE  Handed'
<1>1. \A q \in Request : request'[q] = IF q = r THEN NoRequest ELSE request[q]
  BY DEF Answered, ConsoleTypeOK
<1> QED
  BY <1>1, HolderKeepsHanded DEF NoRequest

\* Every step of a handler keeps CurrentInv.
LEMMA HandlerKeepsCurrent ==
  ASSUME ConsoleTypeOK, RuntimeInv, FileInv, CurrentInv,
         NEW r \in Request, Receive(r) \/ Lock(r) \/ HandlerStep(r)
  PROVE  CurrentInv'
<1> USE ConsoleAssumption
<1>t. request \in [Request -> Handlers] /\ runtime \in [Generation -> Runtimes]
      /\ channel \in [Generation -> List \cup {NoUpdate}] /\ started \in 0 .. MaxStarts
  BY DEF ConsoleTypeOK
<1>r. request \in [Request -> Handlers]
  BY DEF ConsoleTypeOK
<1>h. request[r].at \notin {"idle", "waiting"} => lock = r
  BY DEF FileInv, Holding, At
<1>i. Handed /\ Updates
  BY DEF CurrentInv
<1>o. \A n \in Generation : runtime[n].at = "running" => running /\ n = started
  BY DEF RuntimeInv, OneRuntime
<1>c. \A q \in Request : request[q].at = "check" => request[q].body.op # "list"
  BY DEF FileInv, CopyFresh, At, Op
<1>q. ASSUME request[r].at \notin {"fetch", "push"},
             \A q \in Request : q # r => request'[q] = request[q],
             UNCHANGED <<disk, channel, runtime>>
      PROVE  Updates'
  BY <1>q, <1>i, QuietKeepsUpdates
<1>a. ASSUME Answered(r) PROVE \A q \in Request : q # r => request'[q] = request[q]
  BY <1>a, <1>t DEF Answered
<1>g. ASSUME NEW place, Goes(r, place)
      PROVE  /\ \A q \in Request : q # r => request'[q] = request[q]
             /\ request'[r].at = place /\ request'[r].body = request[r].body
             /\ request'[r].target = request[r].target
  BY <1>g, <1>t DEF Goes, Handlers
<1>1. CASE Receive(r)
  <2>1. Handed'
    <3>1. \A q \in Request : /\ request'[q].at = IF q = r THEN "waiting" ELSE request[q].at
                             /\ q # r => request'[q] = request[q]
      BY <1>1, <1>g DEF Receive
    <3> QED
      BY <1>1, <1>i, <3>1 DEF Receive, managerVars, Handed, At, Op
  <2> QED
    BY <1>1, <1>g, <1>q, <2>1 DEF Receive, At, CurrentInv
<1>2. CASE Lock(r)
  <2>1. \A q \in Request : q # r => request'[q] = request[q]
    BY <1>2, <1>t DEF Lock, Enter
  <2>2. request'[r].at \in {"load", "stop"}
    <3>1. PICK body \in Bodies :
            request' = [request EXCEPT ![r].at = IF body.op = "stop" THEN "stop" ELSE "load",
                                       ![r].body = body]
      BY <1>2 DEF Lock, Enter
    <3> QED
      BY <1>r, <3>1 DEF Handlers
  <2>3. Handed'
    BY <1>2, <2>1, <2>2, HolderKeepsHanded DEF Lock, Enter
  <2> QED
    BY <1>2, <1>q, <2>1, <2>3 DEF Lock, Enter, At, CurrentInv
<1>3. CASE LoadFile(r)
  <2>1. \A q \in Request : q # r => request'[q] = request[q]
    BY <1>3, <1>t DEF LoadFile
  <2>2. /\ request'[r].at = IF Op(r) = "list" THEN "write" ELSE "check"
        /\ request'[r].body.op = Op(r)
    BY <1>3, <1>t DEF LoadFile, Handlers, Body, Op
  <2>3. Handed'
    <3>1. lock = r
      BY <1>3, <1>h DEF LoadFile, At
    <3>2. /\ request'[r].at \notin {"start", "fetch", "push", "cancel", "await"}
          /\ request'[r].at = "write" => request'[r].body.op = "list"
      BY <2>2
    <3> QED
      BY <2>1, <3>1, <3>2, HolderKeepsHanded
  <2> QED
    BY <1>3, <1>q, <2>1, <2>3 DEF LoadFile, At, CurrentInv
<1>4. CASE MergeFails(r)
  <2>1. \A q \in Request : q # r => request'[q] = request[q]
    BY <1>4, <1>t DEF MergeFails
  <2>2. request'[r].at = "check"
    BY <1>4, <1>t DEF MergeFails, Handlers
  <2>3. Handed'
    BY <1>4, <1>h, <2>1, <2>2, HolderKeepsHanded DEF MergeFails, At
  <2> QED
    BY <1>4, <1>q, <2>1, <2>3 DEF MergeFails, At, CurrentInv
<1>5. CASE LoadFails(r) \/ WriteFails(r) \/ StopReturns(r)
  <2>1. /\ request[r].at \in {"load", "write", "await"} /\ Answered(r)
        /\ UNCHANGED <<disk, channel, runtime>>
    BY <1>5 DEF LoadFails, WriteFails, StopReturns, Refuse, At
  <2>2. Handed'
    BY <1>h, <2>1, AnswerKeepsHanded
  <2> QED
    BY <1>a, <1>q, <2>1, <2>2 DEF CurrentInv
<1>6. CASE CheckRunning(r)
  <2>1. request[r].at = "check" /\ lock = r /\ UNCHANGED <<disk, channel, runtime, running>>
    BY <1>6, <1>h DEF CheckRunning, At, managerVars
  <2>2. CASE Answered(r)
    <3>1. Handed'
      BY <2>1, <2>2, AnswerKeepsHanded
    <3> QED
      BY <1>a, <1>q, <2>1, <2>2, <3>1 DEF CurrentInv
  <2>3. CASE Goes(r, "write") /\ ~running
    <3>1. Handed'
      BY <1>g, <2>1, <2>3, HolderKeepsHanded
    <3> QED
      BY <1>g, <1>q, <2>1, <2>3, <3>1 DEF CurrentInv
  <2> QED
    BY <1>6, <2>2, <2>3 DEF CheckRunning
<1>7. CASE Write(r)
  <2>1. request[r].at = "write" /\ lock = r /\ UNCHANGED <<channel, runtime, managerVars>>
    BY <1>7, <1>h DEF Write, At
  <2>2. CASE Op(r) = "save"
    <3>1. Answered(r)
      BY <1>7, <2>2 DEF Write
    <3>2. Handed'
      BY <2>1, <3>1, AnswerKeepsHanded
    <3>3. ~running
      BY <1>i, <2>1, <2>2 DEF Handed, At
    <3>4. Updates'
      BY <1>o, <2>1, <3>3 DEF Updates, UpdatePending
    <3> QED
      BY <3>2, <3>4 DEF CurrentInv
  <2>3. CASE Op(r) # "save"
    <3>1. request' = [request EXCEPT
             ![r] = [NoRequest EXCEPT !.at = IF Op(r) = "list" THEN "fetch" ELSE "start",
                                      !.body.list = request[r].body.list]]
      BY <1>7, <2>3 DEF Write
    <3>2. /\ \A q \in Request : q # r => request'[q] = request[q]
          /\ request'[r].at = IF Op(r) = "list" THEN "fetch" ELSE "start"
          /\ request'[r].body.list = request[r].body.list
      BY <1>t, <3>1 DEF NoRequest, NoBody
    <3>3. disk'.list = request[r].body.list
      BY <1>7 DEF Write
    <3>4. Op(r) # "list" => ~running
      BY <1>i, <2>1 DEF Handed, At
    <3>5. Handed'
      BY <2>1, <3>2, <3>3, <3>4, HolderKeepsHanded DEF managerVars
    <3>6. Updates'
      <4>1. CASE Op(r) = "list"
        BY <3>2, <4>1 DEF Updates, UpdatePending, At
      <4>2. CASE Op(r) # "list"
        BY <1>o, <2>1, <3>4, <4>2 DEF Updates, UpdatePending
      <4> QED
        BY <4>1, <4>2
    <3> QED
      BY <3>5, <3>6 DEF CurrentInv
  <2> QED
    BY <2>2, <2>3
<1>8. CASE StartRuntime(r)
  <2>1. /\ request[r].at = "start" /\ lock = r /\ ~running /\ Answered(r)
        /\ request[r].body.list = disk.list /\ disk' = disk
    BY <1>8, <1>h, <1>i DEF StartRuntime, At, Handed
  <2>2. Handed'
    BY <2>1, AnswerKeepsHanded
  <2>3. \A n \in Generation : channel'[n] = NoUpdate
    BY <1>8, <2>1 DEF StartRuntime
  <2>4. \A n \in Generation : runtime'[n] = IF n = started + 1
          THEN Launched(request[r].body.list) ELSE runtime[n]
    BY <1>8, <1>t, <2>1 DEF StartRuntime
  <2>5. Launched(request[r].body.list).list = disk.list
    BY <2>1 DEF Launched, NoRuntime
  <2>6. ASSUME NEW n \in Generation, runtime'[n].at = "running"
        PROVE  runtime'[n].list = disk'.list
    BY <1>o, <2>1, <2>4, <2>5, <2>6
  <2> QED
    BY <2>2, <2>3, <2>6 DEF CurrentInv, Updates, UpdatePending
<1>9. CASE FetchChannel(r)
  <2>1. /\ request[r].at = "fetch" /\ lock = r
        /\ UNCHANGED <<disk, channel, runtime, running, started>>
    BY <1>9, <1>h DEF FetchChannel, At, managerVars
  <2>2. CASE running
    <3>1. /\ \A q \in Request : q # r => request'[q] = request[q]
          /\ request'[r].at = "push" /\ request'[r].target = started
          /\ request'[r].body = request[r].body
      BY <1>9, <1>t, <2>2 DEF FetchChannel, Handlers
    <3>2. request[r].body.list = disk.list
      BY <1>i, <2>1 DEF Handed
    <3>3. Handed'
      BY <2>1, <3>1, <3>2, HolderKeepsHanded
    <3>4. Updates'
      BY <3>1 DEF Updates, UpdatePending, At
    <3> QED
      BY <3>3, <3>4 DEF CurrentInv
  <2>3. CASE ~running
    <3>1. Handed'
      BY <1>9, <2>1, <2>3, AnswerKeepsHanded DEF FetchChannel
    <3>2. Updates'
      BY <1>o, <2>1, <2>3 DEF Updates, UpdatePending
    <3> QED
      BY <3>1, <3>2 DEF CurrentInv
  <2> QED
    BY <2>2, <2>3
<1>10. CASE Send(r)
  <2>1. /\ request[r].at = "push" /\ lock = r /\ Answered(r)
        /\ UNCHANGED <<disk, runtime>>
        /\ channel' = [channel EXCEPT ![request[r].target] = request[r].body.list]
    BY <1>10, <1>h DEF Send, At
  <2>2. request[r].target = started /\ request[r].body.list = disk.list
    BY <1>i, <2>1 DEF Handed
  <2>3. Handed'
    BY <2>1, AnswerKeepsHanded
  <2>4. ASSUME NEW n \in Generation, runtime'[n].at = "running" PROVE channel'[n] = disk'.list
    BY <1>o, <1>t, <2>1, <2>2, <2>4
  <2> QED
    BY <2>3, <2>4 DEF CurrentInv, Updates, UpdatePending
<1>11. CASE Drain(r)
  <2>1. request[r].at = "push" /\ UNCHANGED <<disk, request, running, started>>
    BY <1>11 DEF Drain, At, managerVars
  <2>2. Handed'
    BY <1>i, <2>1, OutsideKeepsHanded
  <2>3. Updates'
    BY <2>1 DEF Updates, UpdatePending, At
  <2> QED
    BY <2>2, <2>3 DEF CurrentInv
<1>12. CASE StopRuntime(r)
  <2>1. /\ request[r].at = "stop" /\ lock = r
        /\ UNCHANGED <<disk, channel, runtime, running, started>>
    BY <1>12, <1>h DEF StopRuntime, At
  <2>2. CASE running
    <3>1. /\ \A q \in Request : q # r => request'[q] = request[q]
          /\ request'[r].at = "cancel" /\ request'[r].target = started
      BY <1>12, <1>t, <2>2 DEF StopRuntime, Handlers
    <3>2. Handed'
      BY <2>1, <3>1, HolderKeepsHanded
    <3> QED
      BY <1>q, <2>1, <3>1, <3>2 DEF CurrentInv
  <2>3. CASE ~running
    <3>1. Answered(r)
      BY <1>12, <2>3 DEF StopRuntime
    <3>2. Handed'
      BY <2>1, <3>1, AnswerKeepsHanded
    <3> QED
      BY <1>a, <1>q, <2>1, <3>1, <3>2 DEF CurrentInv
  <2> QED
    BY <2>2, <2>3
<1>13. CASE CancelRuntime(r)
  <2>1. /\ request[r].at = "cancel" /\ lock = r /\ Goes(r, "await")
        /\ UNCHANGED <<disk, channel, started, running>>
    BY <1>13, <1>h DEF CancelRuntime, At, managerVars
  <2>2. request[r].target = started
    BY <1>i, <2>1 DEF Handed
  <2>3. Handed'
    BY <1>g, <2>1, <2>2, HolderKeepsHanded
  <2>4. \A n \in Generation : /\ runtime'[n].at = runtime[n].at
                              /\ runtime'[n].list = runtime[n].list
    BY <1>13, <1>t DEF CancelRuntime, Runtimes
  <2> QED
    BY <1>g, <1>i, <2>1, <2>3, <2>4, QuietKeepsUpdates DEF CurrentInv
<1> QED
  BY <1>1, <1>2, <1>3, <1>4, <1>5, <1>6, <1>7, <1>8, <1>9, <1>10, <1>11, <1>12, <1>13
  DEF HandlerStep

\* Every step of a runtime or a report keeps CurrentInv: a client that takes
\* an update takes the last one, unless a handler still brings it.
LEMMA RuntimeKeepsCurrent ==
  ASSUME ConsoleTypeOK, CurrentInv, NEW n \in Generation,
         RuntimeStep(n) \/ \E state \in Reports : Report(n, state)
  PROVE  CurrentInv'
<1>t. runtime \in [Generation -> Runtimes] /\ channel \in [Generation -> List \cup {NoUpdate}]
  BY DEF ConsoleTypeOK
<1>i. Handed /\ Updates
  BY DEF CurrentInv
<1>1. CASE Applies(n)
  <2>1. UNCHANGED <<disk, request, started, running>> /\ channel[n] # NoUpdate
        /\ runtime[n].at = "running"
    BY <1>1 DEF Applies, managerVars
  <2>2. Handed'
    BY <1>i, <2>1, OutsideKeepsHanded
  <2>3. runtime'[n].list = channel[n] /\ channel'[n] = NoUpdate
        /\ \A m \in Generation : m # n => channel'[m] = channel[m] /\ runtime'[m] = runtime[m]
    BY <1>1, <1>t DEF Applies, Runtimes
  <2>4. ASSUME NEW m \in Generation PROVE UpdatePending(m)'
    <3>1. UpdatePending(m)
      BY <1>i DEF Updates
    <3>2. CASE m = n
      BY <2>1, <2>3, <3>1, <3>2 DEF UpdatePending, At
    <3>3. CASE m # n
      BY <2>1, <2>3, <3>1, <3>3 DEF UpdatePending, At
    <3> QED
      BY <3>2, <3>3
  <2> QED
    BY <2>2, <2>4 DEF CurrentInv, Updates
<1>2. CASE Returns(n) \/ Ends(n) \/ ClosesDone(n)
  <2>1. /\ UNCHANGED <<disk, request, started, channel>>
        /\ running' = running \/ ~running'
        /\ runtime'[n].at # "running"
        /\ \A m \in Generation : m # n => runtime'[m] = runtime[m]
    <3>1. CASE Returns(n)
      BY <1>t, <3>1 DEF Returns, managerVars, NoRuntime
    <3>2. CASE Ends(n)
      BY <1>t, <3>2 DEF Ends, EndsFrom, Runtimes
    <3>3. CASE ClosesDone(n)
      BY <1>t, <3>3 DEF ClosesDone, Closes, NoRuntime
    <3> QED
      BY <1>2, <3>1, <3>2, <3>3
  <2>2. Handed'
    BY <1>i, <2>1, OutsideKeepsHanded
  <2>3. ASSUME NEW m \in Generation PROVE UpdatePending(m)'
    <3>1. UpdatePending(m)
      BY <1>i DEF Updates
    <3> QED
      BY <2>1, <3>1 DEF UpdatePending, At
  <2> QED
    BY <2>2, <2>3 DEF CurrentInv, Updates
<1>3. CASE \E state \in Reports : Report(n, state)
  <2>1. UNCHANGED <<disk, request, started, running, channel, runtime>>
    BY <1>3 DEF Report, Record
  <2>2. Handed'
    BY <1>i, <2>1, OutsideKeepsHanded
  <2> QED
    BY <1>i, <2>1, <2>2 DEF CurrentInv, Updates, UpdatePending, At
<1> QED
  BY <1>1, <1>2, <1>3 DEF RuntimeStep

\* Every step keeps CurrentInv.
LEMMA StepCurrent ==
  ASSUME ConsoleTypeOK, RuntimeInv, FileInv, CurrentInv, [ConsoleNext]_consoleVars
  PROVE  CurrentInv'
<1>1. CASE UNCHANGED consoleVars
  BY <1>1 DEF consoleVars, managerVars, CurrentInv, Handed, Updates, UpdatePending, At, Op
<1> QED
  BY <1>1, HandlerKeepsCurrent, RuntimeKeepsCurrent DEF ConsoleNext

\* The file, the update channels, the lists the clients serve and the handlers
\* in between agree, for any number of requests, lists and starts
\* (Manager.UpdateServices, replaceChannelValue, handleConfig, handleStart).
THEOREM ConsoleInvariant == ConsoleSpec => []ConsoleInv
<1> DEFINE All == ConsoleTypeOK /\ RuntimeInv /\ FileInv /\ CurrentInv
<1>1. ConsoleInit => All
  BY InitTyped, InitRuntime, InitFile, InitCurrent
<1>2. All /\ [ConsoleNext]_consoleVars => All'
  BY StepTyped, StepRuntime, StepFile, StepCurrent
<1>3. All => ConsoleInv
  BY DEF RuntimeInv, FileInv, Holding, CopyFresh, CurrentInv, Handed, Updates,
         HandlerCurrent, ConsoleInv
<1> HIDE DEF All
<1> QED
  BY <1>1, <1>2, <1>3, PTL DEF ConsoleSpec

\* Once a save is answered it is not lost: the client that runs serves the list
\* of the file, or finds it in its update channel (handleServices,
\* handleMappings, replaceChannelValue).
THEOREM AnsweredSavesArrive ==
  ConsoleSpec => [](lock = NoOne => \A n \in Generation : runtime[n].at = "running" =>
                      channel[n] = disk.list \/ runtime[n].list = disk.list)
<1>1. ConsoleInv => (lock = NoOne => \A n \in Generation : runtime[n].at = "running" =>
                      channel[n] = disk.list \/ runtime[n].list = disk.list)
  BY ConsoleAssumption DEF ConsoleInv, HandlerCurrent, UpdatePending, At
<1> QED
  BY <1>1, ConsoleInvariant, PTL

\* The generic endpoints never change the file under a client that runs: what
\* the file says differs from what a client was started with by the managed
\* list alone (handleConfig, handleStart).
THEOREM SettingsOfRunningClientKept ==
  ConsoleSpec => [][running => disk'.settings = disk.settings]_consoleVars
<1>1. ASSUME ConsoleInv, [ConsoleNext]_consoleVars, running
      PROVE  disk'.settings = disk.settings
  <2>1. CASE disk' # disk
    <3>1. PICK r \in Request : Write(r)
      BY <1>1, <2>1
      DEF ConsoleNext, RuntimeStep, HandlerStep, Receive, Lock, Enter, LoadFile, MergeFails,
          LoadFails, Refuse, CheckRunning, WriteFails, StartRuntime, FetchChannel, Send,
          Drain, StopRuntime, CancelRuntime, StopReturns, Applies, Returns, Ends,
          EndsFrom, ClosesDone, Closes, Report, Record, consoleVars
    <3>2. Op(r) = "list" /\ request[r].body.settings = disk.settings
      BY <1>1, <3>1 DEF ConsoleInv, HandlerCurrent, Write
    <3> QED
      BY <3>1, <3>2 DEF Write
  <2> QED
    BY <2>1
<1>2. ConsoleInv /\ [ConsoleNext]_consoleVars
        => [running => disk'.settings = disk.settings]_consoleVars
  BY <1>1
<1> QED
  BY <1>2, ConsoleInvariant, PTL DEF ConsoleSpec

=============================================================================

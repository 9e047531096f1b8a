--------------------------- MODULE WindowsService ---------------------------
(***************************************************************************)
(* The process of service/main.go on Windows: myService runs               *)
(* startHTTPServer in a goroutine, Execute answers the service control     *)
(* manager, and stopServers cancels the context and waits for the servers, *)
(* at most ten seconds.  Run interactively, Execute runs in a goroutine of *)
(* its own and main stops the servers itself when Ctrl-C is pressed.       *)
(***************************************************************************)
EXTENDS HttpServer

CONSTANTS
    Modes,           \* what svc.IsWindowsService may answer
    SlowStart,       \* may the collector take ten seconds to start?
    Execute, Main    \* the goroutines that may call stopServers

ASSUME ModeAssumption ==
    Modes \subseteq BOOLEAN /\ SlowStart \in BOOLEAN /\ Execute # Main

Stoppers == {Execute, Main}

VARIABLES
    isService, \* svc.IsWindowsService
    field,    \* m.serverErr: is it the channel?  m.cancel is set with it
    chan,     \* what is in that channel
    runner,   \* the goroutine that runs startHTTPServer
    pc,       \* where Execute and main are
    errOf,    \* the channel each holds: errCh of stopServers, or in Execute's
              \* select the value that m.serverErr had
    stop,     \* a stop was asked for: by the control manager, or Ctrl-C
    warned    \* "server did not stop within timeout": "no", or what was
              \* true of startHTTPServer when it was logged

winVars == <<isService, field, chan, runner, pc, errOf, stop, warned>>
winAll == <<httpVars, winVars>>

WinInit ==
    /\ HttpInit /\ isService \in Modes
    /\ field = FALSE /\ chan = "empty" /\ runner = "off"
    /\ pc = [t \in Stoppers |-> IF t = Execute THEN "start"
                                ELSE IF isService THEN "run" ELSE "signal"]
    /\ errOf = [t \in Stoppers |-> FALSE]
    /\ stop = FALSE /\ warned = "no"

Goto(t, label) == pc' = [pc EXCEPT ![t] = label]

(* startServers: the fields are set under m.mu; then Execute is Running.   *)
Start ==
    /\ pc[Execute] = "start"
    /\ field' = TRUE
    /\ errOf' = [errOf EXCEPT ![Execute] = TRUE]
    /\ runner' = "serving"
    /\ Goto(Execute, "select")
    /\ UNCHANGED <<httpVars, chan, stop, warned>>

(* Mutant of SendResult: it does not wait for startHTTPServer to return. *)
SendResultEarly ==
    /\ runner = "serving"
    /\ IF field THEN chan' = result /\ runner' = "done"
                ELSE runner' = "blocked" /\ UNCHANGED chan
    /\ UNCHANGED <<httpVars, field, pc, errOf, stop, warned>>

(* The goroutine evaluates m.serverErr after startHTTPServer has returned: *)
(* if stopServers has cleared it, the send to a nil channel blocks forever.*)
SendResult ==
    /\ runner = "serving" /\ result # "none"
    /\ IF field THEN chan' = result /\ runner' = "done"
                ELSE runner' = "blocked" /\ UNCHANGED chan
    /\ UNCHANGED <<httpVars, field, pc, errOf, stop, warned>>

(* The Stop of the control manager.  Ctrl-C reaches main and, by debug.Run *)
(* in the interactive mode, Execute too.                                   *)
RequestStop ==
    /\ ~stop /\ stop' = TRUE
    /\ UNCHANGED <<httpVars, field, chan, runner, pc, errOf, warned>>

(* stopServers: the fields are taken and cleared under m.mu, the context   *)
(* is cancelled.                                                           *)
StopServers(t, here) ==
    /\ pc[t] = here /\ stop
    /\ errOf' = [errOf EXCEPT ![t] = field]
    /\ ctxDone' = (ctxDone \/ field)
    /\ field' = FALSE
    /\ Goto(t, "wait")
    /\ UNCHANGED <<serve, srv, errCh, serveErr, deadline, active, result,
                   chan, runner, stop, warned>>

(* Its wait: there is no channel, or a value arrives... *)
Stopped(t) == Goto(t, IF t = Execute THEN "pending" ELSE "exited")
(* Mutant of StopReturns: it does not wait for the servers. *)
StopReturnsAtOnce(t) ==
    /\ pc[t] = "wait"
    /\ Stopped(t)
    /\ UNCHANGED <<httpVars, field, chan, runner, errOf, stop, warned>>
StopReturns(t) ==
    /\ pc[t] = "wait"
    /\ \/ ~errOf[t] /\ UNCHANGED chan
       \/ errOf[t] /\ chan # "empty" /\ chan' = "empty"
    /\ Stopped(t)
    /\ UNCHANGED <<httpVars, field, runner, errOf, stop, warned>>

(* ... or ten seconds pass.  Shutting down takes five at most, so that by  *)
(* then the servers have returned and the goroutine that ran them has done *)
(* what it can, unless the collector is still starting.                    *)
TimePassed ==
    \/ SlowStart /\ serve \in {"register", "collect"}
    \/ serve = "returned" /\ runner # "serving"
(* Mutant of StopTimesOut: no timeout. *)
StopNeverTimesOut(t) == FALSE /\ pc[t] = "wait" /\ UNCHANGED winAll
StopTimesOut(t) ==
    /\ pc[t] = "wait" /\ errOf[t] /\ chan = "empty" /\ TimePassed
    /\ warned' = IF serve = "returned" THEN "stopped" ELSE "starting"
    /\ Stopped(t)
    /\ UNCHANGED <<httpVars, field, chan, runner, errOf, stop>>

(* The loop of Execute: Interrogate makes it evaluate m.serverErr again.   *)
Interrogate ==
    /\ pc[Execute] = "select"
    /\ errOf' = [errOf EXCEPT ![Execute] = field]
    /\ UNCHANGED <<httpVars, field, chan, runner, pc, stop, warned>>

(* Mutant of ServerError: Execute logs the error and loops. *)
ServerErrorLogged ==
    /\ pc[Execute] = "select" /\ errOf[Execute] /\ chan # "empty"
    /\ chan' = "empty"
    /\ UNCHANGED <<httpVars, field, runner, pc, errOf, stop, warned>>
ServerError ==
    /\ pc[Execute] = "select" /\ errOf[Execute] /\ chan # "empty"
    /\ chan' = "empty"
    /\ Goto(Execute, "pending")
    /\ UNCHANGED <<httpVars, field, runner, errOf, stop, warned>>

(* StopPending; Execute and runService return, which ends a service.       *)
ExecuteReturns ==
    /\ pc[Execute] = "pending"
    /\ pc' = [pc EXCEPT ![Execute] = "returned",
                        ![Main] = IF isService THEN "exited" ELSE @]
    /\ UNCHANGED <<httpVars, field, chan, runner, errOf, stop, warned>>

WinAlive == pc[Main] # "exited"

ServiceStep ==
    \/ Start \/ SendResult \/ ServerError \/ ExecuteReturns
    \/ StopServers(Execute, "select")
    \/ StopServers(Main, "signal")
    \/ \E t \in Stoppers : StopReturns(t) \/ StopTimesOut(t)

(* What startHTTPServer, and what Execute and main do while the process    *)
(* lives.                                                                  *)
WinHttp(A) == WinAlive /\ runner # "off" /\ A /\ UNCHANGED winVars
WinService(A) == WinAlive /\ A /\ UNCHANGED isService

WinNext ==
    \/ WinService(ServiceStep)
    \/ WinService(RequestStop)
    \/ WinService(Interrogate)
    \/ WinHttp(HttpNext)

WinSpec == WinInit /\ [][WinNext]_winAll

-----------------------------------------------------------------------------
(* Properties *)

WinTypeOK ==
    /\ isService \in BOOLEAN /\ field \in BOOLEAN /\ stop \in BOOLEAN
    /\ warned \in {"no", "starting", "stopped"}
    /\ chan \in {"empty", "nil", "error"}
    /\ runner \in {"off", "serving", "done", "blocked"}
    /\ pc \in [Stoppers -> {"start", "select", "wait", "pending", "returned",
                            "run", "signal", "exited"}]
    /\ errOf \in [Stoppers -> BOOLEAN]

(* main, run interactively, ends the process without waiting for anything  *)
(* when its stopServers finds no channel: Execute may have taken it, and   *)
(* wait for the servers, or have started them only then.                   *)
MainWaitsForNothing ==
    ~isService /\ ~errOf[Main] /\ pc[Execute] \in {"wait", "select"}

(* Otherwise the process, a service or interactive, does not end while its *)
(* servers accept requests, nor while one answers a request that has time  *)
(* left until the deadline, unless the collector was still starting when   *)
(* stopServers gave up.                                                    *)
ServersDownAtExit ==
    ~WinAlive /\ warned # "starting" /\ ~MainWaitsForNothing => ServersDown

(* "server did not stop within timeout" is only logged when that is true.  *)
StopWarningTrue == warned # "stopped"
=============================================================================

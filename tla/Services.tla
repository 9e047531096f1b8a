------------------------------ MODULE Services ------------------------------
(***************************************************************************)
(* startHTTPServer under either of the programs that run it: the Linux     *)
(* service and the Windows one share it and everything it waits for, and   *)
(* differ in what may stop it and in who waits for it to return.           *)
(***************************************************************************)
EXTENDS LinuxService, WindowsService

VARIABLE os     \* the program that was built

vars == <<httpVars, linuxVars, winVars, os>>

Init ==
    /\ os \in {"linux", "windows"}
    /\ LinuxInit /\ WinInit
    /\ os = "linux" => isService = FALSE

OnLinux(A) == os = "linux" /\ A /\ UNCHANGED <<os, winVars>>
OnWindows(A) == os = "windows" /\ A /\ UNCHANGED <<os, linuxVars>>

Next == OnLinux(LinuxNext) \/ OnWindows(WinNext)

Spec == Init /\ [][Next]_vars

(* A step of startHTTPServer that is bound to happen, in either program.   *)
Serving(A) == OnLinux(LinuxHttp(A)) \/ OnWindows(WinHttp(A))
(* A step of the goroutines of a Windows service.                          *)
OfService(A) == OnWindows(WinService(A))

(* The goroutines run, time passes and the deadline with it, as long as    *)
(* the process lives; nobody has to send a signal or to ask for a stop.    *)
FairSpec ==
    /\ Spec
    /\ WF_vars(Serving(ServeStep)) /\ WF_vars(Serving(Expire))
    /\ \A s \in Servers : WF_vars(Serving(SendError(s)))
    /\ WF_vars(OnLinux(MainStep))
    /\ WF_vars(OfService(Start \/ SendResult))
    /\ WF_vars(OfService(ServerError \/ StopServers(Execute, "select")))
    /\ WF_vars(OfService(ExecuteReturns))
    /\ WF_vars(OfService(StopServers(Main, "signal")))
    /\ \A t \in Stoppers : WF_vars(OfService(StopReturns(t) \/ StopTimesOut(t)))

-----------------------------------------------------------------------------
(* Properties *)

(* The types of both programs and of what they share.                      *)
ServicesTypeOK ==
    os \in {"linux", "windows"} /\ HttpTypeOK /\ LinuxTypeOK /\ WinTypeOK

(* No program ends under its servers, but for the interactive one on       *)
(* Windows when main waits for nothing (MainWaitsForNothing): OrderlyExit  *)
(* and ServersDownAtExit tell what each may rely on when it exits.         *)
ExitInOrder == IF os = "linux" THEN OrderlyExit ELSE ServersDownAtExit

Ended == IF os = "linux" THEN ~LinuxAlive ELSE ~WinAlive

(* A stop that was asked for ends the process, whatever it is doing and    *)
(* whatever fails: the stop of the control manager or Ctrl-C on Windows,   *)
(* and on Linux a SIGTERM, as long as no SIGHUP has been sent before it.   *)
(* One may fill signalChan, and then the SIGTERM is dropped.               *)
StopAsked ==
    IF os = "linux" THEN sent[Term] > 0 /\ sent[Hup] = 0 ELSE stop
StopEndsProcess == StopAsked ~> Ended

(* The servers ending for any reason ends the process, so that the init    *)
(* system or the service control manager can restart it.  The interactive  *)
(* program is not restarted by anybody, and waits for Ctrl-C.              *)
ServersEnding ==
    result # "none" \/ \E s \in Servers : srv[s] = "sending"
FailureEndsProcess ==
    ServersEnding /\ (os = "windows" => isService) ~> Ended
=============================================================================

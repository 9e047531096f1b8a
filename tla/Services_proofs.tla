--------------------------- MODULE Services_proofs ---------------------------
(***************************************************************************)
(* Proofs about Services, that is about startHTTPServer and the two        *)
(* programs that run it, for any number of requests and signals.           *)
(***************************************************************************)
EXTENDS Services, SequenceTheorems, TLAPS

(* A result is there exactly when startHTTPServer has returned, and until  *)
(* it launches the servers there is nothing of them.                       *)
ReturnInv ==
    /\ result # "none" <=> serve = "returned"
    /\ serve \in {"register", "collect", "launch"} =>
           errCh = <<>> /\ \A s \in Servers : srv[s] = "off"

(* A server sends at most once, and what is in the channel is what failed. *)
(* What has been sent is still there, or in serveErr, until the return.    *)
ErrInv ==
    /\ \A i \in 1 .. Len(errCh) : srv[errCh[i]] = "failed"
    /\ Len(errCh) = ErrCap => errCh[1] # errCh[2]
    /\ serve = "returned" \/ serveErr \/ errCh # <<>>
       \/ \A s \in Servers : srv[s] # "failed"

(* Past the shutdown of a server it is down, and its requests are over     *)
(* unless the deadline is.                                                 *)
PastClose(s) ==
    serve \in {"awaitApi", "drain", "returned"}
              \cup IF s = MetricsSrv THEN {"awaitMetrics", "closeApi"} ELSE {}
PastAwait(s) ==
    serve \in {"drain", "returned"}
              \cup IF s = MetricsSrv THEN {"closeApi", "awaitApi"} ELSE {}
ShutInv == \A s \in Servers :
    /\ PastClose(s) => srv[s] \notin {"starting", "serving"}
    /\ PastAwait(s) => active[s] = 0 \/ deadline = "expired"
    /\ srv[s] = "off" => active[s] = 0

HttpInv == HttpTypeOK /\ ReturnInv /\ ErrInv /\ ShutInv

LEMMA HttpInitInv == HttpInit => HttpInv
<1> SUFFICES ASSUME HttpInit PROVE HttpInv
  OBVIOUS
<1>1. errCh \in Seq(Servers) /\ Len(errCh) = 0
  BY DEF HttpInit
<1>2. HttpTypeOK
  <2>1. errCh \in Seq(Servers) /\ Len(errCh) <= ErrCap
    BY <1>1 DEF ErrCap
  <2>2. active \in [Servers -> 0 .. MaxActive]
    BY ServersAssumption DEF HttpInit
  <2> QED
    BY <2>1, <2>2 DEF HttpInit, HttpTypeOK
<1>3. ReturnInv
  BY DEF HttpInit, ReturnInv
<1>4. ErrInv
  <2>1. \A s \in Servers : srv[s] = "off"
    BY DEF HttpInit
  <2> QED
    BY <1>1, <2>1 DEF ErrInv, ErrCap
<1>5. ShutInv
  BY DEF HttpInit, ShutInv, PastClose, PastAwait
<1> QED
  BY <1>2, <1>3, <1>4, <1>5 DEF HttpInv

(* Every step of startHTTPServer and of its servers keeps the invariant.   *)
LEMMA HttpStep == HttpInv /\ HttpNext => HttpInv'
<1> SUFFICES ASSUME HttpInv, HttpNext PROVE HttpInv'
  OBVIOUS
<1> USE ServersAssumption DEF HttpInv, HttpTypeOK, ReturnInv, ErrInv, ShutInv,
        PastClose, PastAwait, Servers, ErrCap, Return
<1>1. ASSUME NEW from \in {"register", "collect"}, NEW to \in {"collect", "launch"},
             Initialize(from, to)
      PROVE  HttpInv'
  BY <1>1 DEF Initialize
<1>2. CASE StartServers
  BY <1>2 DEF StartServers
<1>3. CASE Select
  <2>1. CASE errCh' = errCh /\ serveErr' = serveErr
    BY <1>3, <2>1 DEF Select
  <2>2. CASE errCh # <<>> /\ errCh' = Tail(errCh) /\ serveErr' = TRUE
    <3>1. /\ errCh' \in Seq(Servers) /\ Len(errCh') = Len(errCh) - 1
          /\ \A i \in 1 .. Len(errCh') : errCh'[i] = errCh[i + 1]
      BY <2>2
    <3>2. result = "none" /\ UNCHANGED <<ctxDone, srv, active, result>>
          /\ serve' = "closeMetrics" /\ deadline' = "running"
      BY <1>3 DEF Select
    <3>3. HttpTypeOK'
      BY <2>2, <3>1, <3>2
    <3>4. ErrInv'
      <4>1. \A i \in 1 .. Len(errCh') : srv'[errCh'[i]] = "failed"
        BY <3>1, <3>2
      <4>2. Len(errCh') # ErrCap
        BY <3>1
      <4> QED
        BY <2>2, <4>1, <4>2
    <3>5. ReturnInv' /\ ShutInv'
      BY <3>2
    <3> QED
      BY <3>3, <3>4, <3>5
  <2> QED
    BY <1>3, <2>1, <2>2 DEF Select
<1>4. CASE CloseListener(MetricsSrv, "closeMetrics", "awaitMetrics")
  <2>1. \A s \in Servers : (srv'[s] = "failed") = (srv[s] = "failed")
    BY <1>4 DEF CloseListener, Closing
  <2>2. ErrInv' /\ ReturnInv'
    BY <1>4, <2>1 DEF CloseListener
  <2>3. HttpTypeOK' /\ ShutInv'
    BY <1>4 DEF CloseListener, Closing
  <2> QED
    BY <2>2, <2>3
<1>5. CASE AwaitRequests(MetricsSrv, "awaitMetrics", "closeApi")
  BY <1>5 DEF AwaitRequests
<1>6. CASE CloseListener(ApiSrv, "closeApi", "awaitApi")
  <2>1. \A s \in Servers : (srv'[s] = "failed") = (srv[s] = "failed")
    BY <1>6 DEF CloseListener, Closing
  <2>2. ErrInv' /\ ReturnInv'
    BY <1>6, <2>1 DEF CloseListener
  <2>3. HttpTypeOK' /\ ShutInv'
    BY <1>6 DEF CloseListener, Closing
  <2> QED
    BY <2>2, <2>3
<1>7. CASE AwaitRequests(ApiSrv, "awaitApi", "drain")
  BY <1>7 DEF AwaitRequests
<1>8. CASE ReturnResult
  BY <1>8 DEF ReturnResult
<1>9. ASSUME NEW s \in Servers, Listen(s) \/ Fail(s) PROVE HttpInv'
  BY <1>9 DEF Listen, Fail
<1>10. ASSUME NEW s \in Servers, SendError(s) PROVE HttpInv'
  BY <1>10 DEF SendError
<1>11. ASSUME NEW s \in Servers, Request(s) \/ Respond(s) PROVE HttpInv'
  BY <1>11 DEF Request, Respond
<1>12. CASE Expire
  BY <1>12 DEF Expire
<1> QED
  BY <1>1, <1>2, <1>3, <1>4, <1>5, <1>6, <1>7, <1>8, <1>9, <1>10, <1>11, <1>12
     DEF HttpNext, ServeStep

(* Nor does anything else that the two programs do to it: they cancel.     *)
CancelOnly ==
    /\ ctxDone' \in BOOLEAN
    /\ UNCHANGED <<serve, srv, errCh, serveErr, deadline, active, result>>

LEMMA HttpCancel == HttpInv /\ CancelOnly => HttpInv'
  BY DEF CancelOnly, HttpInv, HttpTypeOK, ReturnInv, ErrInv, ShutInv, PastClose,
     PastAwait

-----------------------------------------------------------------------------
(* The Linux program *)

LinuxInv == LinuxTypeOK /\ OrderlyExit

LEMMA LinuxStep == HttpInv /\ LinuxInv /\ LinuxNext => HttpInv' /\ LinuxInv'
<1> SUFFICES ASSUME HttpInv, LinuxInv, LinuxNext PROVE HttpInv' /\ LinuxInv'
  OBVIOUS
<1>0. result # "none" => serve = "returned"
  BY DEF HttpInv, ReturnInv
<1>1. CASE GoServe \/ Notify \/ Reloaded
  <2>1. CancelOnly
    BY <1>1 DEF GoServe, Notify, Reloaded, httpVars, CancelOnly, HttpInv, HttpTypeOK
  <2> QED
    BY <1>1, <2>1, HttpCancel DEF GoServe, Exit, Notify, Reloaded, httpVars, LinuxInv,
       LinuxTypeOK, OrderlyExit
<1>2. CASE HandleSignal
  <2>1. CancelOnly
    BY <1>2 DEF HandleSignal, CancelOnly, HttpInv, HttpTypeOK
  <2>2. signalChan' \in Seq({Hup, Term}) /\ Len(signalChan') <= SigCap
    BY <1>2 DEF HandleSignal, LinuxInv, LinuxTypeOK, SigCap
  <2> QED
    BY <1>2, <2>1, <2>2, HttpCancel DEF HandleSignal, LinuxInv, LinuxTypeOK,
       OrderlyExit
<1>3. CASE ServersEnded
  <2>1. CancelOnly
    BY <1>3 DEF ServersEnded, httpVars, CancelOnly, HttpInv, HttpTypeOK
  <2> QED
    BY <1>0, <1>3, <2>1, HttpCancel DEF ServersEnded, Exit, httpVars, LinuxInv,
       LinuxTypeOK, OrderlyExit
<1>4. ASSUME NEW g \in {Hup, Term}, Send(g) PROVE HttpInv' /\ LinuxInv'
  <2>1. CancelOnly
    BY <1>4 DEF Send, httpVars, CancelOnly, HttpInv, HttpTypeOK
  <2>2. sent' \in [{Hup, Term} -> Nat]
    BY <1>4 DEF Send, LinuxInv, LinuxTypeOK
  <2>3. signalChan' \in Seq({Hup, Term}) /\ Len(signalChan') <= SigCap
    BY <1>4 DEF Send, LinuxInv, LinuxTypeOK, SigCap
  <2>4. main' \in {"boot", "notify", "loop", "reload", "await", "exited"}
        /\ exitCode' \in {"none", "unstarted", "killed", "0", "1"} /\ OrderlyExit'
    BY <1>4 DEF Send, Exit, LinuxAlive, httpVars, LinuxInv, LinuxTypeOK, OrderlyExit
  <2> QED
    BY <2>1, <2>2, <2>3, <2>4, HttpCancel DEF LinuxInv, LinuxTypeOK
<1>5. CASE LinuxHttp(HttpNext)
  BY <1>5, HttpStep DEF LinuxHttp, LinuxAlive, linuxVars, LinuxInv, LinuxTypeOK,
     OrderlyExit
<1> QED
  BY <1>1, <1>2, <1>3, <1>4, <1>5 DEF LinuxNext, MainStep

-----------------------------------------------------------------------------
(* The Windows program *)

(* What is in the channel was sent after startHTTPServer had returned.     *)
ChanInv == chan # "empty" => serve = "returned"

(* In a service Execute alone stops the servers, and ends the process.     *)
ServiceInv ==
    /\ pc[Execute] \in {"start", "select", "wait", "pending", "returned"}
    /\ isService => /\ pc[Main] \in {"run", "exited"} /\ ~errOf[Main]
                    /\ pc[Main] = "exited" => pc[Execute] = "returned"

(* Who takes the channel, and what it has waited for when it goes on,      *)
(* unless it warned that the servers may still be starting: Execute, if    *)
(* main has not taken it, or main.                                         *)
Done == serve = "returned" \/ warned = "starting"
HolderInv ==
    /\ pc[Execute] = "start" => serve = "register" /\ runner = "off"
    /\ pc[Main] \in {"run", "signal"} => ~errOf[Main]
    /\ pc[Execute] = "select" => field \/ errOf[Main]
    /\ pc[Execute] = "wait" => errOf[Execute] \/ errOf[Main]
    /\ pc[Execute] \in {"pending", "returned"} => Done \/ errOf[Main]
    /\ pc[Main] = "exited" => Done \/ ~errOf[Main]

WinInv == WinTypeOK /\ ChanInv /\ ServiceInv /\ HolderInv

LEMMA WinInitInv == WinInit => WinInv
  BY ModeAssumption DEF WinInit, HttpInit, WinInv, WinTypeOK, ChanInv, ServiceInv,
     HolderInv, Done, Stoppers

(* A step of startHTTPServer never takes a return back.                    *)
LEMMA Returned == HttpInv /\ HttpNext /\ serve = "returned" => serve' = "returned"
  BY DEF HttpNext, ServeStep, Initialize, Return, StartServers, Select,
     CloseListener, AwaitRequests, ReturnResult, Listen, Fail, SendError, Request,
     Respond, Expire

LEMMA WinStep == HttpInv /\ WinInv /\ WinNext => HttpInv' /\ WinInv'
<1> SUFFICES ASSUME HttpInv, WinInv, WinNext PROVE HttpInv' /\ WinInv'
  OBVIOUS
<1> USE ModeAssumption DEF WinInv, WinTypeOK, ChanInv, ServiceInv, HolderInv,
        Done, Stoppers, Goto, WinAlive
<1>1. CASE WinHttp(HttpNext)
  BY <1>1, HttpStep, Returned DEF WinHttp, winVars
<1>2. CASE WinService(ServiceStep) \/ WinService(RequestStop) \/ WinService(Interrogate)
  <2>0. isService' = isService /\ pc[Main] # "exited"
    BY <1>2 DEF WinService
  <2>1. CancelOnly
    BY <1>2 DEF WinService, ServiceStep, Start, SendResult, ServerError,
       ExecuteReturns, StopServers, StopReturns, StopTimesOut, RequestStop,
       Interrogate, httpVars, CancelOnly, HttpInv, HttpTypeOK
  <2>2. HttpInv' /\ serve' = serve
    BY <2>1, HttpCancel DEF CancelOnly
  <2>3. CASE Start
    BY <2>0, <2>2, <2>3 DEF Start
  <2>4. CASE SendResult
    <3>1. result \in {"nil", "error"} /\ serve = "returned"
      BY <2>4 DEF SendResult, HttpInv, HttpTypeOK, ReturnInv
    <3> QED
      BY <2>0, <2>2, <2>4, <3>1 DEF SendResult
  <2>5. CASE ServerError
    BY <2>0, <2>2, <2>5 DEF ServerError
  <2>6. CASE ExecuteReturns
    BY <2>0, <2>2, <2>6 DEF ExecuteReturns
  <2>7. CASE StopServers(Execute, "select")
    BY <2>0, <2>2, <2>7 DEF StopServers
  <2>8. CASE StopServers(Main, "signal")
    BY <2>0, <2>2, <2>8 DEF StopServers
  <2>9. ASSUME NEW t \in Stoppers, StopReturns(t) PROVE WinInv'
    BY <2>0, <2>2, <2>9 DEF StopReturns, Stopped
  <2>10. ASSUME NEW t \in Stoppers, StopTimesOut(t) PROVE WinInv'
    BY <2>0, <2>2, <2>10 DEF StopTimesOut, Stopped
  <2>11. CASE RequestStop
    BY <2>0, <2>2, <2>11 DEF RequestStop
  <2>12. CASE Interrogate
    <3>1. errOf' \in [Stoppers -> BOOLEAN] /\ errOf'[Main] = errOf[Main]
          /\ errOf'[Execute] = field
      BY <2>12 DEF Interrogate
    <3>2. UNCHANGED <<field, chan, runner, pc, stop, warned>> /\ pc[Execute] = "select"
      BY <2>12 DEF Interrogate
    <3> QED
      BY <2>0, <2>2, <3>1, <3>2
  <2> QED
    BY <1>2, <2>2, <2>3, <2>4, <2>5, <2>6, <2>7, <2>8, <2>9, <2>10, <2>11,
       <2>12
       DEF WinService, ServiceStep
<1> QED
  BY <1>1, <1>2 DEF WinNext

-----------------------------------------------------------------------------
(* Either program *)

Inv ==
    /\ os \in {"linux", "windows"} /\ (os = "windows" => main = "boot")
    /\ HttpInv /\ LinuxInv /\ WinTypeOK /\ (os = "windows" => WinInv)

LEMMA InitInv == Init => Inv
<1> SUFFICES ASSUME Init PROVE Inv
  OBVIOUS
<1>1. HttpInit /\ WinInit
  BY DEF Init, LinuxInit, WinInit
<1>2. signalChan \in Seq({Hup, Term}) /\ Len(signalChan) = 0
  BY DEF Init, LinuxInit
<1>3. LinuxInv
  BY <1>2 DEF Init, LinuxInit, LinuxInv, LinuxTypeOK, OrderlyExit, SigCap
<1> QED
  BY <1>1, <1>3, HttpInitInv, WinInitInv DEF Init, LinuxInit, Inv, WinInv

LEMMA NextInv == Inv /\ [Next]_vars => Inv'
<1> SUFFICES ASSUME Inv, [Next]_vars PROVE Inv'
  OBVIOUS
<1>1. CASE OnLinux(LinuxNext)
  <2>1. HttpInv' /\ LinuxInv' /\ UNCHANGED <<os, winVars>> /\ os = "linux"
    BY <1>1, LinuxStep DEF OnLinux, Inv
  <2> QED
    BY <2>1 DEF winVars, Inv, WinTypeOK
<1>2. CASE OnWindows(WinNext)
  <2>1. HttpInv' /\ WinInv' /\ UNCHANGED <<os, linuxVars>>
    BY <1>2, WinStep DEF OnWindows, Inv
  <2>2. LinuxInv'
    BY <1>2, <2>1 DEF OnWindows, linuxVars, Inv, LinuxInv, LinuxTypeOK, OrderlyExit
  <2> QED
    BY <1>2, <2>1, <2>2 DEF OnWindows, linuxVars, Inv, WinInv
<1>3. CASE UNCHANGED vars
  BY <1>3 DEF vars, httpVars, linuxVars, winVars, Inv, HttpInv, HttpTypeOK,
     ReturnInv, ErrInv, ShutInv, PastClose, PastAwait, LinuxInv, LinuxTypeOK,
     OrderlyExit, WinInv, WinTypeOK, ChanInv, ServiceInv, HolderInv, Done
<1> QED
  BY <1>1, <1>2, <1>3 DEF Next

(* The types of both programs.                                             *)
THEOREM ServicesTypeCorrect == Spec => []ServicesTypeOK
<1>1. Inv => ServicesTypeOK
  BY DEF Inv, HttpInv, LinuxInv, ServicesTypeOK
<1> QED
  BY InitInv, NextInv, <1>1, PTL DEF Spec

(* Whichever program runs startHTTPServer, and whatever made it return, it *)
(* leaves no server behind that accepts requests, and no goroutine that    *)
(* cannot send its error.                                                  *)
THEOREM NothingLeftBehindCorrect == Spec => []NothingLeftBehind
<1>1. HttpInv => NothingLeftBehind
  <2> SUFFICES ASSUME HttpInv, serve = "returned", NEW s \in Servers
               PROVE  /\ srv[s] \notin {"starting", "serving"}
                      /\ srv[s] = "sending" => Len(errCh) < ErrCap
    BY DEF NothingLeftBehind
  <2>1. srv[s] \notin {"starting", "serving"}
    BY DEF HttpInv, ShutInv, PastClose
  <2>2. ASSUME Len(errCh) = ErrCap PROVE srv[s] # "sending"
    <3>1. errCh[1] \in Servers /\ errCh[2] \in Servers /\ errCh[1] # errCh[2]
      <4>1. errCh \in Seq(Servers) /\ 1 \in 1 .. Len(errCh) /\ 2 \in 1 .. Len(errCh)
        BY <2>2 DEF HttpInv, HttpTypeOK, ErrCap
      <4>2. errCh[1] # errCh[2]
        BY <2>2 DEF HttpInv, ErrInv
      <4> QED
        BY <4>1, <4>2
    <3>2. srv[errCh[1]] = "failed" /\ srv[errCh[2]] = "failed"
      BY <2>2 DEF HttpInv, ErrInv, ErrCap
    <3> QED
      BY <3>1, <3>2 DEF Servers
  <2>3. Len(errCh) = ErrCap \/ Len(errCh) < ErrCap
    <3>1. errCh \in Seq(Servers) /\ Len(errCh) <= ErrCap
      BY DEF HttpInv, HttpTypeOK
    <3>2. Len(errCh) \in Nat
      BY <3>1, LenProperties
    <3>3. \A n \in Nat : n <= ErrCap => n = ErrCap \/ n < ErrCap
      BY DEF ErrCap
    <3> QED
      BY <3>1, <3>2, <3>3
  <2> QED
    BY <2>1, <2>2, <2>3, Zenon
<1>2. Inv => HttpInv
  BY DEF Inv
<1> QED
  BY InitInv, NextInv, <1>1, <1>2, PTL DEF Spec

(* Past both shutdowns, and before the servers are launched, they are down. *)
LEMMA DownThen ==
    ASSUME HttpInv, serve \in {"register", "drain", "returned"}
    PROVE  ServersDown
  BY DEF HttpInv, ReturnInv, ShutInv, PastClose, PastAwait, ServersDown

(* Only ReturnResult returns nil.                                          *)
LEMMA NilStep ==
    ASSUME HttpInv, Next, result = "none", result' = "nil"
    PROVE  ReturnResult
<1>1. HttpNext
  BY DEF Next, OnLinux, OnWindows, LinuxNext, MainStep, GoServe, Notify, HandleSignal,
     Reloaded, ServersEnded, Send, LinuxHttp, WinNext, WinService, ServiceStep, Start,
     SendResult, ServerError, ExecuteReturns, StopServers, StopReturns, StopTimesOut,
     RequestStop, Interrogate, WinHttp, httpVars
<1> QED
  BY <1>1 DEF HttpNext, ServeStep, Initialize, Return, StartServers, Select,
     CloseListener, AwaitRequests, Listen, Fail, SendError, Request, Respond, Expire

(* When startHTTPServer returns nil, both servers are down, no request was *)
(* cut off before the deadline, and no failure has been sent to errCh:     *)
(* whatever is sent there before the return is what it returns.            *)
THEOREM CleanReturnCorrect == Spec => CleanReturn
<1>1. Inv /\ [Next]_vars =>
        [result = "none" /\ result' = "nil" =>
            ServersDown /\ \A s \in Servers : srv[s] # "failed"]_httpVars
  <2> SUFFICES ASSUME Inv, Next, result = "none", result' = "nil"
               PROVE  ServersDown /\ \A s \in Servers : srv[s] # "failed"
    BY DEF vars, httpVars
  <2>1. HttpInv /\ ReturnResult
    BY NilStep DEF Inv
  <2>2. serve = "drain" /\ ~serveErr /\ errCh = <<>>
    BY <2>1 DEF ReturnResult, Return
  <2>3. \A s \in Servers : srv[s] # "failed"
    BY <2>1, <2>2 DEF HttpInv, ErrInv
  <2> QED
    BY <2>1, <2>2, <2>3, DownThen
<1> QED
  BY InitInv, NextInv, <1>1, PTL DEF Spec, CleanReturn

(* On Linux startHTTPServer has returned when the process exits, and the   *)
(* exit code is its result.  On Windows its servers are down then, unless  *)
(* stopServers gave up during the start; and run interactively, unless     *)
(* main found no channel to wait for while Execute had servers to stop.    *)
THEOREM ExitInOrderCorrect == Spec => []ExitInOrder
<1>1. WinInv /\ HttpInv => ServersDownAtExit
  <2> SUFFICES ASSUME WinInv, HttpInv, pc[Main] = "exited", warned # "starting",
                      ~MainWaitsForNothing
               PROVE  ServersDown
    BY DEF ServersDownAtExit, WinAlive
  <2>1. CASE errOf[Main]
    <3>1. serve = "returned"
      BY <2>1 DEF WinInv, HolderInv, Done
    <3> QED
      BY <3>1, DownThen
  <2>2. CASE ~errOf[Main]
    <3>1. pc[Execute] \in {"start", "pending", "returned"}
      BY <2>2 DEF WinInv, ServiceInv, MainWaitsForNothing
    <3>2. serve \in {"register", "returned"}
      BY <2>2, <3>1 DEF WinInv, HolderInv, Done
    <3> QED
      BY <3>2, DownThen
  <2> QED
    BY <2>1, <2>2
<1>2. Inv => ExitInOrder
  BY <1>1 DEF Inv, LinuxInv, ExitInOrder
<1> QED
  BY InitInv, NextInv, <1>2, PTL DEF Spec
=============================================================================

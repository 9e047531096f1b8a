----------------------------- MODULE HttpServer -----------------------------
(***************************************************************************)
(* startHTTPServer of service/common.go: it registers the metrics, starts  *)
(* the collector, runs the metrics server and the API server in goroutines *)
(* of their own, and waits until the context is cancelled or one of them   *)
(* fails; then it shuts both down, one after the other, against a single   *)
(* deadline of five seconds, and returns the first error.                  *)
(*                                                                         *)
(* LinuxService and WindowsService extend this module by what runs it: the *)
(* variables here are those of one call of startHTTPServer.                *)
(***************************************************************************)
EXTENDS Naturals, Sequences

CONSTANTS
    MetricsSrv, ApiSrv,  \* the two servers
    MaxActive            \* bound: requests under way in one server

Servers == {MetricsSrv, ApiSrv}
ErrCap == 2              \* capacity of errCh

ASSUME ServersAssumption == MetricsSrv # ApiSrv /\ MaxActive \in Nat

VARIABLES
    ctxDone,   \* the context the caller may cancel
    serve,     \* where startHTTPServer is
    srv,       \* what each server and its goroutine do
    errCh,     \* the buffered channel errCh: which servers failed
    serveErr,  \* serveErr # nil
    deadline,  \* shutdownCtx
    active,    \* requests under way in each server
    result     \* what startHTTPServer returned

httpVars == <<ctxDone, serve, srv, errCh, serveErr, deadline, active, result>>

HttpInit ==
    /\ ctxDone = FALSE
    /\ serve = "register"
    /\ srv = [s \in Servers |-> "off"]
    /\ errCh = <<>>
    /\ serveErr = FALSE
    /\ deadline = "off"
    /\ active = [s \in Servers |-> 0]
    /\ result = "none"

Return(r) == serve' = "returned" /\ result' = r

(* RegisterMetrics and Start of the collector, neither of which looks at   *)
(* the context; an error of either ends startHTTPServer.                   *)
Initialize(from, to) ==
    /\ serve = from
    /\ \/ serve' = to /\ UNCHANGED result
       \/ Return("error")
    /\ UNCHANGED <<ctxDone, srv, errCh, serveErr, deadline, active>>

StartServers ==
    /\ serve = "launch"
    /\ serve' = "select"
    /\ srv' = [s \in Servers |-> "starting"]
    /\ UNCHANGED <<ctxDone, errCh, serveErr, deadline, active, result>>

(* The goroutine of a server: ListenAndServe binds the port, or fails on   *)
(* it, on the certificate or later on; its error is sent to errCh.  If     *)
(* Shutdown came first ("ending"), it ends when it is to accept requests,  *)
(* but what fails before that is still an error.                           *)
Listen(s) ==
    /\ srv[s] \in {"starting", "ending"}
    /\ srv' = [srv EXCEPT ![s] = IF @ = "starting" THEN "serving" ELSE "closed"]
    /\ UNCHANGED <<ctxDone, serve, errCh, serveErr, deadline, active, result>>

Fail(s) ==
    /\ srv[s] \in {"starting", "serving", "ending"}
    /\ srv' = [srv EXCEPT ![s] = "sending"]
    /\ UNCHANGED <<ctxDone, serve, errCh, serveErr, deadline, active, result>>

SendError(s) ==
    /\ srv[s] = "sending" /\ Len(errCh) < ErrCap
    /\ srv' = [srv EXCEPT ![s] = "failed"]
    /\ errCh' = Append(errCh, s)
    /\ UNCHANGED <<ctxDone, serve, serveErr, deadline, active, result>>

Request(s) ==
    /\ srv[s] = "serving" /\ active[s] < MaxActive
    /\ active' = [active EXCEPT ![s] = @ + 1]
    /\ UNCHANGED <<ctxDone, serve, srv, errCh, serveErr, deadline, result>>

Respond(s) ==
    /\ active[s] > 0
    /\ active' = [active EXCEPT ![s] = @ - 1]
    /\ UNCHANGED <<ctxDone, serve, srv, errCh, serveErr, deadline, result>>

(* Mutant of Select: only the context is listened to. *)
SelectCancelOnly ==
    /\ serve = "select" /\ ctxDone
    /\ serve' = "closeMetrics"
    /\ deadline' = "running"
    /\ UNCHANGED <<ctxDone, srv, errCh, serveErr, active, result>>

(* The select, either of whose cases may be taken when both are ready. *)
Select ==
    /\ serve = "select"
    /\ \/ ctxDone /\ UNCHANGED <<errCh, serveErr>>
       \/ /\ errCh # <<>>
          /\ errCh' = Tail(errCh)
          /\ serveErr' = TRUE
    /\ serve' = "closeMetrics"
    /\ deadline' = "running"
    /\ UNCHANGED <<ctxDone, srv, active, result>>

(* What Shutdown makes of a server: it closes its listener, so that its    *)
(* goroutine ends with ErrServerClosed, which is not sent, or it tells a   *)
(* server that is still starting not to accept requests...                 *)
Closing(state) == CASE state = "serving" -> "closed"
                    [] state = "starting" -> "ending"
                    [] OTHER -> state

(* Mutant of CloseListener: the API server is forgotten. *)
CloseListenerMetricsOnly(s, here, next) ==
    /\ serve = here
    /\ serve' = next
    /\ srv' = IF s = MetricsSrv THEN [srv EXCEPT ![s] = Closing(@)] ELSE srv
    /\ UNCHANGED <<ctxDone, errCh, serveErr, deadline, active, result>>

CloseListener(s, here, next) ==
    /\ serve = here
    /\ serve' = next
    /\ srv' = [srv EXCEPT ![s] = Closing(@)]
    /\ UNCHANGED <<ctxDone, errCh, serveErr, deadline, active, result>>

(* Mutants of AwaitRequests: it does not wait, or waits without a deadline. *)
AwaitNothing(s, here, next) ==
    /\ serve = here
    /\ serve' = next
    /\ UNCHANGED <<ctxDone, srv, errCh, serveErr, deadline, active, result>>
AwaitForever(s, here, next) == active[s] = 0 /\ AwaitNothing(s, here, next)

(* ... and waits for its requests, or for the deadline. *)
AwaitRequests(s, here, next) ==
    /\ serve = here
    /\ active[s] = 0 \/ deadline = "expired"
    /\ serve' = next
    /\ UNCHANGED <<ctxDone, srv, errCh, serveErr, deadline, active, result>>

Expire ==
    /\ deadline = "running" /\ serve # "returned"
    /\ deadline' = "expired"
    /\ UNCHANGED <<ctxDone, serve, srv, errCh, serveErr, active, result>>

(* Mutant of ReturnResult: the channel is not looked at again. *)
ReturnOwnError ==
    /\ serve = "drain"
    /\ Return(IF serveErr THEN "error" ELSE "nil")
    /\ UNCHANGED <<ctxDone, srv, errCh, serveErr, deadline, active>>

(* An error that came while the context was cancelled is still returned. *)
ReturnResult ==
    /\ serve = "drain"
    /\ IF serveErr THEN Return("error") /\ UNCHANGED errCh
       ELSE IF errCh # <<>> THEN Return("error") /\ errCh' = Tail(errCh)
       ELSE Return("nil") /\ UNCHANGED errCh
    /\ UNCHANGED <<ctxDone, srv, serveErr, deadline, active>>

(* The calling goroutine, and the server goroutines. *)
ServeStep ==
    \/ Initialize("register", "collect")
    \/ Initialize("collect", "launch")
    \/ StartServers
    \/ Select
    \/ CloseListener(MetricsSrv, "closeMetrics", "awaitMetrics")
    \/ AwaitRequests(MetricsSrv, "awaitMetrics", "closeApi")
    \/ CloseListener(ApiSrv, "closeApi", "awaitApi")
    \/ AwaitRequests(ApiSrv, "awaitApi", "drain")
    \/ ReturnResult

HttpNext ==
    \/ ServeStep
    \/ \E s \in Servers :
           Listen(s) \/ Fail(s) \/ SendError(s) \/ Request(s) \/ Respond(s)
    \/ Expire

-----------------------------------------------------------------------------
(* Properties *)

HttpTypeOK ==
    /\ ctxDone \in BOOLEAN /\ serveErr \in BOOLEAN
    /\ serve \in {"register", "collect", "launch", "select", "closeMetrics",
                  "awaitMetrics", "closeApi", "awaitApi", "drain", "returned"}
    /\ srv \in [Servers -> {"off", "starting", "serving", "ending",
                            "sending", "failed", "closed"}]
    /\ errCh \in Seq(Servers) /\ Len(errCh) <= ErrCap
    /\ deadline \in {"off", "running", "expired"}
    /\ active \in [Servers -> 0 .. MaxActive]
    /\ result \in {"none", "nil", "error"}

(* When startHTTPServer has returned, neither server accepts requests, and *)
(* nothing is left to be sent to a channel that nobody reads any more: a   *)
(* goroutine that has an error left finds room in the buffer.              *)
NothingLeftBehind == serve = "returned" =>
    /\ \A s \in Servers : srv[s] \notin {"starting", "serving"}
    /\ \A s \in Servers : srv[s] = "sending" => Len(errCh) < ErrCap

(* Neither server accepts requests, and none is cut off by an end of the   *)
(* process that had time left until the deadline.                          *)
ServersDown ==
    /\ \A s \in Servers : srv[s] \notin {"starting", "serving"}
    /\ (\A s \in Servers : active[s] = 0) \/ deadline = "expired"

(* startHTTPServer returns nil only if neither server has reported a       *)
(* failure by then, whether it came before, with or after the cancellation *)
(* and whichever case its select took, and only with its servers down.     *)
CleanReturn == [][
    result = "none" /\ result' = "nil" =>
        ServersDown /\ \A s \in Servers : srv[s] # "failed"]_httpVars
=============================================================================

---------------------------- MODULE LinuxService ----------------------------
(***************************************************************************)
(* The process of service/main_linux.go: main starts startHTTPServer in a  *)
(* goroutine and then handles signals, SIGHUP by reloading the secrets     *)
(* (SecretsManager models that), every other one by cancelling the context *)
(* and waiting for the servers.                                            *)
(***************************************************************************)
EXTENDS HttpServer

CONSTANTS
    Hup, Term,   \* SIGHUP; SIGTERM or SIGINT
    MaxHups,     \* bound: SIGHUPs sent
    MaxTerms     \* bound: SIGTERMs sent

SigCap == 1      \* capacity of signalChan

ASSUME SignalsAssumption ==
    Hup # Term /\ MaxHups \in Nat /\ MaxTerms \in Nat

VARIABLES
    main,        \* where main is
    signalChan,  \* signals that the runtime has delivered
    sent,        \* how often each signal was sent
    exitCode     \* of the process

linuxVars == <<main, signalChan, sent, exitCode>>

LinuxInit ==
    /\ HttpInit
    /\ main = "boot"
    /\ signalChan = <<>>
    /\ sent = [g \in {Hup, Term} |-> 0]
    /\ exitCode = "none"

LinuxAlive == main # "exited"

Exit(code) == main' = "exited" /\ exitCode' = code

(* The first half of main: logs, secrets, watchers; then the goroutine of  *)
(* the servers, and only after that signal.Notify.  Without logs or a      *)
(* collector the program ends, with the code 1 as well ("unstarted").      *)
GoServe ==
    /\ main = "boot"
    /\ \/ main' = "notify" /\ UNCHANGED exitCode
       \/ Exit("unstarted")
    /\ UNCHANGED <<httpVars, signalChan, sent>>
Notify ==
    /\ main = "notify" /\ main' = "loop"
    /\ UNCHANGED <<httpVars, signalChan, sent, exitCode>>

(* Mutant of Send: the channel grows. *)
SendUnbounded(g) ==
    /\ LinuxAlive /\ sent[g] < IF g = Hup THEN MaxHups ELSE MaxTerms
    /\ sent' = [sent EXCEPT ![g] = @ + 1]
    /\ signalChan' = Append(signalChan, g)
    /\ UNCHANGED <<httpVars, main, exitCode>>

(* A signal reaches the process: before Notify it kills it, afterwards the *)
(* runtime drops it when signalChan is full.                               *)
Send(g) ==
    /\ LinuxAlive /\ sent[g] < IF g = Hup THEN MaxHups ELSE MaxTerms
    /\ sent' = [sent EXCEPT ![g] = @ + 1]
    /\ IF main \in {"boot", "notify"}
       THEN Exit("killed") /\ UNCHANGED signalChan
       ELSE /\ signalChan' = IF Len(signalChan) < SigCap
                             THEN Append(signalChan, g) ELSE signalChan
            /\ UNCHANGED <<main, exitCode>>
    /\ UNCHANGED httpVars

HandleSignal ==
    /\ main = "loop" /\ signalChan # <<>>
    /\ signalChan' = Tail(signalChan)
    /\ IF Head(signalChan) = Hup
       THEN main' = "reload" /\ UNCHANGED ctxDone
       ELSE main' = "await" /\ ctxDone' = TRUE
    /\ UNCHANGED <<serve, srv, errCh, serveErr, deadline, active, result,
                   sent, exitCode>>

(* secretsMgr.Reload and WatchFiles, whatever comes of them. *)
Reloaded ==
    /\ main = "reload" /\ main' = "loop"
    /\ UNCHANGED <<httpVars, signalChan, sent, exitCode>>

(* Mutant of ServersEnded: after a signal main does not wait. *)
ServersNotAwaited ==
    /\ main = "await" \/ (main = "loop" /\ result # "none")
    /\ Exit(IF result = "error" THEN "1" ELSE "0")
    /\ UNCHANGED <<httpVars, signalChan, sent>>

(* The value startHTTPServer returned arrives on serverErr, in the loop or *)
(* after a signal.                                                         *)
ServersEnded ==
    /\ main \in {"loop", "await"} /\ result # "none"
    /\ Exit(IF result = "error" THEN "1" ELSE "0")
    /\ UNCHANGED <<httpVars, signalChan, sent>>

MainStep == GoServe \/ Notify \/ HandleSignal \/ Reloaded \/ ServersEnded

(* What startHTTPServer does while the process lives.                      *)
LinuxHttp(A) == LinuxAlive /\ main # "boot" /\ A /\ UNCHANGED linuxVars

LinuxNext ==
    \/ MainStep
    \/ \E g \in {Hup, Term} : Send(g)
    \/ LinuxHttp(HttpNext)

-----------------------------------------------------------------------------
(* Properties *)

LinuxTypeOK ==
    /\ main \in {"boot", "notify", "loop", "reload", "await", "exited"}
    /\ signalChan \in Seq({Hup, Term}) /\ Len(signalChan) <= SigCap
    /\ sent \in [{Hup, Term} -> Nat]
    /\ exitCode \in {"none", "unstarted", "killed", "0", "1"}

(* The process does not exit under its servers: unless it does not start,  *)
(* or a signal kills it while it boots, startHTTPServer has returned       *)
(* first, and the exit code tells whether it failed.                       *)
OrderlyExit == main = "exited" /\ exitCode \notin {"unstarted", "killed"} =>
    /\ serve = "returned"
    /\ exitCode = "1" <=> result = "error"
=============================================================================

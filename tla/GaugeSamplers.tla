---------------------------- MODULE GaugeSamplers ----------------------------
(***************************************************************************)
(* The goroutines of package metrics that read a quantity of the system    *)
(* and show it, and keep nothing: RecordCPUInfo, RecordMemoryUsage and     *)
(* RecordSystemMetrics.  They differ in what a failing query does to them. *)
(***************************************************************************)
EXTENDS Naturals

CONSTANTS
    Gauges,      \* the samplers considered, a subset of AllGauges
    MaxVaried,   \* bound: changes of the quantity
    MaxRefused   \* bound: failing queries

AllGauges == {"cpu", "memory", "system"} \X {"linux", "windows"}

ASSUME GaugesAssumption ==
    Gauges \subseteq AllGauges /\ MaxVaried \in Nat /\ MaxRefused \in Nat

VARIABLES
    gauge,       \* the sampler this is
    quantity,    \* CPU time, free memory or uptime: how often it has changed
    exposed,     \* the value of it that is shown, 0 if none is
    round,       \* where the goroutine is
    refused      \* failing queries so far

gaugeVars == <<gauge, quantity, exposed, round, refused>>

GaugesInit ==
    /\ gauge \in Gauges
    /\ quantity = 1 /\ exposed = 0
    /\ round = "prepare" /\ refused = 0

Answered == UNCHANGED refused
Refused == refused < MaxRefused /\ refused' = refused + 1

(* What is read before the loop: the CPU sampler goes on if that fails,    *)
(* the system sampler ends.                                                *)
Prepare ==
    /\ round = "prepare"
    /\ \/ round' = "sample" /\ Answered
       \/ gauge[1] = "cpu" /\ round' = "sample" /\ Refused
       \/ gauge[1] = "system" /\ round' = "ended" /\ Refused
    /\ UNCHANGED <<gauge, quantity, exposed>>

(* On Windows the system sampler has no loop. *)
SampleGauge ==
    /\ round = "sample" /\ exposed' = quantity
    /\ round' = IF gauge = <<"system", "windows">> THEN "ended" ELSE "pause"
    /\ Answered /\ UNCHANGED <<gauge, quantity>>

(* Mutant of SampleFails: every sampler returns. *)
SampleFailsReturns ==
    /\ round = "sample" /\ Refused
    /\ round' = "ended"
    /\ UNCHANGED <<gauge, quantity, exposed>>

(* On Windows the memory sampler returns, too. *)
SampleFails ==
    /\ round = "sample" /\ Refused
    /\ round' = IF gauge[2] = "windows" /\ gauge[1] # "cpu" THEN "ended" ELSE "pause"
    /\ UNCHANGED <<gauge, quantity, exposed>>

(* The period of five seconds is over. *)
Resume ==
    /\ round = "pause" /\ round' = "sample"
    /\ Answered /\ UNCHANGED <<gauge, quantity, exposed>>

GaugeStep == Prepare \/ SampleGauge \/ SampleFails \/ Resume

Vary ==
    /\ quantity <= MaxVaried /\ quantity' = quantity + 1
    /\ UNCHANGED <<gauge, exposed, round, refused>>

GaugesNext == GaugeStep \/ Vary
GaugesSpec == GaugesInit /\ [][GaugesNext]_gaugeVars /\ WF_gaugeVars(GaugeStep)

-----------------------------------------------------------------------------
(* Properties *)

GaugesTypeOK ==
    /\ gauge \in Gauges
    /\ quantity \in 1 .. MaxVaried + 1 /\ exposed \in 0 .. quantity
    /\ round \in {"prepare", "sample", "pause", "ended"}
    /\ refused \in 0 .. MaxRefused

(* What is shown is the quantity, whichever queries failed.  On Windows    *)
(* the uptime is what it was at the start and the usage of memory what it  *)
(* was before the first failure; and on Linux there is no uptime if        *)
(* host.Info failed at the start.                                          *)
GaugeCurrent ==
    \/ exposed = quantity
    \/ gauge = <<"system", "windows">>
    \/ gauge = <<"memory", "windows">> /\ refused > 0
    \/ gauge = <<"system", "linux">> /\ exposed = 0 /\ refused > 0
===============================================================================

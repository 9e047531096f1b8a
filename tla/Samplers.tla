------------------------------- MODULE Samplers -------------------------------
(***************************************************************************)
(* The samplers together.  Collector.Start starts each of them as a        *)
(* goroutine of its own, and they share no state: a behaviour is one of a  *)
(* sampler of counters, of one of processes, of one of gauges, of what     *)
(* tells the health of disks, or of what names the interfaces, while the   *)
(* others stand still in an initial state.  Rates are of one goroutine     *)
(* with the health of disks, and on Linux with the names of interfaces,    *)
(* from which they take nothing but time: a command that is slow is a slow *)
(* round there.                                                            *)
(***************************************************************************)
EXTENDS CounterSampler, ProcessSampler, DiskHealth, InterfaceNames, GaugeSamplers

VARIABLE sampler    \* the sampler that runs
allVars == <<sampler, vars, procVars, diskVars, namesVars, gaugeVars>>

(* A step of one sampler, or what it starts from if it is left out. *)
OnlyCounters(A) ==
    /\ sampler = "counters" /\ A
    /\ UNCHANGED <<sampler, procVars, diskVars, namesVars, gaugeVars>>
OnlyProcesses(A) ==
    /\ sampler = "processes" /\ A
    /\ UNCHANGED <<sampler, vars, diskVars, namesVars, gaugeVars>>
OnlyHealth(A) ==
    /\ sampler = "health" /\ A
    /\ UNCHANGED <<sampler, vars, procVars, namesVars, gaugeVars>>
OnlyNames(A) ==
    /\ sampler = "names" /\ A
    /\ UNCHANGED <<sampler, vars, procVars, diskVars, gaugeVars>>
OnlyGauges(A) ==
    /\ sampler = "gauges" /\ A
    /\ UNCHANGED <<sampler, vars, procVars, diskVars, namesVars>>

NoCounters == kind = (CHOOSE k \in Kinds : TRUE) /\ \A d \in Devices : link[d] = "absent"
NoProcesses == os = (CHOOSE s \in Systems : TRUE) /\ proc = Nothing
NoHealth ==
    /\ build = (CHOOSE b \in Builds : TRUE) /\ bus = [b \in Bays |-> "ata"]
    /\ inBay = (CHOOSE f \in [Bays -> Disks] : \A a, b \in Bays : a # b => f[a] # f[b])
    /\ mounted = {} /\ tools = {}
NoNames ==
    /\ model = [a \in Adapters |-> NoModel] /\ lspci = FALSE
    /\ slot = [s \in Slots |-> NoAdapter]

SamplersInit ==
    /\ sampler \in {"counters", "processes", "health", "names", "gauges"}
    /\ Init /\ (sampler # "counters" => NoCounters)
    /\ ProcInit /\ (sampler # "processes" => NoProcesses)
    /\ DiskInit /\ (sampler # "health" => NoHealth)
    /\ NamesInit /\ (sampler # "names" => NoNames)
    /\ GaugesInit /\ (sampler # "gauges" => gauge = (CHOOSE g \in Gauges : TRUE))

SamplersNext ==
    \/ OnlyCounters(Next) \/ OnlyProcesses(ProcNext)
    \/ OnlyHealth(DiskNext) \/ OnlyNames(NamesNext)
    \/ OnlyGauges(GaugesNext)

(* The goroutine that runs is scheduled and time passes. *)
SamplersSpec ==
    /\ SamplersInit /\ [][SamplersNext]_allVars
    /\ WF_allVars(OnlyCounters(SamplerStep) \/ OnlyHealth(HealthStep)
                  \/ OnlyNames(NamesStep) \/ OnlyGauges(GaugeStep))
    /\ WF_allVars(OnlyCounters(Tick) \/ OnlyHealth(PassTime) \/ OnlyNames(PassMinute))

(* The variables of the samplers have their types. *)
SamplersTypeOK ==
    /\ sampler \in {"counters", "processes", "health", "names", "gauges"}
    /\ TypeOK /\ ProcTypeOK /\ DiskTypeOK /\ NamesTypeOK /\ GaugesTypeOK

(* No failed round of a sampler is the last one, but for those that        *)
(* Recovers and GaugeCurrent name: in the end what RecordDiskUsage,        *)
(* RecordNetworkMetrics, RecordCPUInfo, RecordMemoryUsage and              *)
(* RecordSystemMetrics show is what the system has.                        *)
SamplersRecover == Recovers /\ <>[](sampler = "gauges" => GaugeCurrent)
===============================================================================

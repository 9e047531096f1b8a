------------------------------ MODULE DiskHealth ------------------------------
(***************************************************************************)
(* disk_health_status, the part of RecordDiskUsage that tells whether the  *)
(* disks are healthy.  On Linux every round asks smartctl or nvme-cli for  *)
(* the disks that are mounted, and keeps each answer for a minute under    *)
(* the name of the block device; on Windows the disks are asked once, when *)
(* the goroutine starts.  A series, once it is there, is never removed.    *)
(*                                                                         *)
(* A tick of time is the period of five seconds.  Disks are healthy until  *)
(* they begin to fail, and do not recover.                                 *)
(***************************************************************************)
EXTENDS Naturals, FiniteSets

CONSTANTS
    Bays,        \* block devices: sda, nvme0n1, ...
    Disks,       \* the disks there are, each with a model and serial number
                 \* of its own, by which it is shown
    Builds,      \* the systems considered
    NoDisk,      \* none listed, nothing cached, no answer
    CacheTicks,  \* a minute
    MaxHazards   \* bound: faults of all sorts

Buses == {"ata", "scsi", "nvme"}
Statuses == {"healthy", "unhealthy", "unknown"}  \* a warning is unhealthy
Hazards == {"failed", "stalled", "swapped"}

ASSUME DiskAssumption ==
    /\ NoDisk \notin Disks
    /\ Builds \subseteq {"linux", "windows"}
    /\ CacheTicks \in Nat \ {0} /\ MaxHazards \in Nat

VARIABLES
    build,      \* the system the program was built for
    bus,        \* how each bay is connected
    inBay,      \* the disk in each bay
    failing,    \* the disks that fail
    lastGood,   \* history: ticks since the disk in the bay was healthy
    mounted,    \* bays with a partition that is mounted as such, not through
                \* LVM, RAID or encryption
    tools,      \* programs that are installed
    stage,      \* where the goroutine is in its round
    due,        \* a tick is in the ticker's channel
    seen,       \* the disk listed for a bay, until it has been shown
    answer,     \* status of the disk that is being asked for
    cache,      \* diskHealthCache
    verdicts,   \* the series of disk_health_status
    met, faults \* the hazards met so far, and their number

diskVars == <<build, bus, inBay, failing, lastGood, mounted, tools, stage,
              due, seen, answer, cache, verdicts, met, faults>>
machine == <<build, bus, mounted, tools>>
disks == <<inBay, failing, lastGood>>

DiskInit ==
    /\ build \in Builds /\ bus \in [Bays -> Buses]
    /\ inBay \in {f \in [Bays -> Disks] : \A a, b \in Bays : a # b => f[a] # f[b]}
    /\ failing = {} /\ lastGood = [b \in Bays |-> 0]
    /\ mounted \in SUBSET Bays /\ tools \in SUBSET {"smartctl", "nvme"}
    /\ stage = "list" /\ due = FALSE
    /\ seen = [b \in Bays |-> NoDisk]
    /\ answer = [bay |-> NoDisk, status |-> NoDisk]
    /\ cache = [b \in Bays |-> NoDisk]
    /\ verdicts = {}
    /\ met = {} /\ faults = 0

Meet(sort) ==
    /\ faults < MaxHazards /\ faults' = faults + 1
    /\ met' = met \cup {sort}
AllWell == UNCHANGED <<met, faults>>

-----------------------------------------------------------------------------
(* What the tools tell *)

Fails(b) == inBay[b] \in failing

(* A disk that fails is never called healthy: smartctl exits with a bit    *)
(* set, which is taken for an error, or tells what is wrong.  A SCSI disk  *)
(* that is healthy is told to be "OK", which is none of the words.         *)
Smartctl(b) ==
    CASE Fails(b) -> {"", "unhealthy"}
      [] ~Fails(b) /\ bus[b] = "scsi" -> {"unknown"}
      [] OTHER -> {"healthy"}

NvmeCLI(b) == IF Fails(b) THEN {"unhealthy"} ELSE {"healthy"}

(* Mutant of QueryDiskHealth: what smartctl prints is not looked at. *)
QueryDiskHealthExit(b, answering) ==
    IF answering = {} THEN {"unknown"} ELSE {"healthy"}

(* The next tool is asked if one gives no answer; none at all is unknown.  *)
QueryDiskHealth(b, answering) ==
    LET smartctl == IF "smartctl" \in answering THEN Smartctl(b) ELSE {""}
        said == IF bus[b] = "nvme" /\ "nvme" \in answering
                THEN NvmeCLI(b) ELSE smartctl
    IN  {IF s = "" THEN "unknown" ELSE s : s \in said}

(* Windows tells its own verdict; what it does not know is "Unknown".      *)
HealthStatus(b) == IF Fails(b) THEN Statuses \ {"healthy"} ELSE {"healthy"}

-----------------------------------------------------------------------------
(* A round of the goroutine *)

Set(disk, status) == verdicts' = verdicts \cup {<<disk, status>>}

(* Windows records the health of all disks, and then looks at it no more.  *)
RecordOnce ==
    /\ build = "windows" /\ stage = "list"
    /\ \/ /\ \E told \in [Bays -> Statuses] :
               /\ \A b \in Bays : told[b] \in HealthStatus(b)
               /\ verdicts' = {<<inBay[b], told[b]>> : b \in Bays}
          /\ stage' = "done" /\ AllWell
       \/ stage' = "dead" /\ Meet("failed") /\ UNCHANGED verdicts
    /\ UNCHANGED <<machine, disks, due, seen, answer, cache>>

(* loadDiskMetadata and the partitions that are mounted. *)
ListDisks ==
    /\ build = "linux" /\ stage = "list"
    /\ \/ /\ seen' = [b \in Bays |-> IF b \in mounted THEN inBay[b] ELSE NoDisk]
          /\ stage' = "check" /\ AllWell
       \/ stage' = "wait" /\ Meet("failed") /\ UNCHANGED seen
    /\ UNCHANGED <<machine, disks, due, answer, cache, verdicts>>

(* Mutant of Cached: an answer is kept for ever. *)
CachedForever(b) == cache[b] # NoDisk

Cached(b) == cache[b] # NoDisk /\ cache[b].age < CacheTicks

Show(b, status) ==
    /\ Set(seen[b], status)
    /\ seen' = [seen EXCEPT ![b] = NoDisk]

(* The status is known from a round before. *)
ShowCached(b) ==
    /\ stage = "check" /\ seen[b] # NoDisk /\ Cached(b)
    /\ Show(b, cache[b].status) /\ AllWell
    /\ UNCHANGED <<machine, disks, stage, due, answer, cache>>

(* A tool is run, which may fail for once. *)
Ask(b) ==
    /\ stage = "check" /\ seen[b] # NoDisk /\ ~Cached(b)
    /\ \E answering \in SUBSET tools :
         /\ \E s \in QueryDiskHealth(b, answering) :
              answer' = [bay |-> b, status |-> s]
         /\ IF answering = tools THEN AllWell ELSE Meet("failed")
    /\ stage' = "answered"
    /\ UNCHANGED <<machine, disks, due, seen, cache, verdicts>>

(* The time is taken when the answer is there. *)
ShowAnswer(b) ==
    /\ stage = "answered" /\ answer.bay = b
    /\ cache' = [cache EXCEPT ![b] = [status |-> answer.status, age |-> 0]]
    /\ Show(b, answer.status)
    /\ stage' = "check" /\ answer' = [bay |-> NoDisk, status |-> NoDisk]
    /\ AllWell
    /\ UNCHANGED <<machine, disks, due>>

AwaitTick ==
    /\ \/ /\ stage = "check" /\ \A b \in Bays : seen[b] = NoDisk
          /\ stage' = "wait" /\ UNCHANGED due
       \/ stage = "wait" /\ due /\ stage' = "list" /\ due' = FALSE
    /\ AllWell
    /\ UNCHANGED <<machine, disks, seen, answer, cache, verdicts>>

HealthStep ==
    \/ RecordOnce \/ ListDisks \/ AwaitTick
    \/ \E b \in Bays : ShowCached(b) \/ Ask(b) \/ ShowAnswer(b)

-----------------------------------------------------------------------------
(* Time and the disks *)

Older(n) == IF n < CacheTicks THEN n + 1 ELSE n

(* Time passes, and a tick that nobody awaits is kept.  It may pass during *)
(* a round, and between an answer and the moment it is cached.             *)
PassTime ==
    /\ build = "linux" /\ due' = TRUE
    /\ IF stage = "answered" THEN Meet("stalled") ELSE AllWell
    /\ cache' = [b \in Bays |-> IF cache[b] = NoDisk THEN NoDisk
                                ELSE [cache[b] EXCEPT !.age = Older(@)]]
    /\ lastGood' = [b \in Bays |-> IF Fails(b) THEN Older(lastGood[b]) ELSE 0]
    /\ UNCHANGED <<machine, inBay, failing, stage, seen, answer, verdicts>>

BeginToFail(d) ==
    /\ d \notin failing /\ failing' = failing \cup {d}
    /\ AllWell
    /\ UNCHANGED <<machine, inBay, lastGood, stage, due, seen, answer, cache,
                   verdicts>>

(* A disk is replaced by another one, which may be no better. *)
SwapDisk(b) ==
    /\ \E d \in Disks \ {inBay[a] : a \in Bays} :
         /\ inBay' = [inBay EXCEPT ![b] = d]
         /\ lastGood' = [lastGood EXCEPT ![b] = IF d \in failing THEN CacheTicks ELSE 0]
    /\ Meet("swapped")
    /\ UNCHANGED <<machine, failing, stage, due, seen, answer, cache, verdicts>>

DiskNext ==
    \/ HealthStep \/ PassTime
    \/ \E d \in Disks : BeginToFail(d)
    \/ \E b \in Bays : SwapDisk(b)

(* The goroutine is scheduled and time passes. *)
DiskSpec ==
    /\ DiskInit /\ [][DiskNext]_diskVars
    /\ WF_diskVars(HealthStep) /\ WF_diskVars(PassTime)

-----------------------------------------------------------------------------
(* Properties *)

DiskTypeOK ==
    /\ build \in Builds /\ bus \in [Bays -> Buses]
    /\ inBay \in [Bays -> Disks] /\ failing \subseteq Disks
    /\ lastGood \in [Bays -> 0 .. CacheTicks]
    /\ mounted \subseteq Bays /\ tools \subseteq {"smartctl", "nvme"}
    /\ stage \in {"list", "check", "answered", "wait", "done", "dead"}
    /\ due \in BOOLEAN /\ seen \in [Bays -> Disks \cup {NoDisk}]
    /\ answer \in [bay : Bays, status : Statuses]
                  \cup {[bay |-> NoDisk, status |-> NoDisk]}
    /\ cache \in [Bays -> [status : Statuses, age : 0 .. CacheTicks] \cup {NoDisk}]
    /\ verdicts \subseteq Disks \X Statuses
    /\ met \subseteq Hazards /\ faults \in 0 .. MaxHazards

(* A disk that is called healthy on Linux was healthy less than a minute   *)
(* ago.  Not so if the tool was slow to end, because its answer is dated   *)
(* when it has ended, or if the disk has been swapped, because the answer  *)
(* is kept under the name of the bay.                                      *)
Calls(b, status) ==
    (ShowCached(b) \/ ShowAnswer(b)) /\ <<seen[b], status>> \in verdicts'
    /\ (stage = "answered" => answer.status = status)
    /\ (stage = "check" => cache[b].status = status)
HealthyIsRecent == [][
    \A b \in Bays : Calls(b, "healthy") =>
        lastGood[b] < CacheTicks \/ met \cap {"stalled", "swapped"} # {}
]_diskVars

(* A mounted disk that fails is not held for healthy for ever, and the     *)
(* verdict that is held is shown.  On Windows no verdict ever changes.     *)
DegradationShown == \A b \in Bays : <>[](
    build = "linux" /\ b \in mounted /\ Fails(b) =>
        /\ cache[b] # NoDisk /\ cache[b].status # "healthy"
        /\ <<inBay[b], cache[b].status>> \in verdicts)

(* As it is documented, for every disk and system: the health that is      *)
(* shown is that of the disk, looked at in every round.                    *)
StatusShown == \A b \in Bays : <>[](
    stage # "dead" /\ Fails(b) =>
        \E s \in Statuses \ {"healthy"} : <<inBay[b], s>> \in verdicts)
===============================================================================

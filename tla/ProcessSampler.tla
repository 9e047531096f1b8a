---------------------------- MODULE ProcessSampler ----------------------------
(***************************************************************************)
(* RecordProccessInfo on Linux and on Windows: every round lists the       *)
(* processes and shows each of them, and the processes of a name together. *)
(*                                                                         *)
(* On Windows the share of the CPU is computed here, from the process time *)
(* kept of the last round by PID and the system time of that round, and a  *)
(* round opens a handle per process that it has to close.  On Linux        *)
(* gopsutil gives the share, and a round keeps nothing.                    *)
(*                                                                         *)
(* Time passes between rounds: a round is short, but processes start and   *)
(* end during it.  A handle keeps the times of a process that has ended.   *)
(* The amounts of memory are left out, and so are the series of processes  *)
(* and groups, which no round removes.                                     *)
(***************************************************************************)
EXTENDS Naturals, FiniteSets

CONSTANTS
    Systems,     \* the systems considered
    Pids, Names,
    NoProc,      \* no process; no system time
    Limit,       \* 2^64 in the code: unsigned integers are modulo Limit
    MaxTime,     \* bound: time a process has used
    MaxSpawns,   \* bound: processes started while the agent runs
    MaxMisses,   \* bound: failing queries and PIDs used again
    MaxGap       \* bound: time between two rounds that succeed

ASSUME ProcessAssumption ==
    /\ Systems \subseteq {"linux", "windows"}
    /\ {MaxTime, MaxSpawns, MaxMisses, MaxGap} \subseteq Nat
    /\ Limit \in Nat /\ Limit > MaxTime
    /\ NoProc \notin Nat /\ IsFiniteSet(Pids)

VARIABLES
    os,          \* which of the two this is
    proc,        \* the processes of the host
    at,          \* where the goroutine is in its round
    found,       \* the processes of this round
    handles,     \* handles that are open
    sample,      \* prevProcessTimes; no entry is 0
    since,       \* time since prevSystemTime
    failures,    \* systemTimesErrorCount
    instances,   \* ProcessInstanceCount
    recorded, gap,    \* PIDs of the last round that succeeded, time since
    missed, misses, spawns   \* what failed, and counters of the bounds

procVars == <<os, proc, at, found, handles, sample, since, failures, instances,
            recorded, gap, missed, misses, spawns>>
host == <<os, proc, recorded, gap, spawns>>
kept == <<sample, since>>

(* A process, and what it had used at the end of the last round. *)
Process == [name : Names, time : 0 .. MaxTime, mark : 0 .. MaxTime, open : BOOLEAN]
Born(n, o) == [name |-> n, time |-> 0, mark |-> 0, open |-> o]
Nothing == [p \in Pids |-> NoProc]
NoShare == [delta |-> 0, over |-> 1]

(* On Windows the handle of a process may be refused.  Bound: not that of  *)
(* one which starts while the agent runs.                                  *)
Opens == IF os = "windows" THEN BOOLEAN ELSE {FALSE}

ProcInit ==
    /\ os \in Systems
    /\ proc \in [Pids -> {Born(n, o) : n \in Names, o \in Opens} \cup {NoProc}]
    /\ at = "list" /\ found = Nothing /\ handles = 0
    /\ sample = [p \in Pids |-> 0] /\ since = NoProc /\ failures = 0
    /\ instances = [n \in Names |-> 0]
    /\ recorded = {} /\ gap = 0
    /\ missed = {} /\ misses = 0 /\ spawns = 0

(* Bound: only the clock fails more than once, as it has to for the code   *)
(* that counts its failures.                                               *)
Miss(what) ==
    /\ what = "clock" \/ what \notin missed
    /\ misses < MaxMisses /\ misses' = misses + 1
    /\ missed' = missed \cup {what}
NoMiss == UNCHANGED <<missed, misses>>

-----------------------------------------------------------------------------
(* A round *)

Listed == {p \in Pids : found[p] # NoProc}
Handled == {p \in Listed : found[p].open}
Named(f, n) == {p \in Pids : f[p] # NoProc /\ f[p].name = n}

(* The list of processes; on Windows with a handle for each that may be    *)
(* opened, and the instances are counted at once.                          *)
ListProcesses ==
    /\ at = "list"
    /\ found' = proc
    /\ IF os = "windows"
       THEN /\ at' = "clock"
            /\ handles' = handles + Cardinality(
                              {p \in Pids : proc[p] # NoProc /\ proc[p].open})
            /\ instances' = [n \in Names |->
                  IF Named(proc, n) = {} THEN instances[n]
                  ELSE Cardinality(Named(proc, n))]
       ELSE at' = "record" /\ UNCHANGED <<handles, instances>>
    /\ NoMiss
    /\ UNCHANGED <<host, kept, failures>>

ListFails ==
    /\ at = "list" /\ at' = "wait" /\ Miss("list")
    /\ UNCHANGED <<host, kept, found, handles, failures, instances>>

ReadClock ==
    /\ at = "clock" /\ at' = "record" /\ failures' = 0
    /\ NoMiss /\ UNCHANGED <<host, kept, found, handles, instances>>

(* The round ends with its handles open; the third failure in a row makes  *)
(* the sampler forget what it knew.                                        *)
ClockFails ==
    /\ at = "clock" /\ at' = "wait" /\ Miss("clock")
    /\ found' = Nothing
    /\ IF failures + 1 >= 3
       THEN /\ failures' = 0 /\ since' = NoProc
            /\ sample' = [p \in Pids |-> 0]
       ELSE failures' = failures + 1 /\ UNCHANGED kept
    /\ UNCHANGED <<host, handles, instances>>

(* Subtraction of uint64, and the share of the CPU, which is cut off at    *)
(* 100 percent; there is one core, by whose number the code divides.       *)
Difference(a, b) == (a + Limit - b) % Limit
ShareOf(p) ==
    IF since = NoProc \/ since = 0 \/ sample[p] = 0 THEN NoShare
    ELSE LET d == Difference(found[p].time, sample[p]) IN
         [delta |-> IF d > since THEN since ELSE d, over |-> since]

(* Mutant of SampleOf: the samples of ended processes are kept. *)
SampleOfAll(read, p) ==
    IF p \in read THEN found[p].time ELSE sample[p]

(* The sample kept of p, when the processes in read could be read. *)
SampleOf(read, p) ==
    IF p \in read THEN found[p].time
    ELSE IF p \in Listed THEN sample[p] ELSE 0

(* Mutant of CloseHandles: a process that cannot be read keeps its handle. *)
CloseHandlesRead(read) == handles' = handles - Cardinality(read)

(* cleanupHandles, of this round's processes. *)
CloseHandles(read) == handles' = handles - Cardinality(Handled)

(* A round that succeeds is over; what the properties compare with is      *)
(* noted: the processes it knew, and what each has used.                   *)
Completed ==
    /\ at' = "wait" /\ found' = Nothing
    /\ recorded' = Listed /\ gap' = 0
    /\ proc' = [p \in Pids |-> IF proc[p] = NoProc THEN NoProc
                               ELSE [proc[p] EXCEPT !.mark = proc[p].time]]
    /\ UNCHANGED <<os, spawns>>

(* The times of some processes may not be had.  Of the others ShareOf is   *)
(* shown, which nothing reads again.                                       *)
RecordWindows ==
    /\ os = "windows" /\ at = "record"
    /\ \E read \in SUBSET Handled :
          /\ IF read = Handled THEN NoMiss ELSE Miss("times")
          /\ sample' = [p \in Pids |-> SampleOf(read, p)]
          /\ CloseHandles(read)
    /\ since' = 0
    /\ Completed
    /\ UNCHANGED <<failures, instances>>

(* Mutant of InstancesOf: a process is counted for its memory and its CPU. *)
InstancesOfBoth(memory, share, n) ==
    {Cardinality(Named(found, n) \cap memory)
         + Cardinality(Named(found, n) \cap share)}

(* The count goes up with each process whose memory is read; one whose CPU *)
(* alone is read is counted if it comes before all of these.               *)
InstancesOf(memory, share, n) ==
    LET m == Named(found, n) \cap memory
        c == (Named(found, n) \cap share) \ m
    IN  (IF m = {} THEN {} ELSE {Cardinality(m)})
        \cup (IF c = {} THEN {} ELSE {Cardinality(m) + 1})

(* The share shown is the one of gopsutil, and is left out. *)
RecordLinux ==
    /\ os = "linux" /\ at = "record"
    /\ \E memory, share \in SUBSET Listed :
          LET shownNames == {found[p].name : p \in memory \cup share} IN
          /\ IF memory = Listed /\ share = Listed THEN NoMiss ELSE Miss("times")
          /\ \E count \in [Names -> 0 .. Cardinality(Pids) * 2] :
                /\ \A n \in Names : count[n] \in
                      IF n \in shownNames THEN InstancesOf(memory, share, n)
                      ELSE {instances[n]}
                /\ instances' = count
    /\ Completed
    /\ UNCHANGED <<handles, kept, failures>>

NextRound ==
    /\ at = "wait" /\ at' = "list"
    /\ NoMiss /\ UNCHANGED <<host, kept, found, handles, failures, instances>>

Round == \/ ListProcesses \/ ListFails \/ ReadClock \/ ClockFails
         \/ RecordWindows \/ RecordLinux \/ NextRound

-----------------------------------------------------------------------------
(* The host *)

Spawn(p) ==
    /\ proc[p] = NoProc /\ spawns < MaxSpawns /\ spawns' = spawns + 1
    /\ \E n \in Names : proc' = [proc EXCEPT ![p] = Born(n, os = "windows")]
    /\ IF p \in recorded \cup Listed THEN Miss("reuse") ELSE NoMiss
    /\ UNCHANGED <<os, recorded, gap, kept>>
End(p) ==
    /\ proc[p] # NoProc /\ proc' = [proc EXCEPT ![p] = NoProc]
    /\ NoMiss /\ UNCHANGED <<os, recorded, gap, spawns, kept>>

(* Time passes between rounds, and every process may use it; on Linux      *)
(* nothing depends on it.                                                  *)
Pass ==
    /\ at = "wait" /\ gap < MaxGap /\ gap' = gap + 1
    /\ since' = IF since = NoProc THEN NoProc ELSE since + 1
    /\ \E busy \in SUBSET {p \in Pids : os = "windows" /\ proc[p] # NoProc} :
          /\ \A p \in busy : proc[p].time < MaxTime
          /\ proc' = [p \in Pids |->
                IF p \in busy THEN [proc[p] EXCEPT !.time = @ + 1] ELSE proc[p]]
    /\ NoMiss /\ UNCHANGED <<os, recorded, spawns, sample>>

HostStep ==
    /\ (\E p \in Pids : Spawn(p) \/ End(p)) \/ Pass
    /\ UNCHANGED <<at, found, handles, failures, instances>>

ProcNext == Round \/ HostStep

ProcSpec == ProcInit /\ [][ProcNext]_procVars

-----------------------------------------------------------------------------
(* Properties *)

ProcTypeOK ==
    /\ os \in Systems
    /\ proc \in [Pids -> Process \cup {NoProc}]
    /\ at \in {"list", "clock", "record", "wait"}
    /\ found \in [Pids -> Process \cup {NoProc}]
    /\ handles \in Nat
    /\ sample \in [Pids -> 0 .. MaxTime]
    /\ since \in Nat \cup {NoProc} /\ failures \in 0 .. 2
    /\ instances \in [Names -> Nat]
    /\ recorded \subseteq Pids /\ gap \in 0 .. MaxGap
    /\ missed \subseteq {"list", "clock", "times", "reuse"}
    /\ misses \in 0 .. MaxMisses /\ spawns \in 0 .. MaxSpawns

(* No process is shown busier than it was since the last round that was    *)
(* completed, however many failed in between and however processes come    *)
(* and go: what the sampler is not proof against is a PID that it knows    *)
(* and that another process gets before it could see that the first ended, *)
(* and times that could once not be read.                                  *)
CpuShownIsReal ==
    at = "record" /\ missed \cap {"reuse", "times"} = {} =>
        \A p \in Handled : LET shown == ShareOf(p) IN
            shown.delta > 0 => /\ shown.delta <= found[p].time - found[p].mark
                               /\ shown.over >= gap

(* Between rounds no handle of a process is open, unless a round was left  *)
(* early because the system time could not be had.                         *)
HandlesClosed == at \in {"wait", "list"} /\ "clock" \notin missed => handles = 0

(* The instances of a name that a round shows are processes of that round, *)
(* each counted once, whatever could not be read of them.                  *)
InstancesReal == [][\A n \in Names : instances'[n] # instances[n] =>
    instances'[n] \in 1 .. Cardinality(
        Named(IF at = "list" THEN found' ELSE found, n))]_procVars
=============================================================================

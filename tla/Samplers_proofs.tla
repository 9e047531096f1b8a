---------------------------- MODULE Samplers_proofs ----------------------------
(***************************************************************************)
(* Proofs about the sampler of processes and about the samplers together,  *)
(* for any number of processes, names, failures and rounds.                *)
(***************************************************************************)
EXTENDS Samplers, CounterSampler_proofs, FiniteSetTheorems, TLAPS

-----------------------------------------------------------------------------
(* Processes *)

(* Sets of processes are finite, and sizes follow inclusion.               *)
LEMMA PidSets ==
    \A S \in SUBSET Pids : /\ IsFiniteSet(S) /\ Cardinality(S) \in Nat
                           /\ Cardinality(S) <= Cardinality(Pids)
                           /\ S # {} => Cardinality(S) >= 1
                           /\ \A T \in SUBSET S : Cardinality(T) <= Cardinality(S)
<1> SUFFICES ASSUME NEW S \in SUBSET Pids
             PROVE  /\ IsFiniteSet(S) /\ Cardinality(S) \in Nat
                    /\ Cardinality(S) <= Cardinality(Pids)
                    /\ S # {} => Cardinality(S) >= 1
                    /\ \A T \in SUBSET S : Cardinality(T) <= Cardinality(S)
  OBVIOUS
<1>1. IsFiniteSet(Pids)
  BY ProcessAssumption
<1>2. IsFiniteSet(S) /\ Cardinality(S) <= Cardinality(Pids)
  BY <1>1, FS_Subset
<1>3. Cardinality(S) \in Nat
  BY <1>2, FS_CardinalityType
<1>4. S # {} => Cardinality(S) >= 1
  <2>1. S # {} => Cardinality(S) # 0
    BY <1>2, FS_EmptySet
  <2> QED
    BY <1>3, <2>1
<1>5. \A T \in SUBSET S : Cardinality(T) <= Cardinality(S)
  BY <1>2, FS_Subset
<1> QED
  BY <1>2, <1>3, <1>4, <1>5

(* What a round finds it has from its list until it is over.  The handles  *)
(* of it are open, and no others unless a round ended at the clock; the    *)
(* sampler on Linux opens none and keeps no times.                         *)
ProcRounds ==
    /\ at \in {"list", "wait"} => found = Nothing
    /\ os = "linux" => at # "clock" /\ handles = 0 /\ sample = [p \in Pids |-> 0]
    /\ os = "windows" =>
         /\ handles >= Cardinality(Handled)
         /\ "clock" \notin missed => handles = Cardinality(Handled)

ProcInv == ProcTypeOK /\ ProcRounds

LEMMA NothingHandled == found = Nothing => Handled = {} /\ Listed = {}
  BY DEF Handled, Listed, Nothing

LEMMA ProcInitInv == ProcInit => ProcInv
<1> SUFFICES ASSUME ProcInit PROVE ProcInv
  OBVIOUS
<1>1. \A n \in Names, o \in BOOLEAN : Born(n, o) \in Process
  BY ProcessAssumption DEF Born, Process
<1>2. Opens \subseteq BOOLEAN
  BY DEF Opens
<1>3. proc \in [Pids -> Process \cup {NoProc}]
  BY <1>1, <1>2 DEF ProcInit
<1>4. ProcTypeOK
  BY <1>3, ProcessAssumption DEF ProcInit, ProcTypeOK, Nothing
<1>5. Cardinality(Handled) = 0
  BY NothingHandled, FS_EmptySet DEF ProcInit
<1> QED
  BY <1>4, <1>5 DEF ProcInv, ProcRounds, ProcInit

LEMMA MissType ==
    ASSUME ProcTypeOK,
           NoMiss \/ \E what \in {"list", "clock", "times", "reuse"} : Miss(what)
    PROVE  /\ missed' \subseteq {"list", "clock", "times", "reuse"}
           /\ misses' \in 0 .. MaxMisses /\ missed \subseteq missed'
<1>1. MaxMisses \in Nat /\ misses \in 0 .. MaxMisses
  BY ProcessAssumption DEF ProcTypeOK
<1>2. CASE NoMiss
  BY <1>2 DEF NoMiss, ProcTypeOK
<1>3. ASSUME NEW what \in {"list", "clock", "times", "reuse"}, Miss(what)
      PROVE  /\ missed' \subseteq {"list", "clock", "times", "reuse"}
             /\ misses' \in 0 .. MaxMisses /\ missed \subseteq missed'
  BY <1>1, <1>3 DEF Miss, ProcTypeOK
<1> QED
  BY <1>2, <1>3

LEMMA ProcNextInv == ProcInv /\ [ProcNext]_procVars => ProcInv'
<1> SUFFICES ASSUME ProcInv, [ProcNext]_procVars PROVE ProcInv'
  OBVIOUS
<1> USE DEF ProcInv
<1>0. Handled \in SUBSET Pids /\ Cardinality(Handled) \in Nat
  BY PidSets DEF Handled, Listed
<1>1. CASE ListProcesses
  <2>1. missed' = missed /\ misses' = misses
    BY <1>1 DEF ListProcesses, NoMiss
  <2>2. UNCHANGED <<os, proc, recorded, gap, spawns, sample, since, failures>> /\ found' = proc
    BY <1>1 DEF ListProcesses, host, kept
  <2>3. CASE os = "windows"
    <3>1. /\ at' = "clock" /\ handles' = handles + Cardinality(Handled')
          /\ instances' = [n \in Names |->
                 IF Named(proc, n) = {} THEN instances[n] ELSE Cardinality(Named(proc, n))]
      <4>1. Handled' = {p \in Pids : proc[p] # NoProc /\ proc[p].open}
        BY <2>2 DEF Handled, Listed
      <4> QED
        BY <1>1, <2>3, <4>1 DEF ListProcesses
    <3>2. Cardinality(Handled') \in Nat /\ \A n \in Names : Cardinality(Named(proc, n)) \in Nat
      BY PidSets DEF Handled, Listed, Named
    <3>3. Cardinality(Handled) = 0
      BY <1>1, NothingHandled, FS_EmptySet DEF ListProcesses, ProcRounds
    <3>4. instances' \in [Names -> Nat]
      BY <3>1, <3>2 DEF ProcTypeOK
    <3>5. ProcTypeOK'
      BY <2>1, <2>2, <3>1, <3>2, <3>4 DEF ProcTypeOK
    <3> QED
      BY <2>1, <2>2, <2>3, <3>1, <3>2, <3>3, <3>5 DEF ProcRounds, ProcTypeOK
  <2>4. CASE os # "windows"
    <3>1. at' = "record" /\ UNCHANGED <<handles, instances>>
      BY <1>1, <2>4 DEF ListProcesses
    <3> QED
      BY <2>1, <2>2, <2>4, <3>1 DEF ProcTypeOK, ProcRounds
  <2> QED
    BY <2>3, <2>4
<1>2. CASE ListFails
  <2>1. missed' \subseteq {"list", "clock", "times", "reuse"} /\ misses' \in 0 .. MaxMisses
        /\ missed \subseteq missed'
    BY <1>2, MissType DEF ListFails
  <2>2. UNCHANGED <<os, proc, found, handles, sample, since, recorded, gap, spawns,
                    failures, instances>>
        /\ at = "list" /\ at' = "wait"
    BY <1>2 DEF ListFails, host, kept
  <2>3. Handled' = Handled
    BY <2>2 DEF Handled, Listed
  <2> QED
    BY <2>1, <2>2, <2>3 DEF ProcTypeOK, ProcRounds
<1>3. CASE ReadClock
  <2>1. UNCHANGED <<os, proc, found, handles, sample, since, recorded, gap, spawns,
                    instances, missed, misses>>
        /\ at = "clock" /\ at' = "record" /\ failures' = 0
    BY <1>3 DEF ReadClock, host, kept, NoMiss
  <2>2. Handled' = Handled
    BY <2>1 DEF Handled, Listed
  <2> QED
    BY <2>1, <2>2 DEF ProcTypeOK, ProcRounds
<1>4. CASE ClockFails
  <2>1. missed' \subseteq {"list", "clock", "times", "reuse"} /\ misses' \in 0 .. MaxMisses
    BY <1>4, MissType DEF ClockFails
  <2>2. "clock" \in missed' /\ found' = Nothing /\ at' = "wait" /\ at = "clock"
        /\ UNCHANGED <<os, proc, handles, recorded, gap, spawns, instances>>
    BY <1>4 DEF ClockFails, Miss, host
  <2>3. /\ failures' \in 0 .. 2 /\ since' \in {since, NoProc}
        /\ sample' \in [Pids -> 0 .. MaxTime]
    BY <1>4, ProcessAssumption DEF ClockFails, ProcTypeOK, kept
  <2>4. ProcTypeOK'
    BY <2>1, <2>2, <2>3 DEF ProcTypeOK, Nothing
  <2>5. Handled' = {}
    BY <2>2 DEF Handled, Listed, Nothing
  <2>6. Cardinality(Handled') = 0 /\ os # "linux"
    BY <2>2, <2>5, FS_EmptySet DEF ProcRounds
  <2> QED
    BY <2>2, <2>4, <2>6 DEF ProcRounds, ProcTypeOK
<1>5. CASE RecordWindows
  <2>1. missed' \subseteq {"list", "clock", "times", "reuse"} /\ misses' \in 0 .. MaxMisses
        /\ missed \subseteq missed'
    BY <1>5, MissType DEF RecordWindows
  <2>2. PICK read \in SUBSET Handled :
          sample' = [p \in Pids |-> SampleOf(read, p)] /\ CloseHandles(read)
    BY <1>5 DEF RecordWindows
  <2>3. /\ handles' = handles - Cardinality(Handled) /\ at' = "wait" /\ found' = Nothing
        /\ recorded' = Listed /\ gap' = 0 /\ since' = 0 /\ os = "windows"
        /\ UNCHANGED <<os, spawns, failures, instances>>
    BY <1>5, <2>2 DEF RecordWindows, Completed, CloseHandles
  <2>4. \A p \in Pids : SampleOf(read, p) \in 0 .. MaxTime
    BY ProcessAssumption DEF SampleOf, Handled, Listed, ProcTypeOK, Process
  <2>5. handles' \in Nat
    BY <1>0, <2>3 DEF ProcTypeOK, ProcRounds
  <2>6. proc' \in [Pids -> Process \cup {NoProc}]
    BY <1>5 DEF RecordWindows, Completed, ProcTypeOK, Process
  <2>7. ProcTypeOK'
    BY <2>1, <2>2, <2>3, <2>4, <2>5, <2>6, ProcessAssumption
       DEF ProcTypeOK, Nothing, Listed
  <2>8. Handled' = {}
    BY <2>3 DEF Handled, Listed, Nothing
  <2>9. Cardinality(Handled') = 0
    BY <2>8, FS_EmptySet
  <2> QED
    BY <1>0, <2>1, <2>3, <2>7, <2>9 DEF ProcRounds, ProcTypeOK
<1>6. CASE RecordLinux
  <2>1. missed' \subseteq {"list", "clock", "times", "reuse"} /\ misses' \in 0 .. MaxMisses
    BY <1>6, MissType DEF RecordLinux
  <2>2. /\ at' = "wait" /\ found' = Nothing
        /\ recorded' = Listed /\ gap' = 0 /\ os = "linux"
        /\ UNCHANGED <<os, spawns, handles, sample, since, failures>>
    BY <1>6 DEF RecordLinux, Completed, kept
  <2>3. proc' \in [Pids -> Process \cup {NoProc}]
    BY <1>6 DEF RecordLinux, Completed, ProcTypeOK, Process
  <2>4. instances' \in [Names -> Nat]
    <3>1. 0 .. Cardinality(Pids) * 2 \subseteq Nat
      BY PidSets
    <3> QED
      BY <1>6, <3>1 DEF RecordLinux
  <2>5. ProcTypeOK'
    BY <2>1, <2>2, <2>3, <2>4, ProcessAssumption DEF ProcTypeOK, Nothing, Listed
  <2> QED
    BY <2>2, <2>5 DEF ProcRounds
<1>7. CASE NextRound
  <2>1. /\ UNCHANGED <<os, proc, found, handles, sample, since, recorded, gap, spawns,
                       failures, instances, missed, misses>>
        /\ at = "wait" /\ at' = "list"
    BY <1>7 DEF NextRound, host, kept, NoMiss
  <2>2. Handled' = Handled
    BY <2>1 DEF Handled, Listed
  <2> QED
    BY <2>1, <2>2 DEF ProcTypeOK, ProcRounds
<1>8. CASE HostStep
  <2>1. missed' \subseteq {"list", "clock", "times", "reuse"} /\ misses' \in 0 .. MaxMisses
        /\ ("clock" \in missed' <=> "clock" \in missed)
    <3>1. NoMiss \/ Miss("reuse")
      BY <1>8 DEF HostStep, Spawn, End, Pass
    <3>2. missed' = missed \/ missed' = missed \cup {"reuse"}
      BY <3>1 DEF NoMiss, Miss
    <3>3. missed' \subseteq {"list", "clock", "times", "reuse"} /\ misses' \in 0 .. MaxMisses
      BY <3>1, MissType
    <3> QED
      BY <3>2, <3>3
  <2>2. UNCHANGED <<os, at, found, handles, failures, instances, recorded, sample>>
    BY <1>8 DEF HostStep, Spawn, End, Pass, kept
  <2>3. proc' \in [Pids -> Process \cup {NoProc}]
    <3>1. ASSUME NEW p \in Pids, Spawn(p) PROVE proc' \in [Pids -> Process \cup {NoProc}]
      <4>1. \A n \in Names : Born(n, os = "windows") \in Process
        BY ProcessAssumption DEF Born, Process
      <4> QED
        BY <3>1, <4>1 DEF Spawn, ProcTypeOK
    <3>2. ASSUME NEW p \in Pids, End(p) PROVE proc' \in [Pids -> Process \cup {NoProc}]
      BY <3>2 DEF End, ProcTypeOK
    <3>3. CASE Pass
      <4>1. PICK busy \in SUBSET {p \in Pids : os = "windows" /\ proc[p] # NoProc} :
              /\ \A p \in busy : proc[p].time < MaxTime
              /\ proc' = [p \in Pids |->
                    IF p \in busy THEN [proc[p] EXCEPT !.time = @ + 1] ELSE proc[p]]
        BY <3>3 DEF Pass
      <4>2. ASSUME NEW p \in busy PROVE [proc[p] EXCEPT !.time = @ + 1] \in Process
        <5>1. proc[p] \in Process /\ proc[p].time < MaxTime
          BY <4>1, <4>2 DEF ProcTypeOK
        <5>2. proc[p].time + 1 \in 0 .. MaxTime
          BY <5>1, ProcessAssumption DEF Process
        <5> QED
          BY <5>1, <5>2 DEF Process
      <4> QED
        BY <4>1, <4>2 DEF ProcTypeOK
    <3> QED
      BY <1>8, <3>1, <3>2, <3>3 DEF HostStep
  <2>4. since' \in Nat \cup {NoProc} /\ gap' \in 0 .. MaxGap /\ spawns' \in 0 .. MaxSpawns
    BY <1>8, ProcessAssumption DEF HostStep, Spawn, End, Pass, ProcTypeOK, kept
  <2>5. ProcTypeOK'
    BY <2>1, <2>2, <2>3, <2>4 DEF ProcTypeOK
  <2>6. Handled' = Handled
    BY <2>2 DEF Handled, Listed
  <2> QED
    BY <2>1, <2>2, <2>5, <2>6 DEF ProcRounds
<1>9. CASE UNCHANGED procVars
  <2>1. Handled' = Handled
    BY <1>9 DEF procVars, Handled, Listed
  <2> QED
    BY <1>9, <2>1 DEF procVars, ProcTypeOK, ProcRounds
<1> QED
  BY <1>1, <1>2, <1>3, <1>4, <1>5, <1>6, <1>7, <1>8, <1>9 DEF ProcNext, Round

(* Between rounds no handle of a process is open, unless a round was left  *)
(* early because the system time could not be had: those of the processes  *)
(* of a round are all closed at its end, whatever could be read of them.   *)
THEOREM HandlesClosedCorrect == ProcSpec => []HandlesClosed
<1>1. ProcInv => HandlesClosed
  <2> SUFFICES ASSUME ProcInv, at \in {"wait", "list"}, "clock" \notin missed
               PROVE  handles = 0
    BY DEF HandlesClosed
  <2>1. Cardinality(Handled) = 0
    BY NothingHandled, FS_EmptySet DEF ProcInv, ProcRounds
  <2> QED
    BY <2>1, ProcessAssumption DEF ProcInv, ProcRounds, ProcTypeOK
<1> QED
  BY <1>1, ProcInitInv, ProcNextInv, PTL DEF ProcSpec

(* What a sample is worth, unless a process has got the PID of another one *)
(* or its times could not be read: it is of a process of the last round    *)
(* that was completed, and what that one had used at the end of it.  Who   *)
(* has a PID of the round under way is the process that was listed.        *)
Known == missed \cap {"reuse", "times"} = {}
Worth(p) ==
    /\ sample[p] # 0 => p \in recorded
    /\ sample[p] # 0 /\ proc[p] # NoProc /\ proc[p].open => sample[p] = proc[p].mark
    /\ p \in Listed => proc[p] \in {found[p], NoProc}
    /\ p \in Handled /\ sample[p] # 0 => sample[p] = found[p].mark
Marked(f) == \A p \in Pids : f[p] # NoProc => f[p].mark <= f[p].time
TimeKept ==
    /\ os = "linux" => since = NoProc
    /\ since # NoProc => since = gap
CpuInv == Marked(proc) /\ Marked(found) /\ TimeKept /\ (Known => \A p \in Pids : Worth(p))

LEMMA KnownBefore == [ProcNext]_procVars /\ Known' => Known
  BY DEF ProcNext, procVars, Round, ListProcesses, ListFails, ReadClock, ClockFails,
         RecordWindows, RecordLinux, NextRound, HostStep, Spawn, End, Pass, Miss, NoMiss, Known

LEMMA CpuNext == ProcInv /\ CpuInv /\ [ProcNext]_procVars => CpuInv'
<1> SUFFICES ASSUME ProcInv, CpuInv, [ProcNext]_procVars PROVE CpuInv'
  OBVIOUS
<1> USE DEF ProcInv
<1>1. Known' => Known /\ \A p \in Pids : Worth(p)
  BY KnownBefore DEF CpuInv
<1>2. CASE ListProcesses
  <2>1. UNCHANGED <<os, proc, recorded, gap, sample, since>> /\ found' = proc
    BY <1>2 DEF ListProcesses, host, kept
  <2>2. Known' => \A p \in Pids : Worth(p)'
    BY <1>1, <2>1 DEF Worth, Listed, Handled
  <2> QED
    BY <2>1, <2>2 DEF CpuInv, Marked, TimeKept
<1>3. CASE ListFails \/ ReadClock \/ NextRound
  <2>1. UNCHANGED <<os, proc, recorded, gap, sample, since, found>>
    BY <1>3 DEF ListFails, ReadClock, NextRound, host, kept
  <2>2. Known' => \A p \in Pids : Worth(p)'
    BY <1>1, <2>1 DEF Worth, Listed, Handled
  <2> QED
    BY <2>1, <2>2 DEF CpuInv, Marked, TimeKept
<1>4. CASE ClockFails
  <2>1. UNCHANGED <<os, proc, recorded, gap>> /\ found' = Nothing
    BY <1>4 DEF ClockFails, host
  <2>2. since' \in {since, NoProc} /\ \A p \in Pids : sample'[p] \in {sample[p], 0}
    BY <1>4 DEF ClockFails, kept
  <2>3. Known' => \A p \in Pids : Worth(p)'
    BY <1>1, <2>1, <2>2 DEF Worth, Listed, Handled, Nothing
  <2> QED
    BY <2>1, <2>2, <2>3 DEF CpuInv, Marked, TimeKept, Nothing
<1>5. CASE RecordWindows
  <2>1. /\ os = "windows" /\ os' = os /\ since' = 0 /\ gap' = 0 /\ found' = Nothing
        /\ recorded' = Listed
        /\ proc' = [p \in Pids |-> IF proc[p] = NoProc THEN NoProc
                                   ELSE [proc[p] EXCEPT !.mark = proc[p].time]]
    BY <1>5 DEF RecordWindows, Completed
  <2>2. Marked(proc)'
    BY <2>1, ProcessAssumption DEF Marked, ProcTypeOK, Process
  <2>3. ASSUME Known', NEW p \in Pids PROVE Worth(p)'
    <3>1. sample'[p] = SampleOf(Handled, p)
      BY <1>5, <2>3 DEF RecordWindows, Miss, Known
    <3>2. p \notin Listed'
      BY <2>1 DEF Listed, Nothing
    <3>3. sample'[p] # 0 => p \in Listed
      BY <3>1 DEF SampleOf, Handled
    <3>4. ASSUME sample'[p] # 0, proc'[p] # NoProc, proc'[p].open
          PROVE  sample'[p] = proc'[p].mark
      <4>1. proc[p] # NoProc /\ proc[p] \in Process
        BY <2>1, <3>4 DEF ProcTypeOK
      <4>2. proc'[p].open = proc[p].open /\ proc'[p].mark = proc[p].time
        BY <2>1, <4>1 DEF Process
      <4>3. proc[p] = found[p] /\ p \in Listed
        BY <1>1, <2>3, <3>3, <3>4, <4>1 DEF Worth
      <4>4. p \in Handled
        BY <3>4, <4>2, <4>3 DEF Handled
      <4> QED
        BY <3>1, <4>2, <4>3, <4>4 DEF SampleOf
    <3> QED
      BY <2>1, <3>2, <3>3, <3>4 DEF Worth, Handled
  <2> QED
    BY <2>1, <2>2, <2>3 DEF CpuInv, TimeKept, Marked, Nothing
<1>6. CASE RecordLinux
  <2>1. /\ os = "linux" /\ os' = os /\ UNCHANGED <<sample, since>> /\ found' = Nothing
        /\ proc' = [p \in Pids |-> IF proc[p] = NoProc THEN NoProc
                                   ELSE [proc[p] EXCEPT !.mark = proc[p].time]]
    BY <1>6 DEF RecordLinux, Completed, kept
  <2>2. Marked(proc)'
    BY <2>1, ProcessAssumption DEF Marked, ProcTypeOK, Process
  <2>3. \A p \in Pids : sample'[p] = 0
    BY <2>1 DEF ProcRounds
  <2> QED
    BY <2>1, <2>2, <2>3 DEF CpuInv, TimeKept, Marked, Nothing, Worth, Listed, Handled
<1>7. ASSUME NEW q \in Pids, Spawn(q), UNCHANGED <<at, found, handles, failures, instances>>
      PROVE  CpuInv'
  <2>1. PICK n \in Names : proc' = [proc EXCEPT ![q] = Born(n, os = "windows")]
    BY <1>7 DEF Spawn
  <2>2. UNCHANGED <<os, recorded, gap, sample, since, found>> /\ proc[q] = NoProc
    BY <1>7 DEF Spawn, kept
  <2>3. Marked(proc)'
    BY <2>1 DEF Marked, CpuInv, Born, ProcTypeOK
  <2>4. ASSUME Known', NEW p \in Pids PROVE Worth(p)'
    <3>1. q \notin recorded \cup Listed
      BY <1>7, <2>4 DEF Spawn, Miss, Known
    <3>2. p # q => proc'[p] = proc[p]
      BY <2>1 DEF ProcTypeOK
    <3>3. Worth(p)
      BY <1>1, <2>4
    <3> QED
      BY <2>2, <3>1, <3>2, <3>3 DEF Worth, Listed, Handled
  <2> QED
    BY <2>2, <2>3, <2>4 DEF CpuInv, TimeKept, Marked
<1>8. ASSUME NEW q \in Pids, End(q), UNCHANGED <<at, found, handles, failures, instances>>
      PROVE  CpuInv'
  <2>1. UNCHANGED <<os, recorded, gap, sample, since, found>>
        /\ \A p \in Pids : proc'[p] \in {proc[p], NoProc}
    BY <1>8 DEF End, kept, ProcTypeOK
  <2>2. Known' => \A p \in Pids : Worth(p)'
    BY <1>1, <2>1 DEF Worth, Listed, Handled
  <2> QED
    BY <2>1, <2>2 DEF CpuInv, TimeKept, Marked
<1>9. ASSUME Pass, UNCHANGED <<at, found, handles, failures, instances>>
      PROVE  CpuInv'
  <2>1. /\ UNCHANGED <<os, recorded, sample, found>> /\ found = Nothing /\ gap' = gap + 1
        /\ since' = IF since = NoProc THEN NoProc ELSE since + 1
    BY <1>9 DEF Pass, ProcRounds
  <2>2. PICK busy \in SUBSET {p \in Pids : os = "windows" /\ proc[p] # NoProc} :
          proc' = [p \in Pids |->
            IF p \in busy THEN [proc[p] EXCEPT !.time = @ + 1] ELSE proc[p]]
    BY <1>9 DEF Pass
  <2>3. ASSUME NEW p \in Pids, proc'[p] # NoProc
        PROVE  /\ proc[p] # NoProc /\ proc'[p].open = proc[p].open
               /\ proc'[p].mark = proc[p].mark /\ proc'[p].mark <= proc'[p].time
    <3>1. proc[p] # NoProc /\ proc[p] \in Process
      BY <2>2, <2>3 DEF ProcTypeOK
    <3>2. proc[p].time \in Nat /\ proc[p].mark \in Nat /\ proc[p].mark <= proc[p].time
      BY <3>1, ProcessAssumption DEF Process, CpuInv, Marked
    <3>3. CASE p \in busy
      <4>1. proc'[p] = [proc[p] EXCEPT !.time = @ + 1]
        BY <2>2, <3>3
      <4>2. proc'[p].open = proc[p].open /\ proc'[p].mark = proc[p].mark
            /\ proc'[p].time = proc[p].time + 1
        BY <3>1, <4>1 DEF Process
      <4> QED
        BY <3>1, <3>2, <4>2
    <3>4. CASE p \notin busy
      BY <2>2, <3>1, <3>2, <3>4
    <3> QED
      BY <3>3, <3>4
  <2>4. TimeKept'
    BY <2>1, ProcessAssumption DEF CpuInv, TimeKept, ProcTypeOK
  <2>5. ASSUME Known', NEW p \in Pids PROVE Worth(p)'
    BY <1>1, <2>1, <2>3, <2>5 DEF Worth, Listed, Handled, Nothing
  <2> QED
    BY <2>1, <2>3, <2>4, <2>5 DEF CpuInv, Marked
<1>10. CASE UNCHANGED procVars
  <2>1. Known' => \A p \in Pids : Worth(p)'
    BY <1>1, <1>10 DEF procVars, Worth, Listed, Handled
  <2> QED
    BY <1>10, <2>1 DEF procVars, CpuInv, Marked, TimeKept
<1> QED
  BY <1>2, <1>3, <1>4, <1>5, <1>6, <1>7, <1>8, <1>9, <1>10 DEF ProcNext, Round, HostStep

(* The unsigned difference of two readings that have not gone back.        *)
LEMMA WrapFree ==
    ASSUME NEW l \in Nat, NEW a \in Nat, NEW b \in Nat, b <= a, a < l
    PROVE  (a + l - b) % l = a - b
<1>1. a + l - b = (a - b) + l /\ a - b \in 0 .. l - 1 /\ l > 0
  OBVIOUS
<1> QED
  BY <1>1

(* No process is shown busier than it was since the last round that was    *)
(* completed, nor over less time, whatever failed since then.              *)
THEOREM CpuShownIsRealCorrect == ProcSpec => []CpuShownIsReal
<1>1. ProcInit => CpuInv
  <2> SUFFICES ASSUME ProcInit PROVE CpuInv
    OBVIOUS
  <2>1. ASSUME NEW p \in Pids, proc[p] # NoProc PROVE proc[p].mark <= proc[p].time
    BY <2>1 DEF ProcInit, Born
  <2> QED
    BY <2>1 DEF ProcInit, CpuInv, Marked, TimeKept, Worth, Listed, Handled, Nothing
<1>2. ProcInv /\ CpuInv => CpuShownIsReal
  <2> SUFFICES ASSUME ProcInv, CpuInv, Known, NEW p \in Handled, ShareOf(p).delta > 0
               PROVE  /\ ShareOf(p).delta <= found[p].time - found[p].mark
                      /\ ShareOf(p).over >= gap
    BY DEF CpuShownIsReal, Known
  <2>1. since # NoProc /\ since # 0 /\ sample[p] # 0
    BY DEF ShareOf, NoShare
  <2>2. p \in Pids /\ found[p] \in Process /\ found[p].mark <= found[p].time
    BY DEF Handled, Listed, ProcInv, ProcTypeOK, CpuInv, Marked
  <2>3. sample[p] = found[p].mark
    BY <2>1, <2>2 DEF CpuInv, Worth
  <2>4. /\ found[p].mark \in Nat /\ found[p].time \in Nat
        /\ found[p].time < Limit /\ Limit \in Nat
    BY <2>2, ProcessAssumption DEF Process
  <2>5. (found[p].time + Limit - found[p].mark) % Limit = found[p].time - found[p].mark
    BY <2>2, <2>4, WrapFree
  <2>6. Difference(found[p].time, sample[p]) = found[p].time - found[p].mark
    BY <2>3, <2>5 DEF Difference
  <2>7. since = gap /\ since \in Nat
    BY <2>1 DEF CpuInv, TimeKept, ProcInv, ProcTypeOK
  <2>8. LET d == Difference(found[p].time, sample[p]) IN
        ShareOf(p) = [delta |-> IF d > since THEN since ELSE d, over |-> since]
    BY <2>1 DEF ShareOf
  <2>9. /\ ShareOf(p).over = since
        /\ ShareOf(p).delta = IF Difference(found[p].time, sample[p]) > since
                              THEN since ELSE Difference(found[p].time, sample[p])
    BY <2>8
  <2> QED
    BY <2>2, <2>4, <2>6, <2>7, <2>9
<1> QED
  BY <1>1, <1>2, ProcInitInv, ProcNextInv, CpuNext, PTL DEF ProcSpec

(* The instances of a name that are shown are processes of the round, each *)
(* counted once, whatever could not be read of them: on Windows those that *)
(* are listed; on Linux those whose memory could be read, and at most one  *)
(* whose CPU alone could be.                                               *)
THEOREM InstancesRealCorrect == ProcSpec => InstancesReal
<1> DEFINE Real == \A n \in Names : instances'[n] # instances[n] =>
              instances'[n] \in 1 .. Cardinality(
                  Named(IF at = "list" THEN found' ELSE found, n))
<1>1. ASSUME [ProcNext]_procVars PROVE Real
  <2> SUFFICES ASSUME NEW n \in Names, instances'[n] # instances[n]
               PROVE  instances'[n] \in 1 .. Cardinality(
                          Named(IF at = "list" THEN found' ELSE found, n))
    OBVIOUS
  <2>1. CASE ListProcesses
    <3>1. /\ instances'[n] = Cardinality(Named(proc, n)) /\ Named(proc, n) # {}
          /\ at = "list" /\ found' = proc
      BY <2>1 DEF ListProcesses
    <3>2. Named(proc, n) \in SUBSET Pids
      BY DEF Named
    <3>3. Cardinality(Named(proc, n)) \in Nat /\ Cardinality(Named(proc, n)) >= 1
      BY <3>1, <3>2, PidSets
    <3> QED
      BY <3>1, <3>3
  <2>2. CASE RecordLinux
    <3>1. PICK memory \in SUBSET Listed, share \in SUBSET Listed :
            instances'[n] \in InstancesOf(memory, share, n)
      BY <2>2 DEF RecordLinux
    <3> DEFINE all == Named(found, n)
               m == all \cap memory
               c == (all \cap share) \ m
    <3>2. all \in SUBSET Pids /\ m \in SUBSET Pids /\ m \in SUBSET all /\ c \in SUBSET all
      BY DEF Named
    <3>3. /\ Cardinality(m) \in Nat /\ Cardinality(all) \in Nat
          /\ Cardinality(m) <= Cardinality(all)
          /\ m # {} => Cardinality(m) >= 1
      BY <3>2, PidSets
    <3>4. \/ m # {} /\ instances'[n] = Cardinality(m)
          \/ c # {} /\ instances'[n] = Cardinality(m) + 1
      BY <3>1 DEF InstancesOf
    <3>5. c # {} => Cardinality(m) + 1 <= Cardinality(all)
      <4> SUFFICES ASSUME NEW p \in c PROVE Cardinality(m) + 1 <= Cardinality(all)
        OBVIOUS
      <4>1. p \notin m /\ IsFiniteSet(m)
        BY <3>2, PidSets
      <4>2. Cardinality(m \cup {p}) = Cardinality(m) + 1
        BY <4>1, FS_AddElement
      <4>3. m \cup {p} \in SUBSET all
        BY <3>2
      <4> QED
        BY <3>2, <4>2, <4>3, PidSets
    <3>6. at # "list"
      BY <2>2 DEF RecordLinux
    <3> HIDE DEF all, m, c
    <3>7. instances'[n] \in 1 .. Cardinality(all)
      BY <3>3, <3>4, <3>5
    <3> QED
      BY <3>6, <3>7 DEF all
  <2>3. CASE ~ ListProcesses /\ ~ RecordLinux
    BY <1>1, <2>3 DEF ProcNext, Round, ListFails, ReadClock, ClockFails, RecordWindows, NextRound,
       HostStep, procVars
  <2> QED
    BY <2>1, <2>2, <2>3
<1>2. [ProcNext]_procVars => [Real]_procVars
  BY <1>1
<1> QED
  BY <1>2, PTL DEF ProcSpec, InstancesReal

-----------------------------------------------------------------------------
(* The health of disks *)

(* An answer that is awaited is of a disk that has yet to be shown.        *)
AnswerOf ==
    stage = "answered" =>
        /\ answer \in [bay : Bays, status : Statuses]
        /\ seen[answer.bay] \in Disks

DiskInv == DiskTypeOK /\ AnswerOf

LEMMA DiskInitInv == DiskInit => DiskInv
<1> SUFFICES ASSUME DiskInit PROVE DiskInv
  OBVIOUS
<1>1. /\ inBay \in [Bays -> Disks] /\ failing \subseteq Disks
      /\ mounted \subseteq Bays /\ tools \subseteq {"smartctl", "nvme"}
      /\ stage = "list" /\ due \in BOOLEAN
      /\ verdicts \subseteq Disks \X Statuses
  BY DEF DiskInit
<1>2. /\ lastGood \in [Bays -> 0 .. CacheTicks]
      /\ seen \in [Bays -> Disks \cup {NoDisk}]
      /\ cache \in [Bays -> [status : Statuses, age : 0 .. CacheTicks] \cup {NoDisk}]
      /\ met \subseteq Hazards /\ faults \in 0 .. MaxHazards
  BY DiskAssumption DEF DiskInit
<1> QED
  BY <1>1, <1>2 DEF DiskInit, DiskInv, DiskTypeOK, AnswerOf

LEMMA MeetType ==
    ASSUME DiskTypeOK, AllWell \/ \E sort \in Hazards : Meet(sort)
    PROVE  met' \subseteq Hazards /\ faults' \in 0 .. MaxHazards /\ met \subseteq met'
<1>1. CASE AllWell
  BY <1>1 DEF AllWell, DiskTypeOK
<1>2. ASSUME NEW sort \in Hazards, Meet(sort)
      PROVE  met' \subseteq Hazards /\ faults' \in 0 .. MaxHazards /\ met \subseteq met'
  BY <1>2, DiskAssumption DEF Meet, DiskTypeOK
<1> QED
  BY <1>1, <1>2

(* What a query may answer: a status, and only of a healthy disk healthy.  *)
LEMMA QueryAnswers ==
    ASSUME NEW b, NEW answering, NEW s \in QueryDiskHealth(b, answering)
    PROVE  s \in Statuses /\ (s = "healthy" => ~ Fails(b))
<1>1. Smartctl(b) \subseteq Statuses \cup {""} /\ ("healthy" \in Smartctl(b) => ~ Fails(b))
  BY DEF Smartctl, Statuses
<1>2. NvmeCLI(b) \subseteq Statuses /\ ("healthy" \in NvmeCLI(b) => ~ Fails(b))
  BY DEF NvmeCLI, Statuses
<1> QED
  BY <1>1, <1>2 DEF QueryDiskHealth, Statuses

LEMMA OlderType == \A n \in 0 .. CacheTicks : Older(n) \in 0 .. CacheTicks
  BY DiskAssumption DEF Older

LEMMA DiskNextInv == DiskInv /\ [DiskNext]_diskVars => DiskInv'
<1> SUFFICES ASSUME DiskInv, [DiskNext]_diskVars PROVE DiskInv'
  OBVIOUS
<1> USE DEF DiskInv
<1>1. CASE RecordOnce
  <2>1. met' \subseteq Hazards /\ faults' \in 0 .. MaxHazards
    BY <1>1, MeetType DEF RecordOnce, Hazards
  <2>2. verdicts' \subseteq Disks \X Statuses /\ stage' \in {"done", "dead"}
    BY <1>1 DEF RecordOnce, DiskTypeOK
  <2> QED
    BY <1>1, <2>1, <2>2 DEF RecordOnce, DiskTypeOK, AnswerOf, machine, disks
<1>2. CASE ListDisks
  <2>1. met' \subseteq Hazards /\ faults' \in 0 .. MaxHazards
    BY <1>2, MeetType DEF ListDisks, Hazards
  <2>2. seen' \in [Bays -> Disks \cup {NoDisk}] /\ stage' \in {"check", "wait"}
    BY <1>2 DEF ListDisks, DiskTypeOK
  <2> QED
    BY <1>2, <2>1, <2>2 DEF ListDisks, DiskTypeOK, AnswerOf, machine, disks
<1>3. ASSUME NEW b \in Bays, ShowCached(b) PROVE DiskInv'
  <2>1. seen[b] \in Disks /\ cache[b].status \in Statuses
    BY <1>3 DEF ShowCached, Cached, DiskTypeOK
  <2> QED
    BY <1>3, <2>1 DEF ShowCached, Show, Set, AllWell, DiskTypeOK, AnswerOf, machine, disks
<1>4. ASSUME NEW b \in Bays, Ask(b) PROVE DiskInv'
  <2>1. met' \subseteq Hazards /\ faults' \in 0 .. MaxHazards
    BY <1>4, MeetType DEF Ask, Hazards
  <2>2. answer' \in [bay : Bays, status : Statuses] /\ answer'.bay = b
    BY <1>4, QueryAnswers DEF Ask
  <2>3. seen[b] \in Disks
    BY <1>4 DEF Ask, DiskTypeOK
  <2> QED
    BY <1>4, <2>1, <2>2, <2>3 DEF Ask, DiskTypeOK, AnswerOf, machine, disks
<1>5. ASSUME NEW b \in Bays, ShowAnswer(b) PROVE DiskInv'
  <2>1. answer.status \in Statuses /\ seen[b] \in Disks
    BY <1>5 DEF ShowAnswer, AnswerOf
  <2>2. [status |-> answer.status, age |-> 0] \in [status : Statuses, age : 0 .. CacheTicks]
    BY <2>1, DiskAssumption
  <2>3. cache' \in [Bays -> [status : Statuses, age : 0 .. CacheTicks] \cup {NoDisk}]
    BY <1>5, <2>2 DEF ShowAnswer, DiskTypeOK
  <2>4. verdicts' \subseteq Disks \X Statuses /\ seen' \in [Bays -> Disks \cup {NoDisk}]
    BY <1>5, <2>1 DEF ShowAnswer, Show, Set, DiskTypeOK
  <2> QED
    BY <1>5, <2>3, <2>4 DEF ShowAnswer, AllWell, DiskTypeOK, AnswerOf, machine, disks
<1>6. CASE AwaitTick
  BY <1>6 DEF AwaitTick, AllWell, DiskTypeOK, AnswerOf, machine, disks
<1>7. CASE PassTime
  <2>1. met' \subseteq Hazards /\ faults' \in 0 .. MaxHazards
    BY <1>7, MeetType DEF PassTime, Hazards
  <2>2. lastGood' \in [Bays -> 0 .. CacheTicks]
    BY <1>7, OlderType, DiskAssumption DEF PassTime, DiskTypeOK
  <2>3. cache' \in [Bays -> [status : Statuses, age : 0 .. CacheTicks] \cup {NoDisk}]
    <3>1. ASSUME NEW b \in Bays, cache[b] # NoDisk
          PROVE  [cache[b] EXCEPT !.age = Older(@)] \in [status : Statuses, age : 0 .. CacheTicks]
      <4>1. cache[b] \in [status : Statuses, age : 0 .. CacheTicks]
        BY <3>1 DEF DiskTypeOK
      <4> QED
        BY <4>1, OlderType
    <3> QED
      BY <1>7, <3>1 DEF PassTime
  <2> QED
    BY <1>7, <2>1, <2>2, <2>3 DEF PassTime, DiskTypeOK, AnswerOf, machine
<1>8. ASSUME NEW d \in Disks, BeginToFail(d) PROVE DiskInv'
  BY <1>8 DEF BeginToFail, AllWell, DiskTypeOK, AnswerOf, machine
<1>9. ASSUME NEW b \in Bays, SwapDisk(b) PROVE DiskInv'
  <2>1. met' \subseteq Hazards /\ faults' \in 0 .. MaxHazards
    BY <1>9, MeetType DEF SwapDisk, Hazards
  <2>2. inBay' \in [Bays -> Disks] /\ lastGood' \in [Bays -> 0 .. CacheTicks]
    BY <1>9, DiskAssumption DEF SwapDisk, DiskTypeOK
  <2> QED
    BY <1>9, <2>1, <2>2 DEF SwapDisk, DiskTypeOK, AnswerOf, machine
<1>10. CASE UNCHANGED diskVars
  BY <1>10 DEF diskVars, DiskTypeOK, AnswerOf
<1> QED
  BY <1>1, <1>2, <1>3, <1>4, <1>5, <1>6, <1>7, <1>8, <1>9, <1>10 DEF DiskNext, HealthStep

(* As long as no tool was slow to end and no disk was swapped, a disk that *)
(* is called healthy by a tool has just been so, and one that is called so *)
(* by the cache has been so within the age of the answer.                  *)
Dated == met \cap {"stalled", "swapped"} = {}
HealthInv ==
    /\ \A b \in Bays : ~ Fails(b) => lastGood[b] = 0
    /\ Dated => \A b \in Bays :
         /\ stage = "answered" /\ answer.bay = b /\ answer.status = "healthy" => lastGood[b] = 0
         /\ cache[b] # NoDisk /\ cache[b].status = "healthy" => lastGood[b] <= cache[b].age

LEMMA OlderKeeps ==
    \A m, n \in 0 .. CacheTicks : m <= n => Older(m) <= Older(n)
  BY DiskAssumption DEF Older

LEMMA HealthNext == DiskInv /\ HealthInv /\ [DiskNext]_diskVars => HealthInv'
<1> SUFFICES ASSUME DiskInv, HealthInv, [DiskNext]_diskVars PROVE HealthInv'
  OBVIOUS
<1> USE DEF DiskInv
<1>1. CASE RecordOnce \/ ListDisks \/ AwaitTick \/ UNCHANGED diskVars
  <2>1. /\ UNCHANGED <<disks, answer, cache>> /\ met \subseteq met'
        /\ stage' = "answered" => stage = "answered"
    BY <1>1 DEF RecordOnce, ListDisks, AwaitTick, diskVars, disks, Meet, AllWell
  <2> QED
    BY <2>1 DEF HealthInv, Dated, Fails, disks
<1>2. ASSUME NEW b \in Bays, ShowCached(b) PROVE HealthInv'
  BY <1>2 DEF ShowCached, HealthInv, Dated, Fails, disks, AllWell
<1>3. ASSUME NEW b \in Bays, Ask(b) PROVE HealthInv'
  <2>1. UNCHANGED <<disks, cache>> /\ met \subseteq met'
    BY <1>3 DEF Ask, Meet, AllWell
  <2>2. answer'.bay = b /\ (answer'.status = "healthy" => ~ Fails(b))
    BY <1>3, QueryAnswers DEF Ask
  <2> QED
    BY <2>1, <2>2 DEF HealthInv, Dated, Fails, disks
<1>4. ASSUME NEW b \in Bays, ShowAnswer(b) PROVE HealthInv'
  <2>1. /\ stage = "answered" /\ stage' = "check" /\ answer.bay = b
        /\ cache' = [cache EXCEPT ![b] = [status |-> answer.status, age |-> 0]]
        /\ UNCHANGED <<disks, met>>
    BY <1>4 DEF ShowAnswer, AllWell
  <2> QED
    BY <2>1 DEF HealthInv, Dated, Fails, disks, DiskTypeOK
<1>5. CASE PassTime
  <2>1. /\ UNCHANGED <<inBay, failing, stage, answer>>
        /\ stage = "answered" => "stalled" \in met'
        /\ met \subseteq met'
        /\ cache' = [b \in Bays |-> IF cache[b] = NoDisk THEN NoDisk
                                    ELSE [cache[b] EXCEPT !.age = Older(@)]]
        /\ lastGood' = [b \in Bays |-> IF Fails(b) THEN Older(lastGood[b]) ELSE 0]
    BY <1>5 DEF PassTime, Meet, AllWell
  <2>2. \A b \in Bays : ~ Fails(b)' => lastGood'[b] = 0
    BY <2>1 DEF Fails
  <2>3. ASSUME Dated', NEW b \in Bays, cache'[b] # NoDisk, cache'[b].status = "healthy"
        PROVE  lastGood'[b] <= cache'[b].age
    <3>1. cache[b] # NoDisk /\ cache[b] \in [status : Statuses, age : 0 .. CacheTicks]
      BY <2>1, <2>3 DEF DiskTypeOK
    <3>2. cache'[b].status = cache[b].status /\ cache'[b].age = Older(cache[b].age)
      BY <2>1, <3>1
    <3>3. lastGood[b] <= cache[b].age
      BY <2>1, <2>3, <3>1, <3>2 DEF HealthInv, Dated
    <3>4. lastGood[b] \in 0 .. CacheTicks /\ cache[b].age \in 0 .. CacheTicks
      BY <3>1 DEF DiskTypeOK
    <3>5. Older(lastGood[b]) <= Older(cache[b].age) /\ 0 <= Older(cache[b].age)
      BY <3>3, <3>4, OlderKeeps, OlderType, DiskAssumption
    <3> QED
      BY <2>1, <3>2, <3>5
  <2> QED
    BY <2>1, <2>2, <2>3 DEF HealthInv, Dated
<1>6. ASSUME NEW d \in Disks, BeginToFail(d) PROVE HealthInv'
  BY <1>6 DEF BeginToFail, AllWell, HealthInv, Dated, Fails
<1>7. ASSUME NEW b \in Bays, SwapDisk(b) PROVE HealthInv'
  <2>1. "swapped" \in met'
    BY <1>7 DEF SwapDisk, Meet
  <2>2. \A a \in Bays : ~ Fails(a)' => lastGood'[a] = 0
    BY <1>7 DEF SwapDisk, HealthInv, Fails, DiskTypeOK
  <2> QED
    BY <2>1, <2>2 DEF HealthInv, Dated
<1> QED
  BY <1>1, <1>2, <1>3, <1>4, <1>5, <1>6, <1>7 DEF DiskNext, HealthStep

(* A disk that is called healthy on Linux was healthy less than a minute   *)
(* ago, unless a tool was slow to end or a disk has been swapped.          *)
THEOREM HealthyIsRecentCorrect == DiskInit /\ [][DiskNext]_diskVars => HealthyIsRecent
<1> DEFINE Recent == \A b \in Bays : Calls(b, "healthy") =>
              lastGood[b] < CacheTicks \/ met \cap {"stalled", "swapped"} # {}
<1>1. DiskInit => HealthInv
  BY DEF DiskInit, HealthInv
<1>2. DiskInv /\ HealthInv => Recent
  <2> SUFFICES ASSUME DiskInv, HealthInv, Dated, NEW b \in Bays, Calls(b, "healthy")
               PROVE  lastGood[b] < CacheTicks
    BY DEF Dated
  <2>1. lastGood[b] \in Nat /\ CacheTicks \in Nat \ {0}
    BY DiskAssumption DEF DiskInv, DiskTypeOK
  <2>2. CASE ShowCached(b)
    <3>1. /\ cache[b] # NoDisk /\ cache[b].age < CacheTicks
          /\ cache[b].status = "healthy"
      BY <2>2 DEF ShowCached, Cached, Calls
    <3>2. cache[b].age \in 0 .. CacheTicks /\ lastGood[b] <= cache[b].age
      BY <3>1 DEF HealthInv, DiskInv, DiskTypeOK
    <3> QED
      BY <2>1, <3>1, <3>2
  <2>3. CASE ShowAnswer(b)
    <3>1. stage = "answered" /\ answer.bay = b /\ answer.status = "healthy"
      BY <2>3 DEF ShowAnswer, Calls
    <3> QED
      BY <2>1, <3>1 DEF HealthInv
  <2> QED
    BY <2>2, <2>3 DEF Calls
<1>3. DiskInv /\ HealthInv => [Recent]_diskVars
  BY <1>2
<1> QED
  BY <1>1, <1>3, DiskInitInv, DiskNextInv, HealthNext, PTL DEF HealthyIsRecent

-----------------------------------------------------------------------------
(* The names of interfaces *)

LEMMA NamesInitType == NamesInit => NamesTypeOK
  BY NamesAssumption DEF NamesInit, NamesTypeOK, Labels

LEMMA NameType ==
    ASSUME NamesTypeOK, NEW s \in Slots, NEW source \in {Source, "PCI", "none"}
    PROVE  NameOf(s, source) \in Labels
<1>1. source \in {"lspci", "PCI", "none"}
  BY DEF Source
<1>2. CASE source = "none" \/ slot[s] = NoAdapter \/ model[slot[s]] = NoModel
  BY <1>2 DEF NameOf, Labels
<1>3. CASE ~ (source = "none" \/ slot[s] = NoAdapter \/ model[slot[s]] = NoModel)
  BY <1>1, <1>3 DEF NameOf, Labels, NamesTypeOK
<1> QED
  BY <1>2, <1>3

LEMMA NamesNextType == NamesTypeOK /\ [NamesNext]_namesVars => NamesTypeOK'
<1> SUFFICES ASSUME NamesTypeOK, [NamesNext]_namesVars PROVE NamesTypeOK'
  OBVIOUS
<1>0. ASSUME NoChange \/ Change PROVE changes' \in 0 .. MaxChanges
  BY <1>0, NamesAssumption DEF NoChange, Change, NamesTypeOK
<1>1. CASE ListInterfaces
  <2>1. interfaces' \in [Slots -> {NoAdapter, 0, 1}] /\ phase' = "show"
    BY <1>1 DEF ListInterfaces, NamesTypeOK
  <2> QED
    BY <1>0, <1>1, <2>1 DEF ListInterfaces, NamesTypeOK, slots
<1>2. CASE ShowStatus
  <2>1. PICK s \in Slots :
          /\ interfaces[s] # NoAdapter
          /\ FriendlyInterfaceName
          /\ networkStatus' = [networkStatus EXCEPT ![ifaceNameCache'[s]] = interfaces[s]]
          /\ interfaces' = [interfaces EXCEPT ![s] = NoAdapter]
    BY <1>2 DEF ShowStatus
  <2>2. /\ ifaceNameCache' \in [Slots -> Labels] /\ expiry' \in 0 .. Minutes
        /\ NoChange \/ Change
    <3>1. CASE ~ Expired
      BY <2>1, <3>1 DEF FriendlyInterfaceName, NamesTypeOK
    <3>2. CASE Expired
      <4>1. PICK source \in {Source, "PCI", "none"} :
              /\ ifaceNameCache' = LoadInterfaceNames(source)
              /\ NoChange \/ Change
              /\ expiry' = Minutes
        BY <2>1, <3>2 DEF FriendlyInterfaceName
      <4> QED
        BY <4>1, NameType, NamesAssumption DEF LoadInterfaceNames
    <3> QED
      BY <3>1, <3>2
  <2>3. networkStatus' \in [Labels -> {NoAdapter, 0, 1}]
        /\ interfaces' \in [Slots -> {NoAdapter, 0, 1}]
    BY <2>1 DEF NamesTypeOK
  <2> QED
    BY <1>0, <1>2, <2>2, <2>3 DEF ShowStatus, NamesTypeOK, slots
<1>3. CASE NextTick
  BY <1>0, <1>3 DEF NextTick, NamesTypeOK, slots
<1>4. CASE PassMinute
  <2>1. expiry' \in 0 .. Minutes
    BY <1>4, NamesAssumption DEF PassMinute, NamesTypeOK
  <2> QED
    BY <1>0, <1>4, <2>1 DEF PassMinute, NamesTypeOK, slots
<1>5. CASE Rewire
  <2>1. slot' \in [Slots -> Adapters \cup {NoAdapter}] /\ isUp' \subseteq Slots
    BY <1>5 DEF Rewire, Plug, Unplug, SwitchLink, NamesTypeOK
  <2> QED
    BY <1>0, <1>5, <2>1 DEF Rewire, NamesTypeOK
<1>6. CASE UNCHANGED namesVars
  BY <1>6 DEF namesVars, NamesTypeOK
<1> QED
  BY <1>1, <1>2, <1>3, <1>4, <1>5, <1>6 DEF NamesNext, NamesStep

-----------------------------------------------------------------------------
(* Gauges *)

LEMMA GaugesInitType == GaugesInit => GaugesTypeOK
  BY GaugesAssumption DEF GaugesInit, GaugesTypeOK

LEMMA GaugesNextType == GaugesTypeOK /\ [GaugesNext]_gaugeVars => GaugesTypeOK'
  BY GaugesAssumption
     DEF GaugesTypeOK, GaugesNext, GaugeStep, Prepare, SampleGauge, SampleFails, Resume, Vary,
         Answered, Refused, gaugeVars

-----------------------------------------------------------------------------
(* The samplers together *)

(* Each sampler runs as it does alone, whichever of them is looked at: the *)
(* goroutines of Collector.Start share nothing.                            *)
THEOREM SamplersIndependent ==
    SamplersSpec => /\ Spec /\ ProcSpec
                    /\ DiskInit /\ [][DiskNext]_diskVars
                    /\ NamesInit /\ [][NamesNext]_namesVars
                    /\ GaugesInit /\ [][GaugesNext]_gaugeVars
<1>1. SamplersInit => Init /\ ProcInit /\ DiskInit /\ NamesInit /\ GaugesInit
  BY DEF SamplersInit
<1>2. [SamplersNext]_allVars => /\ [Next]_vars /\ [ProcNext]_procVars
                                /\ [DiskNext]_diskVars /\ [NamesNext]_namesVars
                                /\ [GaugesNext]_gaugeVars
  BY DEF SamplersNext, OnlyCounters, OnlyProcesses, OnlyHealth, OnlyNames, OnlyGauges, allVars
<1> QED
  BY <1>1, <1>2, PTL DEF SamplersSpec, Spec, ProcSpec

(* The variables of all samplers have their types.                         *)
THEOREM SamplersTypeCorrect == SamplersSpec => []SamplersTypeOK
<1> DEFINE Names5 == sampler \in {"counters", "processes", "health", "names", "gauges"}
<1>1. SamplersInit => Names5
  BY DEF SamplersInit
<1>2. Names5 /\ [SamplersNext]_allVars => Names5'
  BY DEF SamplersNext, OnlyCounters, OnlyProcesses, OnlyHealth, OnlyNames, OnlyGauges, allVars
<1>3. SamplersSpec => []Names5
  BY <1>1, <1>2, PTL DEF SamplersSpec
<1>4. Spec => []TypeOK
  BY CounterTypeCorrect
<1>5. ProcSpec => []ProcTypeOK
  <2>1. ProcInv => ProcTypeOK
    BY DEF ProcInv
  <2> QED
    BY <2>1, ProcInitInv, ProcNextInv, PTL DEF ProcSpec
<1>6. DiskInit /\ [][DiskNext]_diskVars => []DiskTypeOK
  <2>1. DiskInv => DiskTypeOK
    BY DEF DiskInv
  <2> QED
    BY <2>1, DiskInitInv, DiskNextInv, PTL
<1>7. NamesInit /\ [][NamesNext]_namesVars => []NamesTypeOK
  BY NamesInitType, NamesNextType, PTL
<1>8. GaugesInit /\ [][GaugesNext]_gaugeVars => []GaugesTypeOK
  BY GaugesInitType, GaugesNextType, PTL
<1>9. Names5 /\ TypeOK /\ ProcTypeOK /\ DiskTypeOK /\ NamesTypeOK /\ GaugesTypeOK
        => SamplersTypeOK
  BY DEF SamplersTypeOK
<1> QED
  BY <1>3, <1>4, <1>5, <1>6, <1>7, <1>8, <1>9, SamplersIndependent, PTL

(* What holds of each sampler holds of the samplers together.              *)
THEOREM SamplersCorrect ==
    SamplersSpec => /\ [](GuardedErrors /\ RateWithinSpeed)
                    /\ [](HandlesClosed /\ CpuShownIsReal)
                    /\ InstancesReal /\ HealthyIsRecent
<1>1. (Spec => []GuardedErrors) /\ (Spec => []RateWithinSpeed)
  BY GuardedErrorsCorrect, RateWithinSpeedCorrect
<1>2. (ProcSpec => []HandlesClosed) /\ (ProcSpec => []CpuShownIsReal)
      /\ (ProcSpec => InstancesReal)
  BY HandlesClosedCorrect, CpuShownIsRealCorrect, InstancesRealCorrect
<1>3. DiskInit /\ [][DiskNext]_diskVars => HealthyIsRecent
  BY HealthyIsRecentCorrect
<1> QED
  BY <1>1, <1>2, <1>3, SamplersIndependent, PTL
=============================================================================

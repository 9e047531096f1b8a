------------------------ MODULE CounterSampler_proofs ------------------------
(***************************************************************************)
(* Proofs about CounterSampler, for any devices, speeds, numbers of faults *)
(* of every sort and for any width of the counters that they fit into.     *)
(***************************************************************************)
EXTENDS CounterSampler, TLAPS

(* The subtraction of uint64 is right as long as the counter has not gone  *)
(* back, and never leaves the type.                                        *)
LEMMA MinusType ==
    \A a, b \in 0 .. Width - 1 :
        /\ Minus(a, b) \in 0 .. Width - 1
        /\ b <= a => Minus(a, b) = a - b
<1> SUFFICES ASSUME NEW a \in 0 .. Width - 1, NEW b \in 0 .. Width - 1
             PROVE  /\ Minus(a, b) \in 0 .. Width - 1
                    /\ b <= a => Minus(a, b) = a - b
  OBVIOUS
<1>1. Width \in Nat /\ Width > 0
  BY BoundsAssumption
<1>2. a + Width - b \in Nat
  BY <1>1
<1>3. (a + Width - b) % Width \in 0 .. Width - 1
  BY <1>1, <1>2
<1>4. ASSUME b <= a PROVE (a + Width - b) % Width = a - b
  BY <1>1, <1>4
<1> QED
  BY <1>3, <1>4 DEF Minus

(* What a device may carry in some ticks.                                  *)
LEMMA SpeedTimes ==
    /\ Speed \in Nat
    /\ \A n \in Nat : Speed * n \in Nat /\ Speed * (n + 1) = Speed * n + Speed
    /\ \A m, n \in Nat : m <= n => Speed * m <= Speed * n
  BY BoundsAssumption

-----------------------------------------------------------------------------
(* Types *)

(* A counter never shows more than the device ever carried and got wrong,  *)
(* so that it does not wrap around by itself.                              *)
Counted == \A d \in Devices :
    counters[d].bytes <= carried[d] /\ counters[d].errs <= occurred[d]

(* Only the inventory of disks on Windows comes before the rounds, and     *)
(* only its failure ends a sampler.                                        *)
Rounds ==
    /\ loop = "inventory" => kind = "diskWindows" /\ \A d \in Devices : prev[d] = None
    /\ loop = "dead" => "fail" \in happened /\ kind = "diskWindows"

TypeInv == TypeOK /\ Counted /\ Rounds

LEMMA InitType == Init => TypeInv
<1> SUFFICES ASSUME Init PROVE TypeInv
  OBVIOUS
<1>1. Fresh \in Sample /\ Fresh.bytes = 0 /\ Fresh.errs = 0
  BY BoundsAssumption DEF Fresh, Sample
<1>2. /\ kind \in Kinds /\ link \in [Devices -> {"absent", "down", "up"}]
      /\ loop \in {"inventory", "list"} /\ (loop = "inventory" => kind = "diskWindows")
  BY DEF Init
<1>3. /\ counters \in [Devices -> Sample]
      /\ carried \in [Devices -> 0 .. MaxBytes] /\ occurred \in [Devices -> 0 .. MaxErrors]
      /\ age \in [Devices -> 0 .. MaxAge] /\ spent \in 0 .. MaxFaults
  BY <1>1, BoundsAssumption DEF Init
<1>4. Counted
  BY <1>1 DEF Init, Counted
<1> QED
  BY <1>2, <1>3, <1>4 DEF Init, TypeInv, TypeOK, Rounds, Faults

(* What the faults cost, and what they are.                                *)
LEMMA FaultType ==
    ASSUME TypeOK, NoFault \/ \E sort \in Faults : Fault(sort) \/ Consequence(sort)
    PROVE  /\ happened' \subseteq Faults /\ spent' \in 0 .. MaxFaults
           /\ happened \subseteq happened' /\ spent <= spent'
  BY BoundsAssumption DEF TypeOK, Fault, NoFault, Consequence

(* Each way of recording keeps the types of what is kept and shown.        *)
LEMMA RecordType ==
    ASSUME TypeOK, loop = "record",
           RecordNetLinux \/ RecordNetWindows \/ RecordDiskLinux \/ RecordDiskWindows
    PROVE  /\ prev' \in [Devices -> Sample \cup {None}]
           /\ age' \in [Devices -> 0 .. MaxAge]
           /\ rate' \in [Devices -> [delta : 0 .. Width - 1, over : 1 .. MaxAge] \cup {None}]
           /\ total' \in [Devices -> Nat]
           /\ status' \in [Devices -> {None, 0, 1}]
<1> DEFINE Rates == [delta : 0 .. Width - 1, over : 1 .. MaxAge] \cup {None}
<1>1. Zero \in Rates /\ 0 \in 0 .. MaxAge
  BY BoundsAssumption DEF Zero
<1>2. \A d \in Got : snapshot[d] \in Sample
  BY DEF Got, TypeOK
<1>3. \A d \in Devices : Was(d) => prev[d] \in Sample
  BY DEF Was, TypeOK
<1>4. ASSUME NEW d \in Got, Was(d)
      PROVE  /\ Minus(snapshot[d].bytes, prev[d].bytes) \in 0 .. Width - 1
             /\ Minus(snapshot[d].errs, prev[d].errs) \in Nat
             /\ ErrorDelta(d) \in Nat
  <2>1. snapshot[d] \in Sample /\ prev[d] \in Sample
    BY <1>2, <1>3, <1>4 DEF Got
  <2>2. /\ snapshot[d].bytes \in 0 .. Width - 1 /\ prev[d].bytes \in 0 .. Width - 1
        /\ snapshot[d].errs \in 0 .. Width - 1 /\ prev[d].errs \in 0 .. Width - 1
    BY <2>1 DEF Sample
  <2>3. /\ Minus(snapshot[d].bytes, prev[d].bytes) \in 0 .. Width - 1
        /\ Minus(snapshot[d].errs, prev[d].errs) \in 0 .. Width - 1
    BY <2>2, MinusType
  <2> QED
    BY <2>3, BoundsAssumption DEF ErrorDelta
<1>5. \A d \in Devices : Elapsed(d) \in 1 .. MaxAge
  BY BoundsAssumption DEF Elapsed, TypeOK
<1>6. ASSUME NEW d \in Got, Was(d), NEW over \in 1 .. MaxAge
      PROVE  RateOver(d, over) \in Rates
  BY <1>4, <1>6 DEF RateOver
<1>7. 1 \in 1 .. MaxAge
  BY BoundsAssumption
<1>8. ASSUME NEW new \in SUBSET Got, Keep(new) \/ Replace(new)
      PROVE  /\ prev' \in [Devices -> Sample \cup {None}]
             /\ age' \in [Devices -> 0 .. MaxAge]
  BY <1>1, <1>2, <1>8 DEF Keep, Replace, Got, TypeOK
<1> HIDE DEF Rates
<1>9. CASE RecordNetLinux
  <2>1. rate' \in [Devices -> Rates]
    BY <1>1, <1>5, <1>6, <1>9 DEF RecordNetLinux, Got, TypeOK, Rates
  <2>2. total' \in [Devices -> Nat]
    BY <1>4, <1>9 DEF RecordNetLinux, Got, TypeOK
  <2>3. status' \in [Devices -> {None, 0, 1}]
    BY <1>9 DEF RecordNetLinux, TypeOK
  <2> QED
    BY <1>8, <1>9, <2>1, <2>2, <2>3 DEF RecordNetLinux, Rates
<1>10. CASE RecordNetWindows
  <2>1. rate' \in [Devices -> Rates]
    BY <1>6, <1>7, <1>10 DEF RecordNetWindows, Got, TypeOK, Rates
  <2>2. total' \in [Devices -> Nat]
    BY <1>4, <1>10 DEF RecordNetWindows, Got, TypeOK
  <2> QED
    BY <1>8, <1>10, <2>1, <2>2 DEF RecordNetWindows, TypeOK, Rates
<1>11. CASE RecordDiskLinux
  <2>1. rate' \in [Devices -> Rates]
    BY <1>1, <1>5, <1>6, <1>11 DEF RecordDiskLinux, Got, TypeOK, Rates
  <2> QED
    BY <1>8, <1>11, <2>1 DEF RecordDiskLinux, TypeOK, Rates
<1>12. CASE RecordDiskWindows
  <2>1. rate' \in [Devices -> Rates]
    BY <1>6, <1>7, <1>12 DEF RecordDiskWindows, Got, TypeOK, Rates
  <2> QED
    BY <1>8, <1>12, <2>1 DEF RecordDiskWindows, TypeOK, Rates
<1> QED
  BY <1>9, <1>10, <1>11, <1>12

(* A tick changes what devices carried and what their counters show alike. *)
LEMMA TickEffect ==
    ASSUME TypeInv, Tick
    PROVE  \E b \in [Devices -> 0 .. Speed], e \in [Devices -> {0, 1}] :
             \A d \in Devices :
               /\ counters'[d] \in Sample
               /\ counters'[d].bytes = counters[d].bytes + b[d]
               /\ counters'[d].errs = counters[d].errs + e[d]
               /\ carried'[d] = carried[d] + b[d] /\ carried'[d] \in 0 .. MaxBytes
               /\ occurred'[d] = occurred[d] + e[d] /\ occurred'[d] \in 0 .. MaxErrors
               /\ link[d] # "up" => b[d] = 0
<1>1. PICK b \in [Devices -> 0 .. Speed], e \in [Devices -> {0, 1}] :
         /\ \A d \in Devices : Work(d, b[d], e[d])
         /\ counters' = [d \in Devices |-> [bytes |-> counters[d].bytes + b[d],
                                            errs |-> counters[d].errs + e[d]]]
         /\ carried' = [d \in Devices |-> carried[d] + b[d]]
         /\ occurred' = [d \in Devices |-> occurred[d] + e[d]]
  BY DEF Tick
<1>2. ASSUME NEW d \in Devices
      PROVE  /\ counters'[d] \in Sample
             /\ counters'[d].bytes = counters[d].bytes + b[d]
             /\ counters'[d].errs = counters[d].errs + e[d]
             /\ carried'[d] = carried[d] + b[d] /\ carried'[d] \in 0 .. MaxBytes
             /\ occurred'[d] = occurred[d] + e[d] /\ occurred'[d] \in 0 .. MaxErrors
             /\ link[d] # "up" => b[d] = 0
  <2>1. /\ b[d] \in Nat /\ e[d] \in Nat /\ Work(d, b[d], e[d])
        /\ counters[d] \in Sample /\ carried[d] \in Nat /\ occurred[d] \in Nat
        /\ counters[d].bytes <= carried[d] /\ counters[d].errs <= occurred[d]
    BY <1>1, BoundsAssumption DEF TypeInv, TypeOK, Counted
  <2>2. counters[d].bytes \in Nat /\ counters[d].errs \in Nat
    BY <2>1, BoundsAssumption DEF Sample
  <2>3. /\ carried[d] + b[d] <= MaxBytes /\ occurred[d] + e[d] <= MaxErrors
        /\ link[d] # "up" => b[d] = 0
    BY <2>1 DEF Work
  <2>4. counters'[d] = [bytes |-> counters[d].bytes + b[d], errs |-> counters[d].errs + e[d]]
        /\ carried'[d] = carried[d] + b[d] /\ occurred'[d] = occurred[d] + e[d]
    BY <1>1
  <2> QED
    BY <2>1, <2>2, <2>3, <2>4, BoundsAssumption DEF Sample
<1> QED
  BY <1>2

(* Every step keeps the types.                                             *)
LEMMA NextType == TypeInv /\ [Next]_vars => TypeInv'
<1> SUFFICES ASSUME TypeInv, [Next]_vars PROVE TypeInv'
  OBVIOUS
<1> USE DEF TypeInv
<1>1. CASE Inventory
  <2>1. NoFault \/ Fault("fail")
    BY <1>1 DEF Inventory
  <2>2. happened' \subseteq Faults /\ spent' \in 0 .. MaxFaults
    BY <2>1, FaultType DEF Faults
  <2>3. TypeOK' /\ Counted'
    BY <1>1, <2>2 DEF Inventory, TypeOK, Counted, system, shown, samples
  <2>4. Rounds'
    BY <1>1 DEF Inventory, Rounds, Fault, samples
  <2> QED
    BY <2>3, <2>4
<1>2. CASE List
  <2>1. NoFault \/ Fault("fail") \/ Consequence("fail")
    BY <1>2 DEF List, FailRound
  <2>2. happened' \subseteq Faults /\ spent' \in 0 .. MaxFaults
    BY <2>1, FaultType DEF Faults
  <2>3. /\ listed' \subseteq Devices /\ status' \in [Devices -> {None, 0, 1}]
        /\ loop' \in {"read", "wait"} /\ ticked' \in BOOLEAN
    BY <1>2 DEF List, FailRound, EndRound, StatusOf, Present, TypeOK
  <2>4. TypeOK' /\ Counted'
    BY <1>2, <2>2, <2>3 DEF List, TypeOK, Counted, system, samples
  <2> QED
    BY <2>3, <2>4 DEF Rounds
<1>3. CASE Read
  <2>1. NoFault \/ Fault("fail")
    BY <1>3 DEF Read, FailRound
  <2>2. happened' \subseteq Faults /\ spent' \in 0 .. MaxFaults
    BY <2>1, FaultType DEF Faults
  <2>3. /\ snapshot' \in [Devices -> Sample \cup {None}]
        /\ loop' \in {"record", "wait"} /\ ticked' \in BOOLEAN
    BY <1>3 DEF Read, FailRound, EndRound, CountersOf, TypeOK
  <2>4. TypeOK' /\ Counted'
    BY <1>3, <2>2, <2>3 DEF Read, TypeOK, Counted, system, shown, samples
  <2> QED
    BY <2>3, <2>4 DEF Rounds
<1>4. CASE Record
  <2>1. /\ prev' \in [Devices -> Sample \cup {None}]
        /\ age' \in [Devices -> 0 .. MaxAge]
        /\ rate' \in [Devices -> [delta : 0 .. Width - 1, over : 1 .. MaxAge] \cup {None}]
        /\ total' \in [Devices -> Nat]
        /\ status' \in [Devices -> {None, 0, 1}]
    BY <1>4, RecordType DEF Record
  <2>2. /\ snapshot' \in [Devices -> Sample \cup {None}]
        /\ loop' = "wait" /\ ticked' \in BOOLEAN /\ listed' = {}
        /\ UNCHANGED <<kind, link, counters, carried, occurred, happened, spent>>
    BY <1>4 DEF Record, EndRound, NoFault, system, TypeOK
  <2>3. TypeOK' /\ Counted'
    BY <2>1, <2>2 DEF TypeOK, Counted
  <2> QED
    BY <2>2, <2>3 DEF Rounds
<1>5. CASE Wake
  <2>1. TypeOK' /\ Counted'
    BY <1>5 DEF Wake, TypeOK, Counted, NoFault, system, shown, samples
  <2> QED
    BY <1>5, <2>1 DEF Wake, Rounds
<1>6. CASE Tick
  <2>1. NoFault \/ Fault("slow") \/ Fault("stall")
    BY <1>6 DEF Tick
  <2>2. /\ happened' \subseteq Faults /\ spent' \in 0 .. MaxFaults
        /\ happened \subseteq happened'
    BY <2>1, FaultType DEF Faults
  <2>3. age' \in [Devices -> 0 .. MaxAge]
    BY <1>6, BoundsAssumption DEF Tick, TypeOK
  <2>4. PICK b \in [Devices -> 0 .. Speed], e \in [Devices -> {0, 1}] :
          \A d \in Devices :
            /\ counters'[d] \in Sample
            /\ counters'[d].bytes = counters[d].bytes + b[d]
            /\ counters'[d].errs = counters[d].errs + e[d]
            /\ carried'[d] = carried[d] + b[d] /\ carried'[d] \in 0 .. MaxBytes
            /\ occurred'[d] = occurred[d] + e[d] /\ occurred'[d] \in 0 .. MaxErrors
    BY <1>6, TickEffect
  <2>5. /\ counters' \in [Devices -> Sample]
        /\ carried' \in [Devices -> 0 .. MaxBytes]
        /\ occurred' \in [Devices -> 0 .. MaxErrors]
    BY <1>6, <2>4 DEF Tick
  <2>6. Counted'
    <3> SUFFICES ASSUME NEW d \in Devices
                 PROVE  counters'[d].bytes <= carried'[d] /\ counters'[d].errs <= occurred'[d]
      BY DEF Counted
    <3>1. /\ counters[d].bytes \in Nat /\ counters[d].errs \in Nat
          /\ carried[d] \in Nat /\ occurred[d] \in Nat
          /\ counters[d].bytes <= carried[d] /\ counters[d].errs <= occurred[d]
          /\ b[d] \in Nat /\ e[d] \in Nat
      BY BoundsAssumption DEF TypeOK, Counted, Sample
    <3> QED
      BY <2>4, <3>1
  <2>7. TypeOK'
    BY <1>6, <2>2, <2>3, <2>5 DEF Tick, TypeOK, shown
  <2> QED
    BY <1>6, <2>2, <2>6, <2>7 DEF Tick, Rounds
<1>7. CASE DeviceStep
  <2>1. NoFault \/ Fault("vanish") \/ Fault("reset")
    BY <1>7 DEF DeviceStep, Vanish, Return, Reset, Flap
  <2>2. /\ happened' \subseteq Faults /\ spent' \in 0 .. MaxFaults
        /\ happened \subseteq happened'
    BY <2>1, FaultType DEF Faults
  <2>3. Fresh \in Sample /\ Fresh.bytes = 0 /\ Fresh.errs = 0
    BY BoundsAssumption DEF Fresh, Sample
  <2>4. /\ link' \in [Devices -> {"absent", "down", "up"}]
        /\ counters' \in [Devices -> Sample]
    BY <1>7, <2>3 DEF DeviceStep, Vanish, Return, Reset, Flap, TypeOK
  <2>5. \A d \in Devices : counters'[d] = counters[d] \/ counters'[d] = Fresh
    BY <1>7 DEF DeviceStep, Vanish, Return, Reset, Flap, TypeOK
  <2>6. UNCHANGED <<kind, carried, occurred, loop, ticked, listed, snapshot,
                    rate, total, status, prev, age>>
    BY <1>7 DEF DeviceStep, shown, samples
  <2>7. TypeOK'
    BY <2>2, <2>4, <2>6 DEF TypeOK
  <2>8. Counted'
    BY <2>3, <2>5, <2>6, BoundsAssumption DEF Counted, TypeOK
  <2> QED
    BY <2>2, <2>6, <2>7, <2>8 DEF Rounds
<1>8. CASE UNCHANGED vars
  BY <1>8 DEF vars, TypeOK, Counted, Rounds
<1> QED
  BY <1>1, <1>2, <1>3, <1>4, <1>5, <1>6, <1>7, <1>8 DEF Next, SamplerStep

(* The type invariant: the rates, differences of unsigned integers of any  *)
(* width, stay within the width and are never divided by zero ticks.       *)
THEOREM CounterTypeCorrect == Spec => []TypeOK
<1>1. TypeInv => TypeOK
  BY DEF TypeInv
<1> QED
  BY <1>1, InitType, NextType, PTL DEF Spec

-----------------------------------------------------------------------------
(* Errors *)

(* The errors that are already in the total and those that the difference  *)
(* to the counters still is add up to no more than there have been; both   *)
(* when the difference is taken to the last sample and when it is taken    *)
(* to the one of this round, which the next round starts from.             *)
NoMoreErrors(d) ==
    /\ total[d] <= occurred[d]
    /\ prev[d] # None =>
         total[d] + counters[d].errs <= occurred[d] + prev[d].errs
    /\ snapshot[d] # None =>
         total[d] + counters[d].errs <= occurred[d] + snapshot[d].errs
    /\ prev[d] # None /\ snapshot[d] # None =>
         total[d] + snapshot[d].errs <= occurred[d] + prev[d].errs

(* Samples do not go back, as long as no counters do.                      *)
Ascending(d) ==
    /\ prev[d] # None =>
         prev[d].errs <= counters[d].errs /\ prev[d].bytes <= counters[d].bytes
    /\ snapshot[d] # None =>
         snapshot[d].errs <= counters[d].errs /\ snapshot[d].bytes <= counters[d].bytes
    /\ prev[d] # None /\ snapshot[d] # None =>
         prev[d].errs <= snapshot[d].errs /\ prev[d].bytes <= snapshot[d].bytes

NoReset == "reset" \notin happened
AscendInv == NoReset => \A d \in Devices : Ascending(d)
ErrorsInv == kind = "netWindows" \/ NoReset => \A d \in Devices : NoMoreErrors(d)

(* The numbers that the invariants of a device are about.                  *)
LEMMA DeviceNumbers ==
    ASSUME TypeInv, NEW d \in Devices
    PROVE  /\ total[d] \in Nat /\ occurred[d] \in Nat
           /\ counters[d].errs \in 0 .. Width - 1 /\ counters[d].bytes \in 0 .. Width - 1
           /\ counters[d].errs <= occurred[d]
           /\ prev[d] # None =>
                prev[d].errs \in 0 .. Width - 1 /\ prev[d].bytes \in 0 .. Width - 1
           /\ snapshot[d] # None =>
                snapshot[d].errs \in 0 .. Width - 1 /\ snapshot[d].bytes \in 0 .. Width - 1
  BY BoundsAssumption DEF TypeInv, TypeOK, Counted, Sample

(* Recording keeps the last sample or takes that of this round, in which   *)
(* case it may add the difference between them to the total.               *)
LEMMA RecordEffect ==
    ASSUME TypeInv, Record, NEW d \in Devices
    PROVE  \/ prev'[d] \in {prev[d], None} /\ total'[d] = total[d]
           \/ /\ snapshot[d] # None /\ prev'[d] = snapshot[d]
              /\ \/ total'[d] = total[d]
                 \/ /\ prev[d] # None /\ kind = "netLinux"
                    /\ total'[d] = total[d] + Minus(snapshot[d].errs, prev[d].errs)
                 \/ /\ prev[d] # None /\ kind = "netWindows"
                    /\ total'[d] = total[d] + ErrorDelta(d)
<1>1. total \in [Devices -> Nat]
  BY DEF TypeInv, TypeOK
<1>2. CASE RecordNetLinux
  BY <1>1, <1>2 DEF RecordNetLinux, Keep, Got, Was
<1>3. CASE RecordNetWindows
  BY <1>1, <1>3 DEF RecordNetWindows, Replace, Got, Was
<1>4. CASE RecordDiskLinux
  BY <1>1, <1>4 DEF RecordDiskLinux, Keep, Got, Was
<1>5. CASE RecordDiskWindows
  BY <1>1, <1>5 DEF RecordDiskWindows, Keep, Got, Was
<1> QED
  BY <1>2, <1>3, <1>4, <1>5 DEF Record

(* The steps between the samples: those of the round before it records,    *)
(* which only take the sample of the round.                                *)
LEMMA RoundEffect ==
    ASSUME TypeInv, Inventory \/ List \/ Read \/ Wake
    PROVE  /\ UNCHANGED <<kind, link, counters, carried, occurred, prev, age, rate, total>>
           /\ \A d \in Devices :
                snapshot'[d] = snapshot[d] \/ snapshot'[d] = counters[d] \/ snapshot'[d] = None
           /\ happened \subseteq happened'
<1>1. CASE Inventory
  BY <1>1 DEF Inventory, system, shown, samples, Fault, NoFault
<1>2. CASE List
  BY <1>2 DEF List, FailRound, EndRound, system, samples, Fault, NoFault, Consequence
<1>3. CASE Read
  BY <1>3 DEF Read, CountersOf, FailRound, EndRound, system, shown, samples,
              Fault, NoFault, TypeInv, TypeOK
<1>4. CASE Wake
  BY <1>4 DEF Wake, system, shown, samples, NoFault
<1> QED
  BY <1>1, <1>2, <1>3, <1>4

(* What a device or its link may do to the counters.                       *)
LEMMA DeviceEffect ==
    ASSUME TypeInv, DeviceStep
    PROVE  /\ UNCHANGED <<kind, occurred, loop, ticked, listed, snapshot,
                          rate, total, prev, age>>
           /\ happened \subseteq happened'
           /\ \A d \in Devices :
                \/ counters'[d] = counters[d]
                \/ /\ counters'[d].errs = 0 /\ counters'[d].bytes = 0
                   /\ "reset" \in happened'
<1>1. Fresh.bytes = 0 /\ Fresh.errs = 0
  BY DEF Fresh
<1> QED
  BY <1>1 DEF DeviceStep, Vanish, Return, Reset, Flap, Fault, NoFault, shown, samples,
              TypeInv, TypeOK

LEMMA TickKeeps ==
    ASSUME Tick
    PROVE  /\ UNCHANGED <<kind, link, loop, listed, snapshot, prev, rate, total>>
           /\ happened \subseteq happened' /\ ticked' = TRUE
  BY DEF Tick, Fault, NoFault, shown

LEMMA NextAscend == TypeInv /\ AscendInv /\ [Next]_vars => AscendInv'
<1> SUFFICES ASSUME TypeInv, AscendInv, [Next]_vars, NoReset', NEW d \in Devices
             PROVE  Ascending(d)'
  BY DEF AscendInv
<1>1. (NoReset /\ Ascending(d)) \/ "reset" \in happened
  BY DEF AscendInv, NoReset
<1> USE DeviceNumbers DEF Ascending
<1>2. CASE Inventory \/ List \/ Read \/ Wake
  BY <1>1, <1>2, RoundEffect DEF NoReset
<1>3. CASE Record
  <2>1. /\ UNCHANGED <<counters, happened>> /\ snapshot'[d] = None
        /\ prev'[d] \in {prev[d], None, snapshot[d]}
    BY <1>3, RecordEffect DEF Record, NoFault, system
  <2> QED
    BY <1>1, <2>1 DEF NoReset
<1>4. CASE Tick
  <2>1. PICK b \in Nat, e \in Nat :
          /\ counters'[d].bytes = counters[d].bytes + b
          /\ counters'[d].errs = counters[d].errs + e
    BY <1>4, TickEffect, BoundsAssumption
  <2> QED
    BY <1>1, <1>4, <2>1, TickKeeps DEF NoReset
<1>5. CASE DeviceStep
  BY <1>1, <1>5, DeviceEffect DEF NoReset
<1>6. CASE UNCHANGED vars
  BY <1>1, <1>6 DEF vars, NoReset
<1> QED
  BY <1>2, <1>3, <1>4, <1>5, <1>6 DEF Next, SamplerStep

LEMMA NextErrors ==
    TypeInv /\ AscendInv /\ ErrorsInv /\ [Next]_vars => ErrorsInv'
<1> SUFFICES ASSUME TypeInv, AscendInv, ErrorsInv, [Next]_vars,
                    (kind = "netWindows" \/ NoReset)', NEW d \in Devices
             PROVE  NoMoreErrors(d)'
  BY DEF ErrorsInv
<1>1. (kind = "netWindows" \/ NoReset) => NoMoreErrors(d)
  BY DEF ErrorsInv
<1>2. NoReset => Ascending(d)
  BY DEF AscendInv
<1> USE DeviceNumbers
<1>3. CASE Inventory \/ List \/ Read \/ Wake
  BY <1>1, <1>3, RoundEffect DEF NoReset, NoMoreErrors
<1>4. CASE Record
  <2>1. UNCHANGED <<kind, counters, occurred, happened>> /\ snapshot'[d] = None
    BY <1>4 DEF Record, NoFault, system
  <2>2. NoMoreErrors(d) /\ (kind = "netLinux" => Ascending(d))
    BY <1>1, <1>2, <2>1 DEF NoReset
  <2>3. CASE prev'[d] \in {prev[d], None} /\ total'[d] = total[d]
    BY <2>1, <2>2, <2>3 DEF NoMoreErrors
  <2>4. CASE snapshot[d] # None /\ prev'[d] = snapshot[d] /\ total'[d] = total[d]
    BY <2>1, <2>2, <2>4 DEF NoMoreErrors
  <2>5. ASSUME snapshot[d] # None, prev'[d] = snapshot[d], prev[d] # None,
               snapshot[d].errs >= prev[d].errs,
               total'[d] = total[d] + Minus(snapshot[d].errs, prev[d].errs)
        PROVE  NoMoreErrors(d)'
    <3>1. Minus(snapshot[d].errs, prev[d].errs) = snapshot[d].errs - prev[d].errs
      BY <2>5, MinusType
    <3> QED
      BY <2>1, <2>2, <2>5, <3>1 DEF NoMoreErrors
  <2>6. ASSUME prev[d] # None, snapshot[d] # None, prev'[d] = snapshot[d],
               kind = "netLinux",
               total'[d] = total[d] + Minus(snapshot[d].errs, prev[d].errs)
        PROVE  NoMoreErrors(d)'
    <3>1. snapshot[d].errs >= prev[d].errs
      BY <2>2, <2>6 DEF Ascending
    <3> QED
      BY <2>5, <2>6, <3>1
  <2>7. ASSUME prev[d] # None, snapshot[d] # None, prev'[d] = snapshot[d],
               total'[d] = total[d] + ErrorDelta(d)
        PROVE  NoMoreErrors(d)'
    <3>1. CASE snapshot[d].errs >= prev[d].errs
      BY <2>5, <2>7, <3>1 DEF ErrorDelta
    <3>2. CASE ~(snapshot[d].errs >= prev[d].errs)
      BY <2>4, <2>7, <3>2 DEF ErrorDelta
    <3> QED
      BY <3>1, <3>2
  <2> QED
    BY <1>4, <2>3, <2>4, <2>6, <2>7, RecordEffect
<1>5. CASE Tick
  <2>1. PICK e \in Nat :
          /\ counters'[d].errs = counters[d].errs + e
          /\ occurred'[d] = occurred[d] + e
    BY <1>5, TickEffect
  <2> QED
    BY <1>1, <1>5, <2>1, TickKeeps DEF NoReset, NoMoreErrors
<1>6. CASE DeviceStep
  BY <1>1, <1>6, DeviceEffect DEF NoReset, NoMoreErrors
<1>7. CASE UNCHANGED vars
  BY <1>1, <1>7 DEF vars, NoReset, NoMoreErrors
<1> QED
  BY <1>3, <1>4, <1>5, <1>6, <1>7 DEF Next, SamplerStep

(* network_errors never shows more errors than there have been: on         *)
(* Windows because the difference is guarded, and on Linux, where the      *)
(* guard cannot hold, as long as no counters start from zero again.        *)
THEOREM GuardedErrorsCorrect == Spec => []GuardedErrors
<1> DEFINE Ind == TypeInv /\ AscendInv /\ ErrorsInv
<1>1. Init => AscendInv /\ ErrorsInv
  BY DEF Init, AscendInv, ErrorsInv, Ascending, NoMoreErrors
<1>2. Ind => GuardedErrors
  BY DEF ErrorsInv, NoMoreErrors, NoReset, GuardedErrors, CountsRealErrors
<1> QED
  BY <1>1, <1>2, InitType, NextType, NextAscend, NextErrors, PTL DEF Spec
-----------------------------------------------------------------------------
(* Rates *)

Calm == happened \cap RateHazards = {}

(* The sample of a round is taken just before it is recorded, and without  *)
(* a stall in between it is what the counter is.                           *)
TakenNow ==
    \A d \in Devices : snapshot[d] # None =>
        /\ loop = "record"
        /\ Calm => snapshot[d].bytes = counters[d].bytes

(* The device that a round of Linux does not record, and that which waits  *)
(* for the next tick: no tick has gone by that was not paid for.           *)
PaidUp(d) ==
    \/ loop = "wait" /\ ~ticked
    \/ link[d] = "absent"
    \/ loop \in {"read", "record"} /\ d \notin listed
    \/ loop = "record" /\ snapshot[d] = None

(* On Linux a device carried no more since its sample than it can in the   *)
(* time since then, or, when that is so long that it is not told any more, *)
(* than in a tick for each fault and one for the period.                   *)
LinuxRate(d) ==
    prev[d] # None =>
        /\ age[d] < MaxAge => counters[d].bytes <= prev[d].bytes + Speed * age[d]
        /\ counters[d].bytes <= prev[d].bytes + Speed * (spent + 1)
        /\ PaidUp(d) => counters[d].bytes <= prev[d].bytes + Speed * spent

(* On Windows only a tick went by since a sample that is kept.             *)
WindowsRate(d) ==
    prev[d] # None =>
        /\ counters[d].bytes <= prev[d].bytes + Speed
        /\ loop = "wait" /\ ~ticked => counters[d].bytes = prev[d].bytes

(* There, disks that were sampled stay, and are sampled in every round.    *)
DiskStays(d) ==
    /\ d \in listed \/ prev[d] # None => link[d] # "absent"
    /\ prev[d] # None /\ loop \in {"read", "record"} => d \in listed
    /\ prev[d] # None /\ loop = "record" => snapshot[d] # None

ShownInSpeed(d) == rate[d] # None => rate[d].delta <= Speed * rate[d].over

RateInv ==
    /\ TakenNow
    /\ Calm => \A d \in Devices :
         /\ ShownInSpeed(d)
         /\ kind \in Linux => LinuxRate(d)
         /\ kind \notin Linux => WindowsRate(d)
         /\ kind = "diskWindows" => DiskStays(d)

(* Faults are not forgotten, so what is calm after a step was so before.   *)
LEMMA CalmMeans ==
    Calm => /\ "reset" \notin happened /\ "stall" \notin happened
            /\ kind \notin Linux => "fail" \notin happened /\ "slow" \notin happened
            /\ kind = "diskWindows" => "vanish" \notin happened
  BY DEF Calm, RateHazards, Linux

LEMMA CalmStays ==
    Calm' => /\ "reset" \notin happened' /\ "stall" \notin happened'
             /\ kind' \notin Linux => "fail" \notin happened' /\ "slow" \notin happened'
             /\ kind' = "diskWindows" => "vanish" \notin happened'
  BY DEF Calm, RateHazards, Linux

LEMMA CalmBefore == [Next]_vars /\ Calm' => Calm
<1> SUFFICES ASSUME [Next]_vars PROVE happened \subseteq happened' /\ kind' = kind
  BY DEF Calm, RateHazards
<1> QED
  BY DEF Next, vars, SamplerStep, Inventory, List, Read, Record, Wake, Tick, DeviceStep,
         Vanish, Return, Reset, Flap, FailRound, Fault, NoFault, Consequence

LEMMA NextTaken == TypeInv /\ TakenNow /\ [Next]_vars => TakenNow'
<1> SUFFICES ASSUME TypeInv, TakenNow, [Next]_vars, NEW d \in Devices, snapshot'[d] # None
             PROVE  loop' = "record" /\ (Calm' => snapshot'[d].bytes = counters'[d].bytes)
  BY DEF TakenNow
<1>1. snapshot[d] # None => loop = "record" /\ (Calm => snapshot[d].bytes = counters[d].bytes)
  BY DEF TakenNow
<1>2. CASE Inventory \/ List \/ Wake
  BY <1>1, <1>2 DEF Inventory, List, Wake
<1>3. CASE Read
  <2>1. snapshot' = snapshot \/ (loop' = "record" /\ snapshot'[d] \in {counters[d], None})
    BY <1>3 DEF Read, CountersOf
  <2> QED
    BY <1>1, <1>3, <2>1 DEF Read, system
<1>4. CASE Record
  BY <1>4 DEF Record
<1>5. CASE Tick
  BY <1>1, <1>5, CalmStays DEF Tick, Fault
<1>6. CASE DeviceStep
  BY <1>1, <1>6, DeviceEffect, CalmStays, CalmBefore
<1>7. CASE UNCHANGED vars
  BY <1>1, <1>7, CalmBefore DEF vars
<1> QED
  BY <1>2, <1>3, <1>4, <1>5, <1>6, <1>7 DEF Next, SamplerStep

(* What recording does to the sample of a device and to its age.           *)
LEMMA RecordKeeps ==
    ASSUME TypeInv, Record, NEW d \in Devices
    PROVE  \/ /\ snapshot[d] # None /\ prev'[d] = snapshot[d] /\ age'[d] = 0
              /\ kind # "netLinux" => d \in listed
           \/ /\ prev'[d] = prev[d] /\ age'[d] = age[d] /\ kind # "netWindows"
              /\ snapshot[d] = None \/ (d \notin listed /\ kind # "netLinux")
           \/ prev'[d] = None /\ kind = "netWindows"
<1>1. CASE RecordNetLinux
  BY <1>1 DEF RecordNetLinux, Keep, Got
<1>2. CASE RecordNetWindows
  BY <1>2 DEF RecordNetWindows, Replace, Got
<1>3. CASE RecordDiskLinux
  BY <1>3 DEF RecordDiskLinux, Keep, Got
<1>4. CASE RecordDiskWindows
  BY <1>4 DEF RecordDiskWindows, Keep, Got
<1> QED
  BY <1>1, <1>2, <1>3, <1>4 DEF Record

(* What it shows: the difference, over the time since the last sample on   *)
(* Linux and over the period on Windows.                                   *)
LEMMA RecordShows ==
    ASSUME TypeInv, Record, NEW d \in Devices
    PROVE  \/ rate'[d] = rate[d] \/ rate'[d] = Zero
           \/ /\ snapshot[d] # None /\ prev[d] # None
              /\ \/ kind \in Linux /\ rate'[d] = RateOver(d, Elapsed(d))
                 \/ kind \notin Linux /\ rate'[d] = RateOver(d, 1)
<1>1. CASE RecordNetLinux
  BY <1>1 DEF RecordNetLinux, Got, Was, Linux
<1>2. CASE RecordNetWindows
  BY <1>2 DEF RecordNetWindows, Got, Was, Linux
<1>3. CASE RecordDiskLinux
  BY <1>3 DEF RecordDiskLinux, Got, Was, Linux
<1>4. CASE RecordDiskWindows
  BY <1>4 DEF RecordDiskWindows, Got, Was, Linux
<1> QED
  BY <1>1, <1>2, <1>3, <1>4 DEF Record

(* The difference of a sampler that was calm is within what the device is  *)
(* capable of in the time that it is divided by.                           *)
LEMMA RecordInSpeed ==
    ASSUME TypeInv, AscendInv, RateInv, Calm, Record, NEW d \in Devices
    PROVE  ShownInSpeed(d)'
<1>1. age[d] = 0 \/ (age[d] # 0 /\ age[d] < MaxAge) \/ age[d] = MaxAge
  <2>1. age[d] \in 0 .. MaxAge /\ MaxAge \in Nat
    BY BoundsAssumption DEF TypeInv, TypeOK
  <2> QED
    BY <2>1
<1> USE DeviceNumbers, SpeedTimes
<1>2. CASE rate'[d] = rate[d]
  BY <1>2 DEF RateInv, ShownInSpeed
<1>3. CASE rate'[d] = Zero
  BY <1>3 DEF ShownInSpeed, Zero
<1>4. ASSUME snapshot[d] # None, prev[d] # None
      PROVE  /\ RateOver(d, Elapsed(d)).delta = counters[d].bytes - prev[d].bytes
             /\ RateOver(d, 1).delta = counters[d].bytes - prev[d].bytes
  <2>1. snapshot[d].bytes = counters[d].bytes
    BY <1>4 DEF RateInv, TakenNow
  <2>2. prev[d].bytes <= snapshot[d].bytes
    BY <1>4, CalmMeans DEF AscendInv, NoReset, Ascending
  <2>3. Minus(snapshot[d].bytes, prev[d].bytes) = snapshot[d].bytes - prev[d].bytes
    BY <1>4, <2>2, MinusType
  <2> QED
    BY <2>1, <2>3 DEF RateOver
<1>5. ASSUME snapshot[d] # None, prev[d] # None, kind \in Linux,
             rate'[d] = RateOver(d, Elapsed(d))
      PROVE  ShownInSpeed(d)'
  <2>1. /\ age[d] < MaxAge => counters[d].bytes <= prev[d].bytes + Speed * age[d]
        /\ counters[d].bytes <= prev[d].bytes + Speed * (spent + 1)
        /\ age[d] \in 0 .. MaxAge /\ spent \in 0 .. MaxFaults
    BY <1>5 DEF RateInv, LinuxRate, TypeInv, TypeOK
  <2>2. counters[d].bytes - prev[d].bytes <= Speed * Elapsed(d)
    <3>1. CASE age[d] = 0
      <4>1. Elapsed(d) = 1 /\ counters[d].bytes <= prev[d].bytes + Speed * 0
        BY <2>1, <3>1, BoundsAssumption DEF Elapsed
      <4> QED
        BY <1>5, <4>1
    <3>2. CASE age[d] # 0 /\ age[d] < MaxAge
      <4>1. Elapsed(d) = age[d] /\ Elapsed(d) \in Nat
        BY <2>1, <3>2 DEF Elapsed
      <4>2. counters[d].bytes <= prev[d].bytes + Speed * Elapsed(d)
        BY <2>1, <3>2, <4>1
      <4> QED
        BY <1>5, <4>1, <4>2
    <3>3. CASE age[d] = MaxAge
      <4>1. spent + 1 \in Nat /\ MaxAge \in Nat /\ spent + 1 <= MaxAge
            /\ Elapsed(d) = MaxAge
        BY <2>1, <3>3, BoundsAssumption DEF Elapsed
      <4>2. Speed * (spent + 1) <= Speed * MaxAge /\ Speed * (spent + 1) \in Nat
            /\ Speed * MaxAge \in Nat
        BY <4>1
      <4>3. counters[d].bytes <= prev[d].bytes + Speed * MaxAge
        BY <1>5, <2>1, <4>2
      <4> QED
        BY <1>5, <4>1, <4>2, <4>3
    <3> QED
      BY <1>1, <3>1, <3>2, <3>3
  <2>3. RateOver(d, Elapsed(d)).over = Elapsed(d)
    BY DEF RateOver
  <2>4. rate'[d].delta = counters[d].bytes - prev[d].bytes
        /\ Speed * rate'[d].over = Speed * Elapsed(d)
    BY <1>4, <1>5, <2>3
  <2> QED
    BY <2>2, <2>4 DEF ShownInSpeed
<1>6. ASSUME snapshot[d] # None, prev[d] # None, kind \notin Linux,
             rate'[d] = RateOver(d, 1)
      PROVE  ShownInSpeed(d)'
  <2>1. counters[d].bytes <= prev[d].bytes + Speed
    BY <1>6 DEF RateInv, WindowsRate
  <2>2. counters[d].bytes - prev[d].bytes <= Speed /\ Speed * 1 = Speed
    BY <1>6, <2>1
  <2>3. RateOver(d, 1).over = 1
    BY DEF RateOver
  <2>4. rate'[d].delta = counters[d].bytes - prev[d].bytes /\ Speed * rate'[d].over = Speed
    BY <1>4, <1>6, <2>2, <2>3
  <2> QED
    BY <2>2, <2>4 DEF ShownInSpeed
<1> QED
  BY <1>2, <1>3, <1>5, <1>6, RecordShows

(* On Linux every step keeps what a device may have carried.               *)
LEMMA LinuxNext ==
    ASSUME TypeInv, TakenNow, [Next]_vars, Calm, Calm', kind \in Linux,
           NEW d \in Devices, LinuxRate(d), prev'[d] # None
    PROVE  LinuxRate(d)'
<1>1. /\ spent \in 0 .. MaxFaults /\ age[d] \in 0 .. MaxAge
      /\ spent \in Nat /\ age[d] \in Nat /\ spent + 1 \in Nat
  BY BoundsAssumption DEF TypeInv, TypeOK
<1>2. /\ Speed \in Nat /\ Speed * spent \in Nat /\ Speed * age[d] \in Nat
      /\ Speed * (spent + 1) = Speed * spent + Speed
      /\ Speed * ((spent + 1) + 1) = Speed * spent + Speed + Speed
      /\ Speed * (age[d] + 1) = Speed * age[d] + Speed
  BY <1>1, SpeedTimes
<1>3. ASSUME UNCHANGED <<prev, age, spent>>, counters'[d] = counters[d],
             PaidUp(d)' => PaidUp(d)
      PROVE  LinuxRate(d)'
  BY <1>3 DEF LinuxRate
<1>4. ASSUME UNCHANGED <<prev, age>>, counters'[d] = counters[d], spent' = spent + 1
      PROVE  LinuxRate(d)'
  BY <1>1, <1>2, <1>4, DeviceNumbers DEF LinuxRate
<1>5. CASE Inventory
  BY <1>5 DEF Inventory, TypeInv, Rounds, Linux
<1>6. CASE List
  <2>0. ~ NoAdapters
    BY DEF NoAdapters, Linux
  <2>1. CASE NoFault
    <3>0. spent' # spent + 1
      BY <1>1, <2>1 DEF NoFault
    <3>1. PaidUp(d)' => PaidUp(d)
      BY <1>6, <2>0, <3>0 DEF List, FailRound, Fault, PaidUp, Present, system
    <3> QED
      BY <1>3, <1>6, <2>1, <3>1 DEF List, NoFault, system, samples
  <2>2. CASE Fault("fail")
    BY <1>4, <1>6, <2>2 DEF List, Fault, system, samples
  <2> QED
    BY <1>6, <2>0, <2>1, <2>2 DEF List, FailRound
<1>7. CASE Read
  <2>1. CASE Fault("fail")
    BY <1>4, <1>7, <2>1 DEF Read, Fault, system, samples
  <2>2. CASE NoFault /\ snapshot' = CountersOf(Present) /\ loop' = "record"
    <3>1. counters[d] # None
      BY NoneAssumption DEF TypeInv, TypeOK
    <3>2. PaidUp(d)' => PaidUp(d)
      BY <1>7, <2>2, <3>1 DEF Read, CountersOf, Present, PaidUp, system
    <3> QED
      BY <1>3, <1>7, <2>2, <3>2 DEF Read, NoFault, system, samples
  <2> QED
    BY <1>7, <2>1, <2>2 DEF Read, FailRound
<1>8. CASE Record
  <2>1. /\ UNCHANGED <<link, counters, spent>> /\ loop = "record"
    BY <1>8 DEF Record, NoFault, system
  <2>2. CASE snapshot[d] # None /\ prev'[d] = snapshot[d] /\ age'[d] = 0
    <3>1. counters[d].bytes = snapshot[d].bytes
      BY <2>2 DEF TakenNow
    <3>2. Speed * 0 = 0
      BY <1>2
    <3> QED
      BY <1>2, <2>1, <2>2, <3>1, <3>2, DeviceNumbers DEF LinuxRate
  <2>3. CASE prev'[d] = prev[d] /\ age'[d] = age[d]
             /\ (snapshot[d] = None \/ d \notin listed)
    BY <2>1, <2>3 DEF LinuxRate, PaidUp
  <2> QED
    BY <1>8, <2>2, <2>3, RecordKeeps DEF Linux
<1>9. CASE Wake
  <2>1. PaidUp(d)' => PaidUp(d)
    BY <1>9 DEF Wake, PaidUp, system
  <2> QED
    BY <1>3, <1>9, <2>1 DEF Wake, NoFault, system, samples
<1>10. CASE Tick
  <2>1. PICK b \in 0 .. Speed :
          /\ counters'[d].bytes = counters[d].bytes + b
          /\ link[d] # "up" => b = 0
    BY <1>10, TickEffect
  <2>2. /\ prev'[d] = prev[d] /\ prev[d] # None
        /\ age'[d] = IF age[d] < MaxAge THEN age[d] + 1 ELSE age[d]
        /\ UNCHANGED <<kind, link, loop, listed, snapshot>> /\ ticked' = TRUE
    BY <1>10 DEF Tick
  <2>3. /\ prev[d].bytes \in Nat /\ counters[d].bytes \in Nat /\ b \in Nat /\ b <= Speed
    BY <1>2, <2>1, <2>2, DeviceNumbers, BoundsAssumption
  <2>4. age'[d] < MaxAge => counters'[d].bytes <= prev'[d].bytes + Speed * age'[d]
    <3> SUFFICES ASSUME age'[d] < MaxAge
                 PROVE  counters'[d].bytes <= prev'[d].bytes + Speed * age'[d]
      OBVIOUS
    <3>1. age[d] < MaxAge /\ age'[d] = age[d] + 1
      BY <1>1, <2>2, BoundsAssumption
    <3> QED
      BY <1>2, <2>1, <2>2, <2>3, <3>1 DEF LinuxRate
  <2>5. CASE loop = "wait" /\ ~ticked /\ NoFault
    <3>1. counters[d].bytes <= prev[d].bytes + Speed * spent /\ spent' = spent
      BY <2>2, <2>5 DEF LinuxRate, PaidUp, NoFault
    <3>2. PaidUp(d)' => b = 0
      BY <2>1, <2>2, <2>5 DEF PaidUp
    <3> QED
      BY <1>2, <2>1, <2>2, <2>3, <2>4, <3>1, <3>2 DEF LinuxRate
  <2>6. CASE Fault("slow")
    <3>1. spent' = spent + 1
      BY <2>6 DEF Fault
    <3>2. counters[d].bytes <= prev[d].bytes + Speed * (spent + 1)
      BY <2>2 DEF LinuxRate
    <3>3. counters'[d].bytes <= prev'[d].bytes + Speed * (spent' + 1)
      BY <1>2, <2>1, <2>2, <2>3, <3>1, <3>2
    <3>4. ASSUME PaidUp(d)' PROVE counters'[d].bytes <= prev'[d].bytes + Speed * spent'
      <4>1. CASE link[d] = "absent"
        BY <2>1, <2>2, <2>3, <3>1, <3>2, <4>1
      <4>2. CASE PaidUp(d)
        BY <1>2, <2>1, <2>2, <2>3, <3>1, <4>2 DEF LinuxRate
      <4> QED
        BY <2>2, <3>4, <4>1, <4>2 DEF PaidUp
    <3> QED
      BY <2>4, <3>3, <3>4 DEF LinuxRate
  <2> QED
    BY <1>10, <2>5, <2>6, CalmStays, CalmMeans DEF Tick, Fault, TypeInv, Rounds, Linux
<1>11. CASE DeviceStep
  <2>1. UNCHANGED <<prev, age, loop, ticked, listed, snapshot>> /\ counters'[d] = counters[d]
    BY <1>11, DeviceEffect, CalmStays
  <2>2. CASE Fault("vanish")
    BY <1>4, <2>1, <2>2 DEF Fault
  <2>3. CASE NoFault /\ (link'[d] = "absent" => link[d] = "absent")
    <3>1. PaidUp(d)' => PaidUp(d)
      BY <2>1, <2>3 DEF PaidUp
    <3> QED
      BY <1>3, <2>1, <2>3, <3>1 DEF NoFault
  <2>4. (\E c \in Devices : Return(c) \/ Flap(c)) => NoFault /\ (link'[d] = "absent" => link[d] = "absent")
    BY DEF Return, Flap, TypeInv, TypeOK
  <2>5. (\E c \in Devices : Reset(c)) => FALSE
    BY CalmStays DEF Reset, Fault
  <2> QED
    BY <1>11, <2>2, <2>3, <2>4, <2>5 DEF DeviceStep, Vanish
<1>12. CASE UNCHANGED vars
  <2>1. PaidUp(d)' => PaidUp(d)
    BY <1>12 DEF vars, PaidUp
  <2> QED
    BY <1>3, <1>12, <2>1 DEF vars
<1> QED
  BY <1>5, <1>6, <1>7, <1>8, <1>9, <1>10, <1>11, <1>12 DEF Next, SamplerStep

(* On Windows a round is never late, so that no sample gets older than a   *)
(* tick, and recording drops or replaces all that it has.                  *)
LEMMA WindowsNext ==
    ASSUME TypeInv, TakenNow, [Next]_vars, Calm, Calm', kind \notin Linux,
           NEW d \in Devices, WindowsRate(d), kind = "diskWindows" => DiskStays(d),
           prev'[d] # None
    PROVE  WindowsRate(d)'
<1>1. Speed \in Nat
  BY BoundsAssumption
<1>2. /\ ~ Fault("fail") /\ ~ Fault("slow") /\ ~ Fault("stall") /\ ~ Fault("reset")
      /\ ~ Consequence("fail")
  <2>1. kind' \notin Linux
    BY DEF Next, vars, SamplerStep, Inventory, List, Read, Record, Wake, Tick, DeviceStep
  <2> QED
    BY <2>1, CalmStays DEF Fault, Consequence
<1>3. CASE Inventory \/ List \/ Read \/ Wake
  <2>1. UNCHANGED <<counters, prev>> /\ loop' # "wait"
    BY <1>2, <1>3 DEF Inventory, List, Read, Wake, FailRound, system, samples
  <2> QED
    BY <2>1 DEF WindowsRate
<1>4. CASE Record
  <2>1. counters' = counters
    BY <1>4 DEF Record, system
  <2>2. snapshot[d] # None /\ prev'[d] = snapshot[d]
    <3>1. CASE kind = "netWindows"
      BY <1>4, <3>1, RecordKeeps
    <3>2. CASE kind = "diskWindows"
      BY <1>4, <3>2, RecordKeeps DEF DiskStays, Record
    <3> QED
      BY <3>1, <3>2, KindsAssumption DEF AllKinds, Linux, TypeInv, TypeOK
  <2>3. snapshot[d].bytes = counters[d].bytes
    BY <2>2 DEF TakenNow
  <2> QED
    BY <1>1, <2>1, <2>2, <2>3, DeviceNumbers DEF WindowsRate
<1>5. CASE Tick
  <2>1. PICK b \in 0 .. Speed : counters'[d].bytes = counters[d].bytes + b
    BY <1>5, TickEffect
  <2>2. loop = "wait" /\ ~ ticked
    BY <1>2, <1>5, CalmMeans DEF Tick, TypeInv, Rounds
  <2>3. prev'[d] = prev[d] /\ ticked' = TRUE
    BY <1>5, TickKeeps
  <2>4. counters[d].bytes = prev[d].bytes /\ prev[d].bytes \in Nat /\ b \in Nat /\ b <= Speed
    BY <1>1, <2>2, <2>3, DeviceNumbers, BoundsAssumption DEF WindowsRate
  <2> QED
    BY <1>1, <2>1, <2>3, <2>4 DEF WindowsRate
<1>6. CASE DeviceStep
  BY <1>6, DeviceEffect, CalmStays DEF WindowsRate
<1>7. CASE UNCHANGED vars
  BY <1>7 DEF vars, WindowsRate
<1> QED
  BY <1>3, <1>4, <1>5, <1>6, <1>7 DEF Next, SamplerStep

LEMMA DiskNextStays ==
    ASSUME TypeInv, TakenNow, [Next]_vars, Calm, Calm', kind = "diskWindows",
           NEW d \in Devices, DiskStays(d)
    PROVE  DiskStays(d)'
<1>1. ~ Fault("fail") /\ ~ Fault("vanish")
  <2>1. kind' = "diskWindows"
    BY DEF Next, vars, SamplerStep, Inventory, List, Read, Record, Wake, Tick, DeviceStep
  <2> QED
    BY <2>1, CalmStays DEF Fault, Linux
<1>2. CASE Inventory
  BY <1>1, <1>2 DEF Inventory, DiskStays, TypeInv, Rounds, system, samples
<1>3. CASE List
  BY <1>1, <1>3 DEF List, FailRound, NoAdapters, Present, DiskStays, system, samples
<1>4. CASE Read
  <2>1. counters[d] # None
    BY NoneAssumption DEF TypeInv, TypeOK
  <2>2. link[d] # "absent" => snapshot'[d] # None
    BY <1>1, <1>4, <2>1 DEF Read, FailRound, CountersOf, Present
  <2> QED
    BY <1>4, <2>2 DEF Read, FailRound, EndRound, DiskStays, system, samples
<1>5. CASE Record
  <2>1. prev'[d] # None => link[d] # "absent"
    BY <1>5, RecordKeeps DEF DiskStays
  <2> QED
    BY <1>5, <2>1 DEF Record, EndRound, system, DiskStays
<1>6. CASE Wake
  BY <1>6 DEF Wake, DiskStays, system, samples
<1>7. CASE Tick
  BY <1>7, TickKeeps DEF DiskStays
<1>8. CASE DeviceStep
  <2>1. link'[d] = "absent" => link[d] = "absent"
    BY <1>1, <1>8 DEF DeviceStep, Vanish, Return, Reset, Flap, TypeInv, TypeOK
  <2> QED
    BY <1>8, <2>1, DeviceEffect DEF DiskStays
<1>9. CASE UNCHANGED vars
  BY <1>9 DEF vars, DiskStays
<1> QED
  BY <1>2, <1>3, <1>4, <1>5, <1>6, <1>7, <1>8, <1>9 DEF Next, SamplerStep

LEMMA ShownNext ==
    ASSUME TypeInv, AscendInv, RateInv, [Next]_vars, Calm, NEW d \in Devices
    PROVE  ShownInSpeed(d)'
<1>1. CASE Record
  BY <1>1, RecordInSpeed
<1>2. CASE ~ Record
  <2>1. rate' = rate
    BY <1>2, RoundEffect, TickKeeps, DeviceEffect DEF Next, SamplerStep, vars
  <2> QED
    BY <2>1 DEF RateInv, ShownInSpeed
<1> QED
  BY <1>1, <1>2

LEMMA NextRate == TypeInv /\ AscendInv /\ RateInv /\ [Next]_vars => RateInv'
<1> SUFFICES ASSUME TypeInv, AscendInv, RateInv, [Next]_vars PROVE RateInv'
  OBVIOUS
<1>1. TakenNow'
  BY NextTaken DEF RateInv
<1>2. kind' = kind
  BY DEF Next, vars, SamplerStep, Inventory, List, Read, Record, Wake, Tick, DeviceStep
<1>3. ASSUME Calm', NEW d \in Devices
      PROVE  /\ ShownInSpeed(d)'
             /\ kind \in Linux => LinuxRate(d)'
             /\ kind \notin Linux => WindowsRate(d)'
             /\ kind = "diskWindows" => DiskStays(d)'
  <2>1. Calm
    BY <1>3, CalmBefore
  <2>2. ShownInSpeed(d)'
    BY <2>1, ShownNext
  <2>3. ASSUME kind \in Linux PROVE LinuxRate(d)'
    <3>1. CASE prev'[d] = None
      BY <3>1 DEF LinuxRate
    <3>2. CASE prev'[d] # None
      BY <1>3, <2>1, <2>3, <3>2, LinuxNext DEF RateInv
    <3> QED
      BY <3>1, <3>2
  <2>4. ASSUME kind \notin Linux PROVE WindowsRate(d)'
    <3>1. CASE prev'[d] = None
      BY <3>1 DEF WindowsRate
    <3>2. CASE prev'[d] # None
      BY <1>3, <2>1, <2>4, <3>2, WindowsNext DEF RateInv
    <3> QED
      BY <3>1, <3>2
  <2>5. ASSUME kind = "diskWindows" PROVE DiskStays(d)'
    BY <1>3, <2>1, <2>5, DiskNextStays DEF RateInv
  <2> QED
    BY <2>2, <2>3, <2>4, <2>5
<1> QED
  BY <1>1, <1>2, <1>3 DEF RateInv

(* A rate that is shown is one that the device is capable of, whatever it  *)
(* carries, as long as there are no faults of the sorts that the sampler   *)
(* is not proof against: on Linux a round may fail or start late, and      *)
(* devices may come and go.                                                *)
THEOREM RateWithinSpeedCorrect == Spec => []RateWithinSpeed
<1> DEFINE Ind == TypeInv /\ AscendInv /\ RateInv
<1>1. Init => AscendInv /\ RateInv
  BY DEF Init, AscendInv, Ascending, RateInv, TakenNow, ShownInSpeed, LinuxRate,
         WindowsRate, DiskStays
<1>2. Ind => RateWithinSpeed
  BY DEF RateInv, Calm, ShownInSpeed, RateWithinSpeed
<1> QED
  BY <1>1, <1>2, InitType, NextType, NextAscend, NextRate, PTL DEF Spec
=============================================================================

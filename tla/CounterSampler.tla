---------------------------- MODULE CounterSampler ----------------------------
(***************************************************************************)
(* The four goroutines of package metrics that turn counters of the system *)
(* into rates: RecordNetworkMetrics and RecordDiskUsage, on Linux and on   *)
(* Windows.  Each keeps the sample of its previous round and shows the     *)
(* difference; a round lists the devices, reads their counters and records *)
(* them, and any of these may fail or be slow.                             *)
(*                                                                         *)
(* A tick of time is the period of five seconds.  Each device has one      *)
(* counter of bytes for the two of the code, and one of errors for those   *)
(* of errors and of drops; usage, health and labels are left out, and      *)
(* devices are taken to have labels of their own.                          *)
(***************************************************************************)
EXTENDS Naturals, FiniteSets

CONSTANTS
    Devices,    \* network interfaces or disks
    Kinds,      \* the samplers considered, a subset of AllKinds
    None,       \* no sample, no series
    Speed,      \* bytes a device can carry in a tick
    Width,      \* 2^64 in the code: unsigned integers are modulo Width
    MaxBytes,   \* bound: bytes carried by a device
    MaxErrors,  \* bound: errors of a device
    MaxFaults,  \* bound: faults of all sorts
    MaxAge      \* bound: a sample is not told from older ones beyond it

AllKinds == {"netLinux", "netWindows", "diskLinux", "diskWindows"}
Net == {"netLinux", "netWindows"}
Linux == {"netLinux", "diskLinux"}
Faults == {"fail", "slow", "stall", "vanish", "reset"}

ASSUME KindsAssumption == Kinds \subseteq AllKinds
ASSUME BoundsAssumption ==
    /\ Speed \in Nat /\ MaxBytes \in Nat /\ MaxErrors \in Nat
    /\ MaxFaults \in Nat
    /\ MaxAge \in Nat /\ MaxAge > MaxFaults + 1
    /\ Width \in Nat /\ Width > MaxBytes /\ Width > MaxErrors

Sample == [bytes : 0 .. Width - 1, errs : 0 .. Width - 1]
ASSUME NoneAssumption == None \notin Sample

VARIABLES
    kind,       \* which of the four goroutines this is
    link,       \* state of each device
    counters,   \* its counters in the system
    carried, occurred,  \* what the device ever carried and got wrong
    loop,       \* where the goroutine is in its round
    ticked,     \* a tick is in the ticker's channel; or the sleep is over
    listed,     \* devices found in this round
    snapshot,   \* the counters read in this round
    prev,       \* prevStats or prevIO
    age,        \* ticks since the timestamp of prev
    rate,       \* bytes shown, and the ticks they are divided by
    total,      \* NetworkErrors
    status,     \* NetworkStatus
    happened, spent     \* the faults there have been, and their number

vars == <<kind, link, counters, carried, occurred, loop, ticked, listed,
          snapshot, prev, age, rate, total, status, happened, spent>>
system == <<link, counters, carried, occurred>>
shown == <<rate, total, status>>
samples == <<prev, age>>

Fresh == [bytes |-> 0, errs |-> 0]
Zero == [delta |-> 0, over |-> 1]

Init ==
    /\ kind \in Kinds
    /\ link \in [Devices -> {"absent", "up"}]
    /\ counters = [d \in Devices |-> Fresh]
    /\ carried = [d \in Devices |-> 0] /\ occurred = [d \in Devices |-> 0]
    /\ loop = IF kind = "diskWindows" THEN "inventory" ELSE "list"
    /\ ticked = FALSE /\ listed = {}
    /\ snapshot = [d \in Devices |-> None] /\ prev = [d \in Devices |-> None]
    /\ age = [d \in Devices |-> 0]
    /\ rate = [d \in Devices |-> None]
    /\ total = [d \in Devices |-> 0]
    /\ status = [d \in Devices |-> None]
    /\ happened = {} /\ spent = 0

(* A fault of a sort, of which there are MaxFaults. *)
Fault(sort) ==
    /\ spent < MaxFaults /\ spent' = spent + 1
    /\ happened' = happened \cup {sort}
NoFault == UNCHANGED <<happened, spent>>
(* One that comes of an earlier fault, or of the initial state. *)
Consequence(sort) == happened' = happened \cup {sort} /\ UNCHANGED spent

-----------------------------------------------------------------------------
(* A round of the goroutine *)

(* A ticker keeps a tick that came during the round; time.Sleep starts at  *)
(* the end of the round.                                                   *)
EndRound == loop' = "wait" /\ ticked' = (ticked /\ kind \in Linux)

(* Mutant of FailRound: the goroutine returns instead of going on. *)
FailRoundReturns ==
    /\ Fault("fail")
    /\ loop' = "dead" /\ UNCHANGED ticked

(* An error is logged, and the round is over. *)
FailRound == Fault("fail") /\ EndRound

(* Windows lists the physical disks once, and gives up if it cannot. *)
Inventory ==
    /\ loop = "inventory"
    /\ \/ loop' = "list" /\ NoFault
       \/ loop' = "dead" /\ Fault("fail")
    /\ UNCHANGED <<kind, ticked, listed, snapshot>>
    /\ UNCHANGED system /\ UNCHANGED shown /\ UNCHANGED samples

(* The status is that of the devices listed; Windows does likewise in      *)
(* RecordNetworkAdapterStatus.                                             *)
StatusOf(found) ==
    [d \in Devices |-> IF kind \in Net /\ d \in found
                       THEN IF link[d] = "up" THEN 1 ELSE 0
                       ELSE status[d]]

Present == {d \in Devices : link[d] # "absent"}

(* Windows takes a list without adapters for an error. *)
NoAdapters == kind = "netWindows" /\ Present = {}

List ==
    /\ loop = "list"
    /\ \/ /\ ~NoAdapters
          /\ listed' = Present /\ status' = StatusOf(Present)
          /\ loop' = "read" /\ NoFault /\ UNCHANGED ticked
       \/ /\ NoAdapters /\ Consequence("fail") /\ EndRound
          /\ UNCHANGED <<listed, status>>
       \/ FailRound /\ UNCHANGED <<listed, status>>
    /\ UNCHANGED <<kind, snapshot, rate, total>>
    /\ UNCHANGED system /\ UNCHANGED samples

CountersOf(found) ==
    [d \in Devices |-> IF d \in found THEN counters[d] ELSE None]

(* The counters of all devices; a network round ends if they cannot be     *)
(* read, RecordDiskUsage on Linux goes on without any, and on Windows it   *)
(* reads those of each disk listed and goes on without those it cannot.    *)
Read ==
    /\ loop = "read"
    /\ \/ /\ snapshot' = CountersOf(Present)
          /\ loop' = "record" /\ NoFault /\ UNCHANGED ticked
       \/ kind \in Net /\ FailRound /\ UNCHANGED snapshot
       \/ /\ kind \notin Net
          /\ \E some \in IF kind = "diskLinux" THEN {{}}
                         ELSE SUBSET (Present \cap listed) :
                snapshot' = CountersOf(some)
          /\ Fault("fail") /\ loop' = "record" /\ UNCHANGED ticked
    /\ UNCHANGED <<kind, listed>>
    /\ UNCHANGED system /\ UNCHANGED shown /\ UNCHANGED samples

-----------------------------------------------------------------------------
(* Recording the counters that were read *)

(* Mutant of Minus: signed integers. *)
MinusSigned(a, b) == IF a >= b THEN a - b ELSE 0 - (b - a)

(* Subtraction of uint64. *)
Minus(a, b) == (a + Width - b) % Width

(* Mutant of Elapsed: the period is taken for granted. *)
ElapsedFixed(d) == 1

(* The time since the previous timestamp, or else the period. *)
Elapsed(d) == IF age[d] = 0 THEN 1 ELSE age[d]

RateOver(d, over) ==
    [delta |-> Minus(snapshot[d].bytes, prev[d].bytes), over |-> over]

(* The samples of the devices in new replace the previous ones. *)
Keep(new) ==
    /\ prev' = [d \in Devices |-> IF d \in new THEN snapshot[d] ELSE prev[d]]
    /\ age' = [d \in Devices |-> IF d \in new THEN 0 ELSE age[d]]

(* Mutant of Replace: the map is updated in place. *)
ReplaceInPlace(new) == Keep(new)

(* prevStats is replaced: Windows forgets what it did not see this round. *)
Replace(new) ==
    /\ prev' = [d \in Devices |-> IF d \in new THEN snapshot[d] ELSE None]
    /\ age' = [d \in Devices |-> 0]

Was(d) == prev[d] # None
Got == {d \in Devices : snapshot[d] # None}

(* The guard on a negative difference cannot hold of a uint64. *)
RecordNetLinux ==
    /\ kind = "netLinux"
    /\ rate' = [d \in Devices |->
                  IF d \notin Got THEN rate[d]
                  ELSE IF Was(d) THEN RateOver(d, Elapsed(d)) ELSE Zero]
    /\ total' = [d \in Devices |->
                   IF d \in Got /\ Was(d)
                   THEN total[d] + Minus(snapshot[d].errs, prev[d].errs)
                   ELSE total[d]]
    /\ status' = [d \in Devices |->
                    IF d \in Got \ listed THEN 0 ELSE status[d]]
    /\ Keep(Got)

(* Mutant of ErrorDelta: the difference is not guarded. *)
ErrorDeltaUnguarded(d) == Minus(snapshot[d].errs, prev[d].errs)

ErrorDelta(d) ==
    IF snapshot[d].errs >= prev[d].errs
    THEN Minus(snapshot[d].errs, prev[d].errs) ELSE 0

(* RecordNetworkTraffic on Windows: only adapters that were listed. *)
RecordNetWindows ==
    /\ kind = "netWindows"
    /\ LET both == {d \in Got \cap listed : Was(d)} IN
       /\ rate' = [d \in Devices |->
                     IF d \in both THEN RateOver(d, 1) ELSE rate[d]]
       /\ total' = [d \in Devices |->
                      IF d \in both THEN total[d] + ErrorDelta(d) ELSE total[d]]
    /\ Replace(Got \cap listed)
    /\ UNCHANGED status

RecordDiskLinux ==
    /\ kind = "diskLinux"
    /\ rate' = [d \in Devices |->
                  IF d \notin listed THEN rate[d]
                  ELSE IF d \in Got /\ Was(d) THEN RateOver(d, Elapsed(d))
                  ELSE Zero]
    /\ Keep(Got \cap listed)
    /\ UNCHANGED <<total, status>>

RecordDiskWindows ==
    /\ kind = "diskWindows"
    /\ rate' = [d \in Devices |->
                  IF d \in Got \cap listed /\ Was(d) THEN RateOver(d, 1)
                  ELSE rate[d]]
    /\ Keep(Got \cap listed)
    /\ UNCHANGED <<total, status>>

Record ==
    /\ loop = "record"
    /\ \/ RecordNetLinux \/ RecordNetWindows
       \/ RecordDiskLinux \/ RecordDiskWindows
    /\ EndRound /\ NoFault
    /\ listed' = {} /\ snapshot' = [d \in Devices |-> None]
    /\ UNCHANGED kind /\ UNCHANGED system

Wake ==
    /\ loop = "wait" /\ ticked
    /\ loop' = "list" /\ ticked' = FALSE
    /\ UNCHANGED <<kind, listed, snapshot>> /\ NoFault
    /\ UNCHANGED system /\ UNCHANGED shown /\ UNCHANGED samples

SamplerStep == Inventory \/ List \/ Read \/ Record \/ Wake

-----------------------------------------------------------------------------
(* The system *)

(* What a device does in a tick: only one that is up does anything, and    *)
(* disks have no errors, nor links that go down.                           *)
Work(d, b, e) ==
    /\ link[d] = "up" \/ b + e = 0
    /\ kind \in Net \/ e = 0
    /\ carried[d] + b <= MaxBytes /\ occurred[d] + e <= MaxErrors

(* Time passes.  It may do so during a round, which is then slow; in       *)
(* "record" the goroutine has read the counters and not yet the clock.     *)
Tick ==
    /\ \/ loop = "dead" /\ NoFault
       \/ loop = "wait" /\ ~ticked /\ NoFault
       \/ loop = "wait" /\ ticked /\ Fault("slow")
       \/ loop \in {"inventory", "list", "read"} /\ Fault("slow")
       \/ loop = "record" /\ Fault("stall")
    /\ ticked' = TRUE
    /\ age' = [d \in Devices |->
                 IF prev[d] # None /\ age[d] < MaxAge THEN age[d] + 1 ELSE age[d]]
    /\ \E b \in [Devices -> 0 .. Speed], e \in [Devices -> {0, 1}] :
          /\ \A d \in Devices : Work(d, b[d], e[d])
          /\ counters' = [d \in Devices |-> [bytes |-> counters[d].bytes + b[d],
                                             errs |-> counters[d].errs + e[d]]]
          /\ carried' = [d \in Devices |-> carried[d] + b[d]]
          /\ occurred' = [d \in Devices |-> occurred[d] + e[d]]
    /\ UNCHANGED <<kind, link, loop, listed, snapshot, prev>> /\ UNCHANGED shown

(* A device goes, and comes back with its counters or with new ones; its   *)
(* link goes down and up.                                                  *)
Vanish(d) ==
    /\ link[d] # "absent" /\ link' = [link EXCEPT ![d] = "absent"]
    /\ Fault("vanish") /\ UNCHANGED counters
Return(d) ==
    /\ link[d] = "absent" /\ link' = [link EXCEPT ![d] = "up"]
    /\ NoFault /\ UNCHANGED counters
Reset(d) ==
    /\ counters[d] # Fresh /\ counters' = [counters EXCEPT ![d] = Fresh]
    /\ link' = [link EXCEPT ![d] = "up"] /\ Fault("reset")
Flap(d) ==
    /\ kind \in Net /\ link[d] # "absent"
    /\ link' = [link EXCEPT ![d] = IF @ = "up" THEN "down" ELSE "up"]
    /\ NoFault /\ UNCHANGED counters

DeviceStep ==
    /\ \E d \in Devices : Vanish(d) \/ Return(d) \/ Reset(d) \/ Flap(d)
    /\ UNCHANGED <<kind, carried, occurred, loop, ticked, listed, snapshot>>
    /\ UNCHANGED shown /\ UNCHANGED samples

Next == SamplerStep \/ Tick \/ DeviceStep

Spec == Init /\ [][Next]_vars

(* The goroutine is scheduled and time passes. *)
FairSpec == Spec /\ WF_vars(SamplerStep) /\ WF_vars(Tick)

-----------------------------------------------------------------------------
(* Properties *)

TypeOK ==
    /\ kind \in Kinds
    /\ link \in [Devices -> {"absent", "down", "up"}]
    /\ counters \in [Devices -> Sample]
    /\ carried \in [Devices -> 0 .. MaxBytes]
    /\ occurred \in [Devices -> 0 .. MaxErrors]
    /\ loop \in {"inventory", "list", "read", "record", "wait", "dead"}
    /\ ticked \in BOOLEAN /\ listed \subseteq Devices
    /\ snapshot \in [Devices -> Sample \cup {None}]
    /\ prev \in [Devices -> Sample \cup {None}]
    /\ age \in [Devices -> 0 .. MaxAge]
    /\ rate \in [Devices -> [delta : 0 .. Width - 1, over : 1 .. MaxAge] \cup {None}]
    /\ total \in [Devices -> Nat]
    /\ status \in [Devices -> {None, 0, 1}]
    /\ happened \subseteq Faults /\ spent \in 0 .. MaxFaults

(* network_errors: no more errors are shown than there have been.  The     *)
(* counter never goes down, so a sum that is wrong once stays wrong.       *)
CountsRealErrors == \A d \in Devices : total[d] <= occurred[d]

(* On Windows that is so whatever happens, because the difference is       *)
(* guarded; on Linux as long as no counters start from zero again.         *)
GuardedErrors ==
    kind = "netWindows" \/ "reset" \notin happened => CountsRealErrors

(* The rates shown are ones the device is capable of, even when rounds     *)
(* fail or start late and interfaces come and go.  What a sampler is not   *)
(* proof against is named in RateHazards.                                  *)
RateHazards ==
    {"reset", "stall"}
    \cup (IF kind \in Linux THEN {} ELSE {"fail", "slow"})
    \cup (IF kind = "diskWindows" THEN {"vanish"} ELSE {})
RateWithinSpeed ==
    happened \cap RateHazards = {} => \A d \in Devices :
        rate[d] # None => rate[d].delta <= Speed * rate[d].over

(* No error is the end of the sampler, but that of the inventory of disks  *)
(* on Windows: a device that stays up is sampled again and shown as up.    *)
Recovers == \A d \in Devices : []<>(
    \/ kind = "diskWindows" /\ loop = "dead"
    \/ link[d] # "up"
    \/ /\ prev[d] # None /\ age[d] <= 1
       /\ kind \in Net => status[d] = 1)
=============================================================================

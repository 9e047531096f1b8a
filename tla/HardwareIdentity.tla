-------------------------- MODULE HardwareIdentity --------------------------
(***************************************************************************)
(* The hardware identity of a host: where it is stored, the two gauges     *)
(* UNIQUE_ID_CHANGED and UNIQUE_ID_SYSTEM, and the threads that write      *)
(* them, the goroutine of RecordUUIDMetrics at every start and the API     *)
(* requests that confirm a change of the hardware.  On Linux it is stored  *)
(* in the file hardware_uuid, on Windows in a value of a registry key.     *)
(***************************************************************************)
EXTENDS Naturals, FiniteSets

CONSTANTS
    Clients,      \* goroutines that serve API requests
    Boot,         \* the goroutine of RecordUUIDMetrics
    Hardware,     \* the configurations of the host
    Views,        \* what the tools may tell of one, and in which order
    Complete,     \* the views in which every tool answers
    Plain,        \* one of them: the view that Windows has
    Identity(_, _),  \* what GenerateHardwareUUID hashes of them
    Stores,       \* where it may be stored: in a "file" or the "registry"
    Methods,      \* HTTP methods that callers use
    Blank,        \* an empty file, a key without the value
    Absent,       \* no file, no key
    HotSwap,      \* may the hardware change while the agent runs?
    MaxSwaps,     \* bound: changes of the hardware
    MaxCalls,     \* bound: requests
    MaxCrashes,   \* bound: ends of the process
    MaxFailures   \* bound: failing probes and writes

Threads == Clients \cup {Boot}
Uuids == {Identity(h, v) : h \in Hardware, v \in Views}

ASSUME IdentityAssumption ==
    /\ Boot \notin Clients
    /\ Hardware # {} /\ Methods # {}
    /\ Complete \subseteq Views /\ Plain \in Complete
    /\ Stores # {} /\ Stores \subseteq {"file", "registry"}
    /\ Blank \notin Uuids /\ Absent \notin Uuids /\ Blank # Absent
    /\ HotSwap \in BOOLEAN
    /\ {MaxSwaps, MaxCalls, MaxCrashes, MaxFailures} \subseteq Nat

VARIABLES
    store,        \* where the identity is stored
    hw,           \* the hardware that is there
    file,         \* what is stored: hardware_uuid, or the key and its value
    up,           \* does the process run?
    changed,      \* HardwareUUIDChanged
    series,       \* the label values of SystemUUID
    pc,           \* where each thread is
    uuid,         \* currentUUID (newUUID in UpdateUUID) of each thread
    stored,       \* storedUUID of each thread
    request,      \* method and login of each request; these three are Blank
                  \* before they are set and after their last use
    torn,         \* history: was the last write of the file cut off?
    alone,        \* history: requests that nothing has overlapped
    failed,       \* history: has anything failed since the process started?
    spent         \* how often each bounded event has happened

vars == <<store, hw, file, up, changed, series, pc, uuid, stored, request,
          torn, alone, failed, spent>>
host == <<store, hw>>
threadVars == <<uuid, stored, request>>
gauges == <<changed, series>>
tally == <<failed, spent>>

(* The identities of a host whose tools all answer: several on Linux, if   *)
(* they do not always answer in the same order.                            *)
Identities(h) ==
    {Identity(h, v) : v \in IF store = "file" THEN Complete ELSE {Plain}}
Ambiguous(h) == \E u, w \in Identities(h) : u # w

Init ==
    /\ store \in Stores /\ hw \in Hardware
    /\ file = Absent
    /\ up = FALSE /\ changed = 0 /\ series = {}
    /\ pc = [t \in Threads |-> "idle"]
    /\ uuid = [t \in Threads |-> Blank]
    /\ stored = uuid
    /\ request = [c \in Clients |-> Blank]
    /\ torn = FALSE /\ alone = {} /\ failed = FALSE
    /\ spent = [swaps |-> 0, calls |-> 0, crashes |-> 0, failures |-> 0]

AtRest == {"idle", "rejected", "replied"}
Busy(t) == pc[t] \notin AtRest

(* A thread that is bound to write what is stored, if it is not cut off.   *)
Writing(t) == pc[t] \in {"truncate", "fill", "refill"}

(* A step of thread t to the program point `to'; no other request is alone *)
(* any more.                                                               *)
Step(t, from, to) ==
    /\ up /\ pc[t] = from /\ pc' = [pc EXCEPT ![t] = to]
    /\ alone' = alone \cap {t}

Spend(k) == spent' = [spent EXCEPT ![k] = @ + 1]

(* A tool, a probe or a write fails. *)
Failure ==
    /\ spent.failures < MaxFailures /\ Spend("failures")
    /\ failed' = TRUE

(* The thread returns: its locals are gone. *)
Return(t, from, to) ==
    Step(t, from, to) /\ uuid' = [uuid EXCEPT ![t] = Blank]

(* A step that fails: the thread gives up, RefreshUUIDMetrics returns. *)
Abort(t, from) == Return(t, from, "idle") /\ Failure

-----------------------------------------------------------------------------
(* The process and its surroundings *)

(* The hardware changes, under a running agent only if HotSwap says so.    *)
Swap ==
    /\ spent.swaps < MaxSwaps /\ (up => HotSwap)
    /\ Spend("swaps")
    /\ hw' \in Hardware \ {hw} /\ alone' = {}
    /\ UNCHANGED <<store, file, up, gauges, pc, threadVars, torn, failed>>

(* Collector.Start ends with RecordUUIDMetrics.                            *)
Start ==
    /\ ~up /\ up' = TRUE
    /\ pc' = [pc EXCEPT ![Boot] = "generate"]
    /\ UNCHANGED <<host, file, gauges, threadVars, torn, alone, tally>>

(* The process ends at any point, and its memory is lost.                  *)
Crash ==
    /\ up /\ spent.crashes < MaxCrashes /\ Spend("crashes")
    /\ up' = FALSE /\ changed' = 0 /\ series' = {} /\ failed' = FALSE
    /\ pc' = [t \in Threads |-> "idle"]
    /\ torn' = (torn \/ \E t \in Threads : Writing(t))
    /\ uuid' = [t \in Threads |-> Blank] /\ stored' = uuid'
    /\ request' = [c \in Clients |-> Blank] /\ alone' = {}
    /\ UNCHANGED <<host, file>>

-----------------------------------------------------------------------------
(* RefreshUUIDMetrics, of the goroutine Boot and of every request *)

(* GenerateHardwareUUID.  On Linux it makes do without the tools that do   *)
(* not answer; on Windows any of them ends it.                             *)
Answer(u) == u \in Identities(hw)
Generated(u) ==
    \/ Answer(u) /\ UNCHANGED tally
    \/ /\ store = "file"
       /\ \E v \in Views \ Complete : u = Identity(hw, v)
       /\ Failure

(* It fails when the BIOS or CPU cannot be read.  A request comes here     *)
(* twice: "renew" is the call in UpdateUUID.                               *)
Generate(t) ==
    /\ \/ \E u \in Uuids :
            /\ Generated(u) /\ uuid' = [uuid EXCEPT ![t] = u]
            /\ \/ Step(t, "generate", "exists")
               \/ Step(t, "renew", "overwrite")
       \/ Abort(t, "generate") \/ Abort(t, "renew")
    /\ UNCHANGED <<host, file, up, gauges, stored, request, torn>>

(* Mutant of KeyExists: the answer is inverted. *)
KeyExistsNot(t) ==
    /\ Step(t, "exists", IF file = Absent THEN "read" ELSE "create")
    /\ UNCHANGED <<host, file, up, gauges, threadVars, torn, tally>>

KeyExists(t) ==
    /\ Step(t, "exists", IF file = Absent THEN "create" ELSE "read")
    /\ UNCHANGED <<host, file, up, gauges, threadVars, torn, tally>>

(* CreateKey on Linux looks again, and then creates the file empty:        *)
(* another thread may have filled it since, and it is emptied.             *)
CreateKey(t) ==
    /\ store = "file"
    /\ Step(t, "create", IF file = Absent THEN "blank" ELSE "truncate")
    /\ UNCHANGED <<host, file, up, gauges, threadVars, torn, tally>>

CreateBlank(t) ==
    /\ Step(t, "blank", "truncate") /\ file' = Blank
    /\ UNCHANGED <<host, up, gauges, threadVars, torn, tally>>

(* The registry creates a key, or opens the one that is there, at once.    *)
OpenOrCreateKey(t) ==
    /\ store = "registry" /\ Step(t, "create", "truncate")
    /\ file' = IF file = Absent THEN Blank ELSE file
    /\ UNCHANGED <<host, up, gauges, threadVars, torn, tally>>

(* os.WriteFile opens the file, which empties it, and then writes. In a    *)
(* request "overwrite" and "refill" are the call in UpdateUUID itself.     *)
Truncate(t) ==
    /\ store = "file"
    /\ Step(t, "truncate", "fill") \/ Step(t, "overwrite", "refill")
    /\ file' = Blank
    /\ UNCHANGED <<host, up, gauges, threadVars, torn, tally>>

(* Mutant of Fill: what was there before the write survives in the file. *)
FillForgotten(t) ==
    /\ Step(t, "fill", "clear") \/ Step(t, "refill", "generate")
    /\ torn' = FALSE
    /\ UNCHANGED <<host, file, up, gauges, threadVars, tally>>

Fill(t) ==
    /\ Step(t, "fill", "clear") \/ Step(t, "refill", "generate")
    /\ file' = uuid[t] /\ torn' = FALSE
    /\ UNCHANGED <<host, up, gauges, threadVars, tally>>

(* SetStringValue replaces the value at once, in a key that is there.      *)
SetValue(t) ==
    /\ store = "registry" /\ file # Absent
    /\ Step(t, "truncate", "clear") \/ Step(t, "overwrite", "generate")
    /\ file' = uuid[t] /\ torn' = FALSE
    /\ UNCHANGED <<host, up, gauges, threadVars, tally>>

(* UpdateUUID does not create the key: without one it fails. *)
NoKey(t) ==
    /\ store = "registry" /\ file = Absent /\ Return(t, "overwrite", "idle")
    /\ UNCHANGED <<host, file, up, gauges, stored, request, torn, tally>>

WriteFails(t) ==
    /\ \E here \in {"truncate", "fill", "overwrite", "refill"} : Abort(t, here)
    /\ torn' = TRUE
    /\ UNCHANGED <<host, file, up, gauges, stored, request>>

(* KeyExists, CreateKey or a read fails for another reason. *)
StorageFails(t) ==
    /\ \E here \in {"exists", "create", "blank", "read"} : Abort(t, here)
    /\ UNCHANGED <<host, file, up, gauges, stored, request, torn>>

(* Mutant of Read: an empty file is an error, as a key without a value is. *)
ReadRefusesBlank(t) ==
    /\ IF file = Blank
       THEN Return(t, "read", "idle") /\ UNCHANGED stored
       ELSE /\ Step(t, "read", "compare") /\ UNCHANGED uuid
            /\ stored' = [stored EXCEPT ![t] = file]
    /\ UNCHANGED <<host, file, up, gauges, request, torn, tally>>

(* An empty file is read like any other; a key without the value makes     *)
(* RefreshUUIDMetrics return.                                              *)
Read(t) ==
    /\ IF store = "registry" /\ file = Blank
       THEN Return(t, "read", "idle") /\ UNCHANGED stored
       ELSE /\ Step(t, "read", "compare") /\ UNCHANGED uuid
            /\ stored' = [stored EXCEPT ![t] = file]
    /\ UNCHANGED <<host, file, up, gauges, request, torn, tally>>

(* Mutant of Compare: the gauge is only ever raised. *)
CompareNeverClears(t) ==
    /\ Step(t, "compare", "reset")
    /\ changed' = IF stored[t] = uuid[t] THEN changed ELSE 1
    /\ stored' = [stored EXCEPT ![t] = Blank]
    /\ UNCHANGED <<host, file, up, series, uuid, request, torn, tally>>

(* Mutant of Compare: the two branches are swapped. *)
CompareSwapped(t) ==
    /\ Step(t, "compare", "reset")
    /\ changed' = IF stored[t] = uuid[t] THEN 1 ELSE 0
    /\ stored' = [stored EXCEPT ![t] = Blank]
    /\ UNCHANGED <<host, file, up, series, uuid, request, torn, tally>>

(* HardwareUUIDChanged.Set: after a comparison, or after the first write.  *)
Compare(t) ==
    /\ Step(t, "compare", "reset")
    /\ changed' = IF stored[t] = uuid[t] THEN 0 ELSE 1
    /\ stored' = [stored EXCEPT ![t] = Blank]
    /\ UNCHANGED <<host, file, up, series, uuid, request, torn, tally>>
Clear(t) ==
    /\ Step(t, "clear", "reset") /\ changed' = 0
    /\ UNCHANGED <<host, file, up, series, threadVars, torn, tally>>

Reset(t) ==
    /\ Step(t, "reset", "with") /\ series' = {}
    /\ UNCHANGED <<host, file, up, changed, threadVars, torn, tally>>
With(t) ==
    /\ Return(t, "with", IF t = Boot THEN "idle" ELSE "replied")
    /\ series' = series \cup {uuid[t]}
    /\ UNCHANGED <<host, file, up, changed, stored, request, torn, tally>>

-----------------------------------------------------------------------------
(* The API *)

(* A request comes in, with the right password and the login its caller    *)
(* knows: what is shown or stored, the identity of the hardware, or none.  *)
Logins == (series \cup {file, Blank} \cup Identities(hw)) \ {Absent}
Call(c) ==
    /\ up /\ pc[c] \in AtRest /\ spent.calls < MaxCalls /\ Spend("calls")
    /\ pc' = [pc EXCEPT ![c] = "auth"]
    /\ \E m \in Methods, u \in Logins :
         request' = [request EXCEPT ![c] = [method |-> m, login |-> u]]
    /\ alone' = IF \E t \in Threads \ {c} : Busy(t) THEN {} ELSE {c}
    /\ UNCHANGED <<host, file, up, gauges, uuid, stored, torn, failed>>

(* GetCurrentUUID: what is stored, or the hardware if that cannot be read. *)
Unreadable == file = Absent \/ (file = Blank /\ store = "registry")
Expected(u) ==
    \/ Unreadable /\ Generated(u)
    \/ ~Unreadable /\ u = file /\ UNCHANGED tally
    \/ ~Unreadable /\ Answer(u) /\ Failure

(* AuthMiddleware, and then the method check of UpdateUUID. A failing      *)
(* probe or a wrong login ends the request.                                *)
Admit(c) ==
    /\ \/ \E u \in Uuids \cup {Blank} :
            /\ Expected(u)
            /\ Step(c, "auth", CASE request[c].login # u -> "idle"
                                [] request[c].method # "POST" -> "rejected"
                                [] OTHER -> "renew")
            /\ UNCHANGED uuid
       \/ Abort(c, "auth")
    /\ request' = [request EXCEPT ![c] = Blank]
    /\ UNCHANGED <<host, file, up, gauges, stored, torn>>

-----------------------------------------------------------------------------
Refresh(t) ==
    \/ Generate(t) \/ KeyExists(t)
    \/ CreateKey(t) \/ CreateBlank(t) \/ OpenOrCreateKey(t)
    \/ Truncate(t) \/ Fill(t) \/ SetValue(t) \/ NoKey(t) \/ WriteFails(t)
    \/ StorageFails(t) \/ Read(t) \/ Compare(t) \/ Clear(t) \/ Reset(t) \/ With(t)

Next ==
    \/ Swap \/ Start \/ Crash
    \/ \E t \in Threads : Refresh(t)
    \/ \E c \in Clients : Call(c) \/ Admit(c)

Spec == Init /\ [][Next]_vars

(* The init system restarts the agent, and the scheduler runs every        *)
(* goroutine; nobody has to call, to crash or to change the hardware.      *)
FairSpec ==
    /\ Spec /\ WF_vars(Start)
    /\ \A t \in Threads : WF_vars(Refresh(t))
    /\ \A c \in Clients : WF_vars(Admit(c))

-----------------------------------------------------------------------------
(* Properties *)

Points == AtRest \cup
    {"auth", "renew", "overwrite", "refill", "generate", "exists", "create",
     "blank", "truncate", "fill", "clear", "read", "compare", "reset", "with"}

Requests == [method : Methods, login : Uuids \cup {Blank}]

TypeOK ==
    /\ store \in Stores
    /\ hw \in Hardware /\ file \in Uuids \cup {Blank, Absent}
    /\ up \in BOOLEAN /\ changed \in {0, 1} /\ series \subseteq Uuids
    /\ pc \in [Threads -> Points]
    /\ uuid \in [Threads -> Uuids \cup {Blank}]
    /\ stored \in [Threads -> Uuids \cup {Blank}]
    /\ request \in [Clients -> Requests \cup {Blank}]
    /\ torn \in BOOLEAN /\ alone \subseteq Clients /\ failed \in BOOLEAN
    /\ spent \in [{"swaps", "calls", "crashes", "failures"} -> Nat]
    /\ \A t \in Threads :
         pc[t] \in {"refill", "exists", "overwrite", "create", "blank", "truncate",
                    "fill", "clear", "read", "compare", "reset", "with"}
         => uuid[t] \in Uuids

(* What is stored is empty only while some thread is about to write it,    *)
(* unless a crash or a failing write cut the last one off: writes of       *)
(* several threads do not leave it empty between them.                     *)
BlankIsTransient == file = Blank => torn \/ \E t \in Threads : Writing(t)

(* What a successful call promises, for a call that nothing overlapped and *)
(* whose tools all answered: the identity of the hardware is stored, the   *)
(* alarm is off, and UNIQUE_ID_SYSTEM shows that identity alone.  A host   *)
(* with several identities may be given another one between the write and  *)
(* the comparison, which are two calls of GenerateHardwareUUID.            *)
Confirmed == file \in Identities(hw) /\ changed = 0 /\ series = {file}
SuccessConfirms == \A c \in Clients :
    pc[c] = "replied" /\ c \in alone /\ ~failed /\ ~Ambiguous(hw) => Confirmed

(* The same promise as it is documented, for any call: after the last of   *)
(* the requests has succeeded on unchanged hardware, it holds.             *)
DocumentedSuccess ==
    (\E c \in Clients : pc[c] = "replied") /\ (\A t \in Threads : ~Busy(t))
    /\ spent.swaps = 0 => Confirmed

(* An alarm that a start raises has a cause: what is stored is not the     *)
(* identity of the hardware.  On Windows that is all; on Linux what is     *)
(* stored may be an empty file as well, a tool may have failed at this     *)
(* start, and the host may have several identities.                        *)
AlarmJustified == changed = 1 /\ spent.calls = 0 =>
    \/ file \in Uuids \ Identities(hw)
    \/ store = "file" /\ (file = Blank \/ failed \/ Ambiguous(hw))

(* A changed hardware is reported in the end, by the agent itself, unless  *)
(* a tool, a probe or a write has failed since it started.                 *)
ChangeReported == <>[](up /\ file \in Uuids \ Identities(hw)
                       => changed = 1 \/ failed)

(* However the process was cut off before, one that keeps running shows    *)
(* the identity of the hardware in the end, and no other, if nothing fails *)
(* after its start.  Excepted are a host with several identities and a     *)
(* registry key that a crash has left without its value: no start repairs  *)
(* it, each gives up when it reads it.                                     *)
IdentityShown == <>[](
    \/ ~up \/ failed \/ Ambiguous(hw)
    \/ store = "registry" /\ file = Blank
    \/ \E u \in Identities(hw) : series = {u})
=============================================================================

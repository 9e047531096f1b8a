---------------------- MODULE HardwareIdentity_proofs ----------------------
(***************************************************************************)
(* Proofs about HardwareIdentity for any number of requests, hardware      *)
(* configurations and crashes: the types; that the identity file is empty  *)
(* only while a thread is bound to fill it; what a successful request      *)
(* promises; and that an alarm has a cause.                                *)
(***************************************************************************)
EXTENDS HardwareIdentity, TLAPS

(* What is stored is never removed once it is there, so a thread that      *)
(* found it will read something, and one that created the key writes it.   *)
ReadSees == \A t \in Threads : pc[t] = "read" => file # Absent

(* No thread outlives the process.                                         *)
DownIsIdle == ~up => \A t \in Threads : pc[t] = "idle"

Inv == TypeOK /\ ReadSees /\ DownIsIdle

(* A thread that takes a step moves its own program counter only.          *)
LEMMA StepMoves ==
    ASSUME TypeOK, NEW t \in Threads, NEW from \in Points, NEW to \in Points,
           Step(t, from, to)
    PROVE  /\ up /\ pc[t] = from /\ pc'[t] = to /\ pc' \in [Threads -> Points]
           /\ \A s \in Threads \ {t} : pc'[s] = pc[s]
           /\ alone' \subseteq Clients
BY DEF Step, TypeOK

(* The identities of the hardware are neither an empty file nor no file.   *)
LEMMA IdentitiesType ==
    ASSUME TypeOK
    PROVE  Identities(hw) \subseteq Uuids /\ Blank \notin Identities(hw)
           /\ Absent \notin Identities(hw)
BY IdentityAssumption DEF TypeOK, Identities, Uuids

(* What can be generated is an identity; a failure counts. *)
LEMMA GeneratedType ==
    ASSUME TypeOK, NEW u, Generated(u)
    PROVE  u \in Uuids /\ failed' \in BOOLEAN
           /\ spent' \in [{"swaps", "calls", "crashes", "failures"} -> Nat]
<1> USE IdentityAssumption DEF TypeOK
<1>1. CASE Answer(u) /\ UNCHANGED tally
  BY <1>1, IdentitiesType DEF Answer, tally
<1>2. CASE (\E v \in Views \ Complete : u = Identity(hw, v)) /\ Failure
  BY <1>2 DEF Uuids, Failure, Spend
<1> QED
  BY <1>1, <1>2 DEF Generated

LEMMA InitInv == Init => Inv
<1> SUFFICES ASSUME Init PROVE Inv
  OBVIOUS
<1> USE IdentityAssumption DEF Init
<1>1. request \in [Clients -> Requests \cup {Blank}]
  OBVIOUS
<1>2. spent \in [{"swaps", "calls", "crashes", "failures"} -> Nat]
  OBVIOUS
<1>3. pc \in [Threads -> Points] /\ \A t \in Threads : pc[t] = "idle"
  BY DEF Points, AtRest
<1> QED
  BY <1>1, <1>2, <1>3 DEF Inv, TypeOK, ReadSees, DownIsIdle

LEMMA NextInv == Inv /\ [Next]_vars => Inv'
<1> SUFFICES ASSUME Inv, [Next]_vars PROVE Inv'
  OBVIOUS
<1> USE IdentityAssumption DEF Inv, gauges, threadVars, host, tally, DownIsIdle
<1>1. CASE Swap
  BY <1>1 DEF Swap, Spend, TypeOK, ReadSees
<1>2. CASE Start
  BY <1>2 DEF Start, TypeOK, ReadSees, Threads, Points
<1>3. CASE Crash
  <2>1. pc' \in [Threads -> Points] /\ \A t \in Threads : pc'[t] = "idle"
    BY <1>3 DEF Crash, Points, AtRest
  <2>2. torn' \in BOOLEAN
    BY <1>3 DEF Crash
  <2>3. spent' \in [{"swaps", "calls", "crashes", "failures"} -> Nat]
    BY <1>3 DEF Crash, Spend, TypeOK
  <2>4. /\ uuid' \in [Threads -> Uuids \cup {Blank}]
        /\ stored' \in [Threads -> Uuids \cup {Blank}]
        /\ request' \in [Clients -> Requests \cup {Blank}]
    BY <1>3 DEF Crash
  <2> QED
    BY <1>3, <2>1, <2>2, <2>3, <2>4 DEF Crash, TypeOK, ReadSees
<1>4. ASSUME NEW c \in Clients, Call(c) PROVE Inv'
  <2>1. c \in Threads
    BY DEF Threads
  <2>2. Logins \subseteq Uuids \cup {Blank}
    BY DEF Logins, Identities, Uuids, TypeOK
  <2>3. request' \in [Clients -> Requests \cup {Blank}]
    <3>1. PICK m \in Methods, u \in Logins :
             request' = [request EXCEPT ![c] = [method |-> m, login |-> u]]
      BY <1>4 DEF Call
    <3>2. [method |-> m, login |-> u] \in Requests
      BY <2>2 DEF Requests
    <3> QED
      BY <3>1, <3>2 DEF TypeOK
  <2>4. pc' \in [Threads -> Points] /\ pc'[c] = "auth"
        /\ \A s \in Threads \ {c} : pc'[s] = pc[s]
    BY <1>4, <2>1 DEF Call, TypeOK, Points
  <2>5. alone' \subseteq Clients /\ spent' \in [{"swaps", "calls", "crashes", "failures"} -> Nat]
    BY <1>4 DEF Call, Spend, TypeOK
  <2> QED
    BY <1>4, <2>1, <2>3, <2>4, <2>5 DEF Call, TypeOK, ReadSees
<1>5. ASSUME NEW c \in Clients, Admit(c) PROVE Inv'
  <2>1. PICK to \in {"idle", "rejected", "renew"} : Step(c, "auth", to)
    BY <1>5 DEF Admit, Abort, Return
  <2>2. c \in Threads /\ to \in Points /\ "auth" \in Points
    BY <2>1 DEF Threads, Points, AtRest
  <2>3. pc'[c] = to /\ pc' \in [Threads -> Points] /\ alone' \subseteq Clients
        /\ \A s \in Threads \ {c} : pc'[s] = pc[s]
    BY <2>1, <2>2, StepMoves
  <2>4. failed' \in BOOLEAN
        /\ spent' \in [{"swaps", "calls", "crashes", "failures"} -> Nat]
    <3>1. ASSUME NEW u, Expected(u)
          PROVE  failed' \in BOOLEAN
                 /\ spent' \in [{"swaps", "calls", "crashes", "failures"} -> Nat]
      <4>1. CASE Generated(u)
        BY <4>1, GeneratedType
      <4>2. CASE UNCHANGED tally
        BY <4>2 DEF TypeOK
      <4>3. CASE Failure
        BY <4>3 DEF Failure, Spend, TypeOK
      <4> QED
        BY <3>1, <4>1, <4>2, <4>3 DEF Expected
    <3>2. CASE \E u \in Uuids \cup {Blank} : Expected(u)
      BY <3>1, <3>2
    <3>3. CASE Abort(c, "auth")
      BY <3>3 DEF Abort, Failure, Spend, TypeOK
    <3> QED
      BY <1>5, <3>2, <3>3 DEF Admit
  <2>5. request' \in [Clients -> Requests \cup {Blank}]
    BY <1>5 DEF Admit, TypeOK
  <2>6. uuid' \in [Threads -> Uuids \cup {Blank}]
        /\ \A s \in Threads \ {c} : uuid'[s] = uuid[s]
    BY <1>5, <2>2 DEF Admit, Abort, Return, TypeOK
  <2> QED
    BY <1>5, <2>1, <2>2, <2>3, <2>4, <2>5, <2>6 DEF Admit, Step, TypeOK, ReadSees
<1>6. ASSUME NEW t \in Threads, Refresh(t) PROVE Inv'
  <2> USE DEF TypeOK, ReadSees, Step, Points, AtRest
  <2> USE DEF Return
  <2>1. CASE Generate(t)
    <3>1. ASSUME NEW u \in Uuids, Generated(u), uuid' = [uuid EXCEPT ![t] = u]
          PROVE /\ uuid' \in [Threads -> Uuids \cup {Blank}] /\ uuid'[t] \in Uuids
                /\ \A s \in Threads \ {t} : uuid'[s] = uuid[s]
                /\ failed' \in BOOLEAN
                /\ spent' \in [{"swaps", "calls", "crashes", "failures"} -> Nat]
      BY <3>1, GeneratedType
    <3>2. CASE \E u \in Uuids :
                 /\ Generated(u) /\ uuid' = [uuid EXCEPT ![t] = u]
                 /\ \/ Step(t, "generate", "exists")
                    \/ Step(t, "renew", "overwrite")
      <4>1. PICK u \in Uuids : Generated(u) /\ uuid' = [uuid EXCEPT ![t] = u]
        BY <3>2
      <4>2. /\ uuid' \in [Threads -> Uuids \cup {Blank}] /\ uuid'[t] \in Uuids
            /\ \A s \in Threads \ {t} : uuid'[s] = uuid[s]
            /\ failed' \in BOOLEAN
            /\ spent' \in [{"swaps", "calls", "crashes", "failures"} -> Nat]
        BY <3>1, <4>1
      <4>3. Step(t, "generate", "exists") \/ Step(t, "renew", "overwrite")
        BY <3>2
      <4>4. UNCHANGED <<host, file, up, gauges, stored, request, torn>>
        BY <2>1 DEF Generate
      <4> QED
        BY <4>2, <4>3, <4>4
    <3>3. CASE Abort(t, "generate") \/ Abort(t, "renew")
      <4>1. UNCHANGED <<host, file, up, gauges, stored, request, torn>>
        BY <2>1 DEF Generate
      <4>2. PICK from \in {"generate", "renew"} : Abort(t, from)
        BY <3>3
      <4> QED
        BY <4>1, <4>2 DEF Abort, Failure, Spend
    <3> QED
      BY <2>1, <3>2, <3>3 DEF Generate
  <2>2. CASE KeyExists(t)
    BY <2>2 DEF KeyExists
  <2>3. CASE CreateKey(t)
    BY <2>3 DEF CreateKey
  <2>4. CASE CreateBlank(t)
    BY <2>4 DEF CreateBlank
  <2>5. CASE OpenOrCreateKey(t)
    BY <2>5 DEF OpenOrCreateKey
  <2>6. CASE Truncate(t)
    BY <2>6 DEF Truncate
  <2>7. CASE Fill(t)
    BY <2>7 DEF Fill
  <2>8. CASE SetValue(t)
    BY <2>8 DEF SetValue
  <2>9. CASE NoKey(t)
    BY <2>9 DEF NoKey
  <2>10. CASE WriteFails(t)
    BY <2>10 DEF WriteFails, Abort, Failure, Spend
  <2>11. CASE StorageFails(t)
    BY <2>11 DEF StorageFails, Abort, Failure, Spend
  <2>12. CASE Read(t)
    BY <2>12 DEF Read
  <2>13. CASE Compare(t)
    BY <2>13 DEF Compare
  <2>14. CASE Clear(t)
    BY <2>14 DEF Clear
  <2>15. CASE Reset(t)
    BY <2>15 DEF Reset
  <2>16. CASE With(t)
    BY <2>16 DEF With
  <2> QED
    BY <1>6, <2>1, <2>2, <2>3, <2>4, <2>5, <2>6, <2>7, <2>8, <2>9, <2>10,
       <2>11, <2>12, <2>13, <2>14, <2>15, <2>16 DEF Refresh
<1>7. CASE UNCHANGED vars
  BY <1>7 DEF vars, TypeOK, ReadSees
<1> QED
  BY <1>1, <1>2, <1>3, <1>4, <1>5, <1>6, <1>7 DEF Next

(* The type invariant of the identity and of the threads that keep it.     *)
THEOREM IdentityTypeCorrect == Spec => []TypeOK
<1>1. Inv => TypeOK
  BY DEF Inv
<1> QED
  BY InitInv, NextInv, <1>1, PTL DEF Spec

(* However the writes of the start and of any number of requests overlap,  *)
(* they do not leave the identity file empty between them: what is empty   *)
(* will be filled, or a crash or a failing write has cut the writer off.   *)
THEOREM BlankIsTransientCorrect == Spec => []BlankIsTransient
<1>1. Init => BlankIsTransient
  BY IdentityAssumption DEF Init, BlankIsTransient
<1>2. Inv /\ BlankIsTransient /\ [Next]_vars => BlankIsTransient'
  <2> SUFFICES ASSUME Inv, BlankIsTransient, [Next]_vars, file' = Blank
               PROVE torn' \/ \E t \in Threads : Writing(t)'
    BY DEF BlankIsTransient
  <2> USE IdentityAssumption DEF Inv, gauges, threadVars, host, tally, Writing
  <2>1. CASE Swap \/ UNCHANGED vars
    BY <2>1 DEF Swap, vars, BlankIsTransient
  <2>2. CASE Start
    <3>1. torn \/ \E t \in Threads : Writing(t)
      BY <2>2 DEF Start, BlankIsTransient
    <3> QED
      BY <2>2, <3>1 DEF Start, TypeOK, DownIsIdle, Threads
  <2>3. CASE Crash
    BY <2>3 DEF Crash, BlankIsTransient
  <2>4. ASSUME NEW c \in Clients, Call(c) \/ Admit(c)
        PROVE torn' \/ \E t \in Threads : Writing(t)'
    <3>1. ~Writing(c) /\ UNCHANGED <<file, torn>>
          /\ \A s \in Threads \ {c} : pc'[s] = pc[s]
      BY <2>4 DEF Call, Admit, Abort, Return, Step, TypeOK, AtRest, Threads
    <3> QED
      BY <3>1 DEF BlankIsTransient
  <2>5. ASSUME NEW t \in Threads, Refresh(t)
        PROVE torn' \/ \E s \in Threads : Writing(s)'
    <3> USE DEF Step, Return, TypeOK
    <3>1. CASE CreateBlank(t) \/ OpenOrCreateKey(t) \/ Truncate(t)
      BY <3>1 DEF CreateBlank, OpenOrCreateKey, Truncate
    <3>2. CASE Fill(t) \/ SetValue(t)
      BY <3>2 DEF Fill, SetValue
    <3>3. CASE WriteFails(t)
      BY <3>3 DEF WriteFails, Abort
    <3>4. CASE \/ Generate(t) \/ KeyExists(t) \/ CreateKey(t) \/ NoKey(t)
               \/ StorageFails(t) \/ Read(t) \/ Compare(t) \/ Clear(t)
               \/ Reset(t) \/ With(t)
      <4>1. ~Writing(t) /\ UNCHANGED <<file, torn>>
            /\ \A s \in Threads \ {t} : pc'[s] = pc[s]
        BY <3>4 DEF Generate, Abort, KeyExists, CreateKey, NoKey, StorageFails,
                    Read, Compare, Clear, Reset, With
      <4> QED
        BY <4>1 DEF BlankIsTransient
    <3> QED
      BY <2>5, <3>1, <3>2, <3>3, <3>4 DEF Refresh
  <2> QED
    BY <2>1, <2>2, <2>3, <2>4, <2>5 DEF Next
<1> QED
  BY InitInv, NextInv, <1>1, <1>2, PTL DEF Spec

-----------------------------------------------------------------------------
(* What a request and a start promise *)

(* A process that is down leaves nothing behind but the file, so that no   *)
(* start goes on with what an earlier one knew or with its alarm.          *)
DownForgets == ~up => alone = {} /\ changed = 0 /\ ~failed

(* While a request is alone every other thread rests: whoever takes a step *)
(* ends that, and so does a request that comes in.                         *)
OthersRest == \A c \in alone : \A t \in Threads \ {c} : ~Busy(t)

(* What a request has achieved at each point, if it is alone, nothing has  *)
(* failed and the hardware has one identity.  It finds that identity each  *)
(* time it asks; what it wrote is there when its refresh begins, so that   *)
(* the refresh reads and compares it and never creates the file.           *)
Promise(c) ==
    /\ pc[c] \notin {"create", "blank", "truncate", "fill", "clear"}
    /\ pc[c] \in {"overwrite", "refill", "exists", "read", "compare", "reset", "with"}
       => uuid[c] \in Identities(hw)
    /\ pc[c] \in {"generate", "exists", "read", "compare", "reset", "with", "replied"}
       => file \in Identities(hw)
    /\ pc[c] = "compare" => stored[c] = file
    /\ pc[c] \in {"reset", "with", "replied"} => changed = 0
    /\ pc[c] = "with" => series = {}
    /\ pc[c] = "replied" => series = {file}

Promised == ~failed /\ ~Ambiguous(hw) => \A c \in alone : Promise(c)

(* Before the first request only the goroutine of the start runs.  It has  *)
(* found an identity of the hardware, if no tool failed it; what it        *)
(* compares is what is stored, and on Windows that is never empty; and the *)
(* alarm is off until it has compared.                                     *)
OnlyBoot == spent.calls = 0 => \A c \in Clients : pc[c] = "idle"
BootKnows == spent.calls = 0 =>
    /\ pc[Boot] \in {"exists", "create", "blank", "truncate", "fill", "read", "compare"}
       => uuid[Boot] \in Identities(hw) \/ (store = "file" /\ failed)
    /\ pc[Boot] = "compare"
       => stored[Boot] = file /\ (store = "registry" => file # Blank)
    /\ changed = 1 => pc[Boot] \in {"reset", "with", "idle"}

(* Only a change of the hardware changes its identities.                   *)
LEMMA SameHost ==
    ASSUME UNCHANGED host
    PROVE  Identities(hw)' = Identities(hw) /\ Ambiguous(hw)' = Ambiguous(hw)
BY DEF host, Identities, Ambiguous

(* A generated identity is one of the hardware, or a tool has failed; and  *)
(* on Windows a failure ends the call.                                     *)
LEMMA GeneratedIsReal ==
    ASSUME NEW u, Generated(u)
    PROVE  \/ u \in Identities(hw) /\ UNCHANGED tally
           \/ store = "file" /\ failed' = TRUE
BY DEF Generated, Answer, Failure

LEMMA RefreshSteps ==
    ASSUME Inv, NEW t \in Threads, Refresh(t)
    PROVE  /\ up /\ up' /\ alone' = alone \cap {t}
           /\ pc[t] \notin AtRest \cup {"auth"}
           /\ \A s \in Threads \ {t} : pc'[s] = pc[s] /\ uuid'[s] = uuid[s] /\ stored'[s] = stored[s]
           /\ UNCHANGED host /\ spent'.calls = spent.calls
           /\ failed' = failed \/ failed' = TRUE
<1> USE DEF Inv, TypeOK, Step, Return, AtRest, host, tally, threadVars, gauges
<1>1. CASE Generate(t)
  <2>1. ASSUME NEW u, Generated(u)
        PROVE  spent'.calls = spent.calls /\ (failed' = failed \/ failed' = TRUE)
    BY <2>1 DEF Generated, Failure, Spend
  <2>2. ASSUME Abort(t, "generate") \/ Abort(t, "renew")
        PROVE  /\ spent'.calls = spent.calls /\ failed' = TRUE
               /\ up /\ alone' = alone \cap {t} /\ pc[t] \in {"generate", "renew"}
               /\ \A s \in Threads \ {t} : pc'[s] = pc[s] /\ uuid'[s] = uuid[s]
    BY <2>2 DEF Abort, Failure, Spend
  <2> QED
    BY <1>1, <2>1, <2>2 DEF Generate
<1>2. CASE WriteFails(t) \/ StorageFails(t)
  BY <1>2 DEF WriteFails, StorageFails, Abort, Failure, Spend
<1>3. CASE \/ KeyExists(t) \/ CreateKey(t) \/ CreateBlank(t) \/ OpenOrCreateKey(t)
           \/ Truncate(t) \/ Fill(t) \/ SetValue(t) \/ NoKey(t)
  BY <1>3 DEF KeyExists, CreateKey, CreateBlank, OpenOrCreateKey, Truncate, Fill,
              SetValue, NoKey
<1>4. CASE Read(t) \/ Compare(t) \/ Clear(t) \/ Reset(t) \/ With(t)
  BY <1>4 DEF Read, Compare, Clear, Reset, With
<1> QED
  BY <1>1, <1>2, <1>3, <1>4 DEF Refresh

LEMMA AdmitSteps ==
    ASSUME Inv, NEW c \in Clients, Admit(c)
    PROVE  /\ up /\ up' /\ alone' = alone \cap {c} /\ pc[c] = "auth"
           /\ pc'[c] \in {"idle", "rejected", "renew"}
           /\ \A s \in Threads \ {c} : pc'[s] = pc[s] /\ uuid'[s] = uuid[s] /\ stored'[s] = stored[s]
           /\ UNCHANGED <<host, file, gauges>> /\ spent'.calls = spent.calls
           /\ failed' = failed \/ failed' = TRUE
<1> USE DEF Inv, TypeOK, Step, Return, host, tally, Threads
<1>1. ASSUME NEW u, Expected(u)
      PROVE  spent'.calls = spent.calls /\ (failed' = failed \/ failed' = TRUE)
  BY <1>1 DEF Expected, Generated, Failure, Spend
<1>2. CASE Abort(c, "auth")
  BY <1>2 DEF Admit, Abort, Failure, Spend
<1>3. CASE \E u \in Uuids \cup {Blank} :
             /\ Expected(u)
             /\ Step(c, "auth", CASE request[c].login # u -> "idle"
                                  [] request[c].method # "POST" -> "rejected"
                                  [] OTHER -> "renew")
             /\ UNCHANGED uuid
  <2>1. PICK u \in Uuids \cup {Blank} :
             /\ Expected(u)
             /\ Step(c, "auth", CASE request[c].login # u -> "idle"
                                  [] request[c].method # "POST" -> "rejected"
                                  [] OTHER -> "renew")
             /\ UNCHANGED uuid
    BY <1>3
  <2> QED
    BY <1>1, <2>1 DEF Admit
<1> QED
  BY <1>2, <1>3 DEF Admit

LEMMA RestInit == Init => DownForgets /\ OthersRest /\ Promised
BY DEF Init, DownForgets, OthersRest, Promised

LEMMA RestNext ==
    Inv /\ DownForgets /\ OthersRest /\ [Next]_vars => DownForgets' /\ OthersRest'
<1> SUFFICES ASSUME Inv, DownForgets, OthersRest, [Next]_vars
             PROVE  DownForgets' /\ OthersRest'
  OBVIOUS
<1> USE IdentityAssumption DEF DownForgets, OthersRest, Busy
<1>1. CASE Swap
  BY <1>1 DEF Swap, gauges
<1>2. CASE Start
  BY <1>2 DEF Start
<1>3. CASE Crash
  BY <1>3 DEF Crash
<1>4. ASSUME NEW c \in Clients, Call(c) PROVE DownForgets' /\ OthersRest'
  <2>1. \A t \in Threads \ {c} : pc'[t] = pc[t]
    BY <1>4 DEF Call
  <2> QED
    BY <1>4, <2>1 DEF Call
<1>5. ASSUME NEW c \in Clients, Admit(c) PROVE DownForgets' /\ OthersRest'
  <2>1. up' /\ alone' = alone \cap {c} /\ \A s \in Threads \ {c} : pc'[s] = pc[s]
    BY <1>5, AdmitSteps
  <2> QED
    BY <2>1
<1>6. ASSUME NEW t \in Threads, Refresh(t) PROVE DownForgets' /\ OthersRest'
  <2>1. up' /\ alone' = alone \cap {t} /\ \A s \in Threads \ {t} : pc'[s] = pc[s]
    BY <1>6, RefreshSteps
  <2> QED
    BY <2>1
<1>7. CASE UNCHANGED vars
  BY <1>7 DEF vars, gauges, tally
<1> QED
  BY <1>1, <1>2, <1>3, <1>4, <1>5, <1>6, <1>7 DEF Next

(* A request that is alone and takes a step of its refresh gets on with    *)
(* what it promises.                                                       *)
LEMMA PromiseStep ==
    ASSUME Inv, NEW c \in Clients, Refresh(c), Promise(c), ~failed',
           ~Ambiguous(hw)
    PROVE  Promise(c)'
<1> USE IdentityAssumption DEF Inv, TypeOK, Step, Return, Promise, Threads, Points, AtRest,
        host, tally, threadVars, gauges
<1>1. c \in Threads /\ c # Boot
  OBVIOUS
<1>2. /\ Blank \notin Identities(hw) /\ Absent \notin Identities(hw)
      /\ Identities(hw)' = Identities(hw)
  BY RefreshSteps, IdentitiesType, SameHost
<1>3. \A u, w \in Identities(hw) : u = w
  BY DEF Ambiguous
<1>4. CASE Generate(c)
  <2>1. ~Abort(c, "generate") /\ ~Abort(c, "renew")
    BY DEF Abort, Failure
  <2>2. PICK u \in Uuids :
          /\ Generated(u) /\ uuid' = [uuid EXCEPT ![c] = u]
          /\ \/ Step(c, "generate", "exists")
             \/ Step(c, "renew", "overwrite")
    BY <1>4, <2>1 DEF Generate
  <2>3. u \in Identities(hw)
    BY <2>2, GeneratedIsReal
  <2> QED
    BY <1>1, <1>2, <1>4, <2>2, <2>3 DEF Generate
<1>5. CASE WriteFails(c) \/ StorageFails(c)
  BY <1>5 DEF WriteFails, StorageFails, Abort, Failure
<1>6. CASE KeyExists(c) \/ CreateKey(c) \/ CreateBlank(c) \/ OpenOrCreateKey(c)
  BY <1>1, <1>2, <1>6 DEF KeyExists, CreateKey, CreateBlank, OpenOrCreateKey
<1>7. CASE Truncate(c) \/ Fill(c) \/ SetValue(c) \/ NoKey(c)
  BY <1>1, <1>2, <1>7 DEF Truncate, Fill, SetValue, NoKey
<1>8. CASE Read(c)
  BY <1>1, <1>2, <1>8 DEF Read
<1>9. CASE Compare(c)
  BY <1>1, <1>2, <1>3, <1>9 DEF Compare
<1>10. CASE Clear(c) \/ Reset(c)
  BY <1>1, <1>2, <1>10 DEF Clear, Reset
<1>11. CASE With(c)
  BY <1>1, <1>2, <1>3, <1>11 DEF With
<1> QED
  BY <1>4, <1>5, <1>6, <1>7, <1>8, <1>9, <1>10, <1>11 DEF Refresh

LEMMA PromisedNext ==
    Inv /\ DownForgets /\ OthersRest /\ Promised /\ [Next]_vars => Promised'
<1> SUFFICES ASSUME Inv, DownForgets, Promised, [Next]_vars, ~failed',
                    ~Ambiguous(hw)', NEW c \in alone'
             PROVE  Promise(c)'
  BY DEF Promised
<1> USE IdentityAssumption DEF DownForgets, Promised
<1>1. CASE Swap \/ Crash
  BY <1>1 DEF Swap, Crash
<1>2. CASE Start
  BY <1>2 DEF Start
<1>3. ASSUME NEW d \in Clients, Call(d) PROVE Promise(c)'
  <2>1. c = d
    BY <1>3 DEF Call
  <2>2. pc'[c] = "auth"
    BY <1>3, <2>1 DEF Call, Inv, TypeOK, Threads
  <2> QED
    BY <2>2 DEF Promise
<1>4. ASSUME NEW d \in Clients, Admit(d) PROVE Promise(c)'
  <2>1. pc'[c] \in {"idle", "rejected", "renew"}
    BY <1>4, AdmitSteps
  <2> QED
    BY <2>1 DEF Promise
<1>5. ASSUME NEW t \in Threads, Refresh(t) PROVE Promise(c)'
  <2>1. c = t /\ c \in alone /\ ~failed
    BY <1>5, RefreshSteps
  <2>2. ~Ambiguous(hw)
    BY <1>5, RefreshSteps, SameHost
  <2>3. Promise(c) /\ c \in Clients
    BY <2>1, <2>2 DEF Inv, TypeOK
  <2> QED
    BY <1>5, <2>1, <2>2, <2>3, PromiseStep
<1>6. CASE UNCHANGED vars
  <2>1. UNCHANGED host
    BY <1>6 DEF vars, host
  <2>2. c \in alone /\ ~failed /\ ~Ambiguous(hw) /\ Identities(hw)' = Identities(hw)
    BY <1>6, <2>1, SameHost DEF vars, tally
  <2>3. UNCHANGED <<file, changed, series, pc, uuid, stored>>
    BY <1>6 DEF vars, gauges, threadVars
  <2> QED
    BY <2>2, <2>3 DEF Promise
<1> QED
  BY <1>1, <1>2, <1>3, <1>4, <1>5, <1>6 DEF Next

(* What a successful request promises to a caller who was alone, for any   *)
(* number of callers before and after it, and any crashes, failures and    *)
(* changes of the hardware before it: its identity is stored, the alarm is *)
(* off and the gauge of the identity shows that one alone.                 *)
THEOREM SuccessConfirmsCorrect == Spec => []SuccessConfirms
<1>1. Inv /\ Promised => SuccessConfirms
  <2> SUFFICES ASSUME Promised, NEW c \in Clients, pc[c] = "replied", c \in alone,
                      ~failed, ~Ambiguous(hw)
               PROVE  Confirmed
    BY DEF SuccessConfirms
  <2> QED
    BY DEF Promised, Promise, Confirmed
<1> QED
  BY InitInv, NextInv, RestInit, RestNext, PromisedNext, <1>1, PTL DEF Spec

-----------------------------------------------------------------------------
(* Before the first request, on hardware that stays while the agent runs   *)

StartInv == OnlyBoot /\ BootKnows /\ AlarmJustified

LEMMA StartInit == Init => StartInv
BY IdentityAssumption DEF Init, StartInv, OnlyBoot, BootKnows, AlarmJustified, Threads

(* The goroutine of the start takes a step of its refresh. *)
LEMMA BootStep ==
    ASSUME Inv, StartInv, Refresh(Boot), spent.calls = 0
    PROVE  BootKnows' /\ AlarmJustified'
<1> USE IdentityAssumption DEF Inv, TypeOK, Step, Return, Threads, Points, AtRest,
        host, tally, threadVars, gauges, StartInv, BootKnows, AlarmJustified
<1>1. /\ Boot \in Threads /\ spent'.calls = 0
      /\ failed' = failed \/ failed' = TRUE
      /\ Blank \notin Identities(hw) /\ Absent \notin Identities(hw)
      /\ UNCHANGED host
      /\ Identities(hw)' = Identities(hw) /\ Ambiguous(hw)' = Ambiguous(hw)
  BY RefreshSteps, IdentitiesType, SameHost
<1>2. UNCHANGED Uuids
  BY DEF Uuids
<1>3. CASE Generate(Boot)
  <2>1. CASE Abort(Boot, "generate") \/ Abort(Boot, "renew")
    BY <1>1, <1>2, <1>3, <2>1 DEF Generate, Abort, Failure
  <2>2. CASE \E u \in Uuids :
               /\ Generated(u) /\ uuid' = [uuid EXCEPT ![Boot] = u]
               /\ \/ Step(Boot, "generate", "exists")
                  \/ Step(Boot, "renew", "overwrite")
    <3>1. PICK u \in Uuids :
               /\ Generated(u) /\ uuid' = [uuid EXCEPT ![Boot] = u]
               /\ \/ Step(Boot, "generate", "exists")
                  \/ Step(Boot, "renew", "overwrite")
      BY <2>2
    <3>2. \/ u \in Identities(hw) /\ UNCHANGED tally
          \/ store = "file" /\ failed' = TRUE
      BY <3>1, GeneratedIsReal
    <3>3. changed = 0
      BY <3>1
    <3> QED
      BY <1>1, <1>2, <1>3, <3>1, <3>2, <3>3 DEF Generate
  <2> QED
    BY <1>3, <2>1, <2>2 DEF Generate
<1>4. CASE WriteFails(Boot) \/ StorageFails(Boot)
  BY <1>1, <1>2, <1>4 DEF WriteFails, StorageFails, Abort, Failure
<1>5. CASE \/ KeyExists(Boot) \/ CreateKey(Boot) \/ CreateBlank(Boot)
           \/ OpenOrCreateKey(Boot)
  BY <1>1, <1>2, <1>5 DEF KeyExists, CreateKey, CreateBlank, OpenOrCreateKey
<1>6. CASE Truncate(Boot) \/ Fill(Boot) \/ SetValue(Boot) \/ NoKey(Boot)
  BY <1>1, <1>2, <1>6 DEF Truncate, Fill, SetValue, NoKey
<1>7. CASE Read(Boot)
  BY <1>1, <1>2, <1>7 DEF Read
<1>8. CASE Compare(Boot)
  <2>1. CASE stored[Boot] = uuid[Boot]
    BY <1>1, <1>2, <1>8, <2>1 DEF Compare
  <2>2. CASE stored[Boot] # uuid[Boot]
    <3>1. /\ stored[Boot] = file /\ file \in Uuids \cup {Blank}
          /\ store = "registry" => file # Blank
          /\ store \in {"file", "registry"}
          /\ uuid[Boot] \in Identities(hw) \/ (store = "file" /\ failed)
      BY <1>8 DEF Compare
    <3>2. \/ file \in Uuids \ Identities(hw)
          \/ store = "file" /\ (file = Blank \/ failed \/ Ambiguous(hw))
      <4>1. CASE store = "file"
        BY <2>2, <3>1, <4>1 DEF Ambiguous
      <4>2. CASE store = "registry"
        BY <2>2, <3>1, <4>2 DEF Identities
      <4> QED
        BY <3>1, <4>1, <4>2
    <3>3. UNCHANGED <<file, failed, hw, store>>
      BY <1>8 DEF Compare
    <3>4. AlarmJustified'
      BY <1>1, <1>2, <3>2, <3>3
    <3> QED
      BY <1>1, <1>8, <3>4 DEF Compare
  <2> QED
    BY <2>1, <2>2
<1>9. CASE Clear(Boot) \/ Reset(Boot) \/ With(Boot)
  BY <1>1, <1>2, <1>9 DEF Clear, Reset, With
<1> QED
  BY <1>3, <1>4, <1>5, <1>6, <1>7, <1>8, <1>9 DEF Refresh

LEMMA StartNext ==
    ASSUME ~HotSwap
    PROVE  Inv /\ DownForgets /\ StartInv /\ [Next]_vars => StartInv'
<1> SUFFICES ASSUME Inv, DownForgets, StartInv, [Next]_vars, spent'.calls = 0
             PROVE  OnlyBoot' /\ BootKnows' /\ AlarmJustified'
  BY DEF StartInv, OnlyBoot, BootKnows, AlarmJustified
<1> USE IdentityAssumption DEF DownForgets
<1>1. CASE Swap
  <2>1. changed' = 0 /\ spent.calls = 0 /\ UNCHANGED pc
    BY <1>1 DEF Swap, Spend, Inv, TypeOK, gauges
  <2>2. \A t \in Threads : pc'[t] = "idle"
    BY <1>1, <2>1 DEF Swap, Inv, DownIsIdle
  <2> QED
    BY <2>1, <2>2 DEF OnlyBoot, BootKnows, AlarmJustified, Threads
<1>2. CASE Start
  <2>1. changed' = 0 /\ pc'[Boot] = "generate" /\ \A c \in Clients : pc'[c] = "idle"
    BY <1>2 DEF Start, Inv, TypeOK, DownIsIdle, Threads, gauges
  <2> QED
    BY <2>1 DEF OnlyBoot, BootKnows, AlarmJustified
<1>3. CASE Crash
  <2>1. changed' = 0 /\ \A t \in Threads : pc'[t] = "idle"
    BY <1>3 DEF Crash
  <2> QED
    BY <2>1 DEF OnlyBoot, BootKnows, AlarmJustified, Threads
<1>4. ASSUME NEW c \in Clients, Call(c) PROVE FALSE
  BY <1>4 DEF Call, Spend, Inv, TypeOK
<1>5. ASSUME NEW c \in Clients, Admit(c) PROVE FALSE
  <2>1. spent.calls = 0 /\ pc[c] = "auth"
    BY <1>5, AdmitSteps
  <2> QED
    BY <2>1 DEF StartInv, OnlyBoot
<1>6. ASSUME NEW t \in Threads, Refresh(t)
      PROVE  OnlyBoot' /\ BootKnows' /\ AlarmJustified'
  <2>1. spent.calls = 0 /\ pc[t] \notin AtRest
        /\ \A s \in Threads \ {t} : pc'[s] = pc[s]
    BY <1>6, RefreshSteps
  <2>2. t = Boot
    BY <2>1 DEF StartInv, OnlyBoot, Threads, AtRest
  <2>3. OnlyBoot'
    BY <2>1, <2>2 DEF StartInv, OnlyBoot, Threads
  <2> QED
    BY <1>6, <2>1, <2>2, <2>3, BootStep
<1>7. CASE UNCHANGED vars
  <2>1. UNCHANGED <<store, hw, file, changed, pc, uuid, stored, failed, spent>>
    BY <1>7 DEF vars, gauges, threadVars, host, tally
  <2>2. Identities(hw)' = Identities(hw) /\ Ambiguous(hw)' = Ambiguous(hw)
        /\ UNCHANGED Uuids
    BY <2>1, SameHost DEF host, Uuids
  <2> QED
    BY <2>1, <2>2 DEF StartInv, OnlyBoot, BootKnows, AlarmJustified
<1> QED
  BY <1>1, <1>2, <1>3, <1>4, <1>5, <1>6, <1>7 DEF Next

(* An alarm of a start has a cause, however the earlier starts ended, if   *)
(* the hardware stays while the agent runs: one that comes back while it   *)
(* runs finds the alarm of its absence still on.                           *)
THEOREM AlarmJustifiedCorrect == ~HotSwap => (Spec => []AlarmJustified)
<1> SUFFICES ASSUME ~HotSwap PROVE Spec => []AlarmJustified
  OBVIOUS
<1>1. StartInv => AlarmJustified
  BY DEF StartInv
<1>2. Inv /\ DownForgets /\ StartInv /\ [Next]_vars => StartInv'
  BY StartNext
<1> QED
  BY InitInv, NextInv, RestInit, RestNext, StartInit, <1>1, <1>2, PTL DEF Spec
=============================================================================

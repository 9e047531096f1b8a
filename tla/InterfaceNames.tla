---------------------------- MODULE InterfaceNames ----------------------------
(***************************************************************************)
(* The names under which RecordNetworkMetrics shows the interfaces on      *)
(* Linux: not that of the kernel, but what lspci calls the device, or else *)
(* its PCI numbers.  They are looked up for all interfaces at once, and    *)
(* kept for five minutes under the names of the kernel, which a device     *)
(* that is plugged in may have taken over from another one; the minutes    *)
(* may be over in the middle of a round.  Interfaces with one name share a *)
(* series, and a series, once it is there, is never removed.  What a round *)
(* makes of the counters, those of an interface that it has not listed     *)
(* among them, is in CounterSampler.                                       *)
(***************************************************************************)
EXTENDS Naturals

CONSTANTS
    Slots,       \* names of the kernel, in the order of their numbers
    Adapters,
    Models,      \* what lspci calls a device; it has numbers of its own
    NoModel,     \* not on the PCI bus: USB, bridges, tunnels
    NoAdapter,   \* nothing in the slot; nothing shown
    Minutes,     \* for which names are kept
    MaxChanges   \* bound: changes of the interfaces, and failures

ASSUME NamesAssumption ==
    /\ Slots \subseteq Nat
    /\ NoModel \notin Models /\ NoAdapter \notin Adapters \cup {0, 1}
    /\ Minutes \in Nat \ {0} /\ MaxChanges \in Nat

VARIABLES
    model,       \* of each adapter
    lspci,       \* is it installed?
    slot,        \* the adapter in each slot
    isUp,        \* slots whose link is up
    phase,       \* where the goroutine is in its round
    interfaces,  \* flags of the interfaces listed and not yet shown
    ifaceNameCache, expiry,   \* and the minutes until it expires
    networkStatus,
    changes

namesVars == <<model, lspci, slot, isUp, phase, interfaces, ifaceNameCache,
               expiry, networkStatus, changes>>
slots == <<model, lspci, slot, isUp>>

Kernel(s) == <<"kernel", s>>
Labels == ({"lspci", "PCI"} \X Models) \cup {Kernel(s) : s \in Slots}

NamesInit ==
    /\ model \in [Adapters -> Models \cup {NoModel}] /\ lspci \in BOOLEAN
    /\ slot \in [Slots -> Adapters \cup {NoAdapter}]
    /\ \A s, t \in Slots : s # t => slot[s] # slot[t] \/ slot[s] = NoAdapter
    /\ isUp = {} /\ phase = "list"
    /\ interfaces = [s \in Slots |-> NoAdapter]
    /\ ifaceNameCache = [s \in Slots |-> Kernel(s)] /\ expiry = 0
    /\ networkStatus = [n \in Labels |-> NoAdapter]
    /\ changes = 0

Change == changes < MaxChanges /\ changes' = changes + 1
NoChange == UNCHANGED changes

-----------------------------------------------------------------------------
(* loadInterfaceNames: what lspci tells, the numbers if it fails, and no   *)
(* names if /sys/class/net cannot be read.  There is no name for what has  *)
(* no PCI device either, and friendlyInterfaceName then takes the one of   *)
(* the kernel.                                                             *)
Source == IF lspci THEN "lspci" ELSE "PCI"
NameOf(s, source) ==
    IF source = "none" \/ slot[s] = NoAdapter \/ model[slot[s]] = NoModel
    THEN Kernel(s)
    ELSE <<source, model[slot[s]]>>

LoadInterfaceNames(source) == [s \in Slots |-> NameOf(s, source)]

(* Mutant of Expired: the names are loaded once. *)
ExpiredOnce == expiry = 0 /\ networkStatus = [n \in Labels |-> NoAdapter]

Expired == expiry = 0

(* The cache that friendlyInterfaceName takes a name from. *)
FriendlyInterfaceName ==
    \/ /\ ~Expired
       /\ UNCHANGED <<ifaceNameCache, expiry>> /\ NoChange
    \/ /\ Expired
       /\ \E source \in {Source, "PCI", "none"} :
            /\ ifaceNameCache' = LoadInterfaceNames(source)
            /\ IF source = Source THEN NoChange ELSE Change
       /\ expiry' = Minutes

(* net.Interfaces, with their flags; or nothing, and then none is shown. *)
ListInterfaces ==
    /\ phase = "list"
    /\ \/ /\ interfaces' = [s \in Slots |-> IF slot[s] = NoAdapter THEN NoAdapter
                                            ELSE IF s \in isUp THEN 1 ELSE 0]
          /\ NoChange
       \/ Change /\ UNCHANGED interfaces
    /\ phase' = "show"
    /\ UNCHANGED <<slots, ifaceNameCache, expiry, networkStatus>>

(* The next interface listed is shown, under its name of now. *)
ShowStatus ==
    /\ phase = "show"
    /\ \E s \in Slots :
         /\ interfaces[s] # NoAdapter
         /\ \A t \in Slots : interfaces[t] # NoAdapter => s <= t
         /\ FriendlyInterfaceName
         /\ networkStatus' = [networkStatus EXCEPT ![ifaceNameCache'[s]] = interfaces[s]]
         /\ interfaces' = [interfaces EXCEPT ![s] = NoAdapter]
    /\ UNCHANGED <<slots, phase>>

(* The round ends with the list. *)
AllShown == \A s \in Slots : interfaces[s] = NoAdapter
NextTick ==
    /\ phase = "show" /\ AllShown /\ phase' = "list"
    /\ NoChange
    /\ UNCHANGED <<slots, interfaces, ifaceNameCache, expiry, networkStatus>>

NamesStep == ListInterfaces \/ ShowStatus \/ NextTick

-----------------------------------------------------------------------------
(* A minute of the five is over. *)
PassMinute ==
    /\ expiry > 0 /\ expiry' = expiry - 1 /\ NoChange
    /\ UNCHANGED <<slots, phase, interfaces, ifaceNameCache, networkStatus>>

(* An adapter is plugged in or out, or its link goes up or down. *)
Plug(s) ==
    /\ slot[s] = NoAdapter
    /\ \E a \in Adapters \ {slot[t] : t \in Slots} : slot' = [slot EXCEPT ![s] = a]
    /\ UNCHANGED isUp
Unplug(s) ==
    /\ slot[s] # NoAdapter /\ slot' = [slot EXCEPT ![s] = NoAdapter]
    /\ isUp' = isUp \ {s}
SwitchLink(s) ==
    /\ slot[s] # NoAdapter /\ UNCHANGED slot
    /\ isUp' = IF s \in isUp THEN isUp \ {s} ELSE isUp \cup {s}

Rewire ==
    /\ \E s \in Slots : Plug(s) \/ Unplug(s) \/ SwitchLink(s)
    /\ Change
    /\ UNCHANGED <<model, lspci, phase, interfaces, ifaceNameCache, expiry,
                   networkStatus>>

NamesNext == NamesStep \/ PassMinute \/ Rewire

(* The goroutine is scheduled and time passes. *)
NamesSpec ==
    /\ NamesInit /\ [][NamesNext]_namesVars
    /\ WF_namesVars(NamesStep) /\ WF_namesVars(PassMinute)

-----------------------------------------------------------------------------
(* Properties *)

NamesTypeOK ==
    /\ model \in [Adapters -> Models \cup {NoModel}] /\ lspci \in BOOLEAN
    /\ slot \in [Slots -> Adapters \cup {NoAdapter}] /\ isUp \subseteq Slots
    /\ phase \in {"list", "show"}
    /\ interfaces \in [Slots -> {NoAdapter, 0, 1}]
    /\ ifaceNameCache \in [Slots -> Labels] /\ expiry \in 0 .. Minutes
    /\ networkStatus \in [Labels -> {NoAdapter, 0, 1}]
    /\ changes \in 0 .. MaxChanges

(* Whatever was plugged into where, and whatever lspci failed to tell, in  *)
(* the end an interface is shown under the name of the device behind it,   *)
(* and what is shown there is the status of an interface of that name: its *)
(* own if no other one has that name.                                      *)
ProperName(s) == NameOf(s, Source)
StatusUnderItsName == \A s \in Slots : <>[](
    slot[s] # NoAdapter =>
        \E t \in Slots :
            /\ slot[t] # NoAdapter /\ ProperName(t) = ProperName(s)
            /\ networkStatus[ProperName(s)] = IF t \in isUp THEN 1 ELSE 0)
===============================================================================

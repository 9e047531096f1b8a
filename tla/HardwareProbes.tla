--------------------------- MODULE HardwareProbes ---------------------------
(***************************************************************************)
(* What GenerateHardwareUUID hashes on Linux, as a function of the host    *)
(* and of the tools that answer when it is called.  No tool is asked for   *)
(* twice and no error is kept: what a tool does not tell is left out, or   *)
(* another one is asked, which tells it in other words.                    *)
(*                                                                         *)
(* A host is a record of                                                   *)
(*    board   what firmware, CPU, system and motherboard tell of themselves*)
(*    block   the entries of /sys/block, each with its driver              *)
(*    nics    the network interfaces, each with its address and whether a  *)
(*            device stands behind it, once its driver is there            *)
(*    slots   the memory slots: a size in MB, and if it is SRAM of the PCH *)
(*    titled  does dmidecode begin each block with its title, as the code  *)
(*            wants it, or with a line that names its handle?              *)
(*    gpus    the cards, with the memory each source knows of under the    *)
(*            same bus ID, and 0 if it knows none                          *)
(*    drm     /sys/class/drm: "cards" if there are drivers that list them, *)
(*            "empty" if there are none, "none" if it cannot be read       *)
(* A view has the set of tools that answer and the order in which the loop *)
(* over the map of names runs.  SHA-256 is taken for the identity: no two  *)
(* hashes are equal by chance.                                             *)
(***************************************************************************)
EXTENDS Naturals, SequencesExt

Tools == {"dmidecode", "lshw", "lspci", "nvidia-smi", "drivers"}
Orders == {"found", "reversed"}   \* the orders of two names
NoAddress == ""

-----------------------------------------------------------------------------
(* Disks and interfaces *)

DiskIdentifiers(host) ==
    SelectSeq(host.block, LAMBDA b : b.driver \notin {"loop", "ram", "fd"})

(* The first interface with a device, or else the first with an address.   *)
FirstPhysicalMAC(host, tools) ==
    LET addressed == SelectSeq(host.nics, LAMBDA n : n.mac # NoAddress)
        physical == SelectSeq(addressed,
                       LAMBDA n : n.device /\ "drivers" \in tools)
    IN  CASE physical # <<>> -> Head(physical).mac
          [] physical = <<>> /\ addressed # <<>> -> Head(addressed).mac
          [] OTHER -> NoAddress

-----------------------------------------------------------------------------
(* Memory modules *)

ShouldSkipModule(m) == m.mb < 64 \/ m.sram

(* Each tool tells the speed in its own way, so that no module of one      *)
(* equals a module of the other.                                           *)
As(tool, slots) == [i \in DOMAIN slots |-> [slot |-> slots[i], speed |-> tool]]

FromDmidecode(host) ==
    As("dmidecode", SelectSeq(host.slots,
                       LAMBDA m : host.titled /\ m.mb > 0 /\ ~ShouldSkipModule(m)))

(* A bank ends where the next one starts; the filter is only there for the *)
(* one that the output ends with.                                          *)
FromLshw(host) ==
    LET n == Len(host.slots)
        kept == {i \in 1 .. n : /\ host.slots[i].mb > 0
                                /\ i = n => ~ShouldSkipModule(host.slots[i])}
    IN  As("lshw", [i \in 1 .. Cardinality(kept) |->
                      host.slots[SetToSortSeq(kept, <)[i]]])

ParseMemoryModules(host, tools) ==
    LET dmidecode == IF "dmidecode" \in tools THEN FromDmidecode(host) ELSE <<>>
    IN  CASE dmidecode # <<>> -> dmidecode
          [] dmidecode = <<>> /\ "lshw" \in tools -> FromLshw(host)
          [] OTHER -> <<>>

-----------------------------------------------------------------------------
(* Graphics cards *)

(* The name that lspci knows, or the numbers of vendor and device. *)
Label(g, tools) == IF "lspci" \in tools THEN g.name ELSE g.id

(* sysfs, nvidia-smi and the largest region that lspci knows of.           *)
MemoryOf(g, tools) ==
    CASE g.vram > 0 -> g.vram
      [] g.vram = 0 /\ "nvidia-smi" \in tools /\ g.smi > 0 -> g.smi
      [] g.vram = 0 /\ ~("nvidia-smi" \in tools /\ g.smi > 0)
            /\ "lspci" \in tools -> g.region
      [] OTHER -> 0

(* The cards that have drivers; if there are none, the names that lspci    *)
(* knows, in the order of a map; and no cards, whatever lspci knows, if    *)
(* there is no directory to list them in.                                  *)
DiscoverGPUDevices(host, view) ==
    LET cards == IF "drivers" \in view.tools THEN host.gpus ELSE <<>>
        named == IF "lspci" \in view.tools
                 THEN [i \in DOMAIN host.gpus |->
                         [name |-> host.gpus[i].name, memory |-> 0]]
                 ELSE <<>>
    IN  CASE host.drm = "none" -> <<>>
          [] host.drm = "cards" /\ cards # <<>> ->
               [i \in DOMAIN cards |-> [name |-> Label(cards[i], view.tools),
                                        memory |-> MemoryOf(cards[i], view.tools)]]
          [] OTHER -> IF view.order = "found" THEN named ELSE Reverse(named)

-----------------------------------------------------------------------------
IdentityOf(host, view) ==
    <<host.board, DiskIdentifiers(host), FirstPhysicalMAC(host, view.tools),
      ParseMemoryModules(host, view.tools), DiscoverGPUDevices(host, view)>>
=============================================================================

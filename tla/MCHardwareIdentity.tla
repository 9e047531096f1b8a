------------------------- MODULE MCHardwareIdentity -------------------------
(* Instances of HardwareIdentity for TLC, whose identities are those that  *)
(* the probes of Linux find on a few hosts.                                *)
EXTENDS HardwareIdentity, HardwareProbes

Ethernet == [mac |-> "mac1", device |-> TRUE]
Bridge == [mac |-> "mac2", device |-> FALSE]
Dram(mb) == [mb |-> mb, sram |-> FALSE]
Sram == [mb |-> 2, sram |-> TRUE]
Card(i, name, vram, smi) ==
    [id |-> i, name |-> name, vram |-> vram, smi |-> smi, region |-> 1]

Office == [board |-> "b1", block |-> <<[driver |-> "sd", name |-> "sda"]>>,
           nics |-> <<Bridge, Ethernet>>,
           slots |-> <<Dram(4096), Sram, Dram(4096)>>, titled |-> FALSE,
           gpus |-> <<Card("10de:1cb1", "nvidia", 0, 4)>>, drm |-> "cards"]

(* The same host with a mounted image, which is no change of the hardware, *)
(* with a bank of memory less and a kernel without drm, and with two cards *)
(* that no driver lists and another dmidecode.                             *)
Mounted == [Office EXCEPT !.block = <<[driver |-> "loop", name |-> "loop0"]>> \o @]
Halved == [Office EXCEPT !.slots = <<Dram(4096), Sram>>, !.drm = "none"]
Headless == [Office EXCEPT !.drm = "empty", !.titled = TRUE,
                !.gpus = <<Card("10de:1cb1", "nvidia", 0, 4), Card("102b:0534", "matrox", 0, 0)>>]

Host == [office |-> Office, mounted |-> Mounted, halved |-> Halved,
         headless |-> Headless]

(* Bound: at most one tool fails at a time, and it is one whose silence    *)
(* changes the most of what is found: no memory at all, or other cards,    *)
(* amounts of their memory and addresses.                                  *)
AllAnswer == Orders
View ==
    [v \in AllAnswer \cup {"lshw", "drivers"} |->
        IF v \in AllAnswer THEN [tools |-> Tools, order |-> v]
                           ELSE [tools |-> Tools \ {v}, order |-> "found"]]

OneHost == {"office"}
AllHosts == DOMAIN Host
AllViews == DOMAIN View

(* The hash of what is found stands for all that hashes to it.  The table  *)
(* of all hashes is built once: @@ makes TLC evaluate it.                  *)
Found == [p \in AllHosts \X AllViews |-> IdentityOf(Host[p[1]], View[p[2]])]
Hashes == <<>> @@ [p \in DOMAIN Found |->
                     CHOOSE q \in DOMAIN Found : Found[q] = Found[p]]
Hash(h, v) == Hashes[<<h, v>>]
=============================================================================

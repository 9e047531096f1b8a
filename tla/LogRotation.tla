---------------------------- MODULE LogRotation ----------------------------
(***************************************************************************)
(* The rotating file writer of logmanager/logmanager.go: Write appends to  *)
(* the file at path and, when the record would not fit, first shifts path  *)
(* to path.1, path.1 to path.2 and so on, dropping path.MaxBackups.        *)
(*                                                                         *)
(* Write holds w.mu, so that at most one is under way, but the process may *)
(* die between any two of its system calls and each of those may fail.     *)
(*                                                                         *)
(* Slot 0 is the file at path, slot i is path.i.  The bytes the writer has *)
(* accepted, over all its lives, are numbered from 0; a file is the        *)
(* interval lo .. hi - 1 of the bytes in it.                               *)
(***************************************************************************)
EXTENDS Integers, FiniteSets

CONSTANTS
    MaxSize,     \* Options.MaxSize
    MaxBackups,  \* Options.MaxBackups
    Lengths,     \* lengths of log records
    MayFail,     \* may system calls fail?
    MaxBytes,    \* bound: bytes accepted
    MaxStarts    \* bound: starts of the process

ASSUME SizesAssumption ==
    /\ MaxSize \in Nat \ {0} /\ MaxBackups \in Nat
    /\ Lengths \subseteq Nat \ {0}
    /\ MayFail \in BOOLEAN /\ MaxBytes \in Nat /\ MaxStarts \in Nat

Slots == 0 .. MaxBackups
Missing == [lo |-> -1, hi |-> -1]
Interval(lo, hi) == [lo |-> lo, hi |-> hi]
Length(f) == f.hi - f.lo

VARIABLES
    files,    \* the interval in each slot, or Missing
    accepted, \* bytes accepted so far
    handle,   \* rotatingFileWriter.file: "nil", "open" or "closed"
    size,     \* rotatingFileWriter.size
    pc,       \* the next system call of the Write under way
    idx,      \* the loop variable of rotate
    len,      \* len(p) of the Write under way
    starts,   \* counter of the bound
    cut       \* history: rotations that a failure or a crash cut short

vars == <<files, accepted, handle, size, pc, idx, len, starts, cut>>

Exists(i) == files[i] # Missing

Init ==
    /\ files = [i \in Slots |-> Missing]
    /\ accepted = 0
    /\ handle = "nil" /\ size = 0
    /\ pc = "down" /\ idx = 0 /\ len = 0
    /\ starts = 0 /\ cut = 0

(* newRotatingFileWriter: append to the file at path, or create it. *)
Start ==
    /\ pc = "down" /\ starts < MaxStarts
    /\ files' = IF Exists(0) THEN files
                ELSE [files EXCEPT ![0] = Interval(accepted, accepted)]
    /\ handle' = "open"
    /\ size' = Length(files'[0])
    /\ pc' = "idle"
    /\ starts' = starts + 1
    /\ UNCHANGED <<accepted, idx, len, cut>>

(* Mutants of Write: the loop starts one too high, the record is not       *)
(* counted.                                                                *)
WriteIf(n, full, first) ==
    /\ pc = "idle" /\ handle = "open"
    /\ accepted + n <= MaxBytes
    /\ len' = n
    /\ IF full
       THEN handle' = "closed" /\ idx' = first /\ pc' = "remove"
       ELSE pc' = "append" /\ UNCHANGED <<handle, idx>>
    /\ UNCHANGED <<files, accepted, size, starts, cut>>
WriteLoopTooHigh(n) == WriteIf(n, size + n > MaxSize, MaxBackups)
WriteIgnoresRecord(n) == WriteIf(n, size > MaxSize, MaxBackups - 1)

(* Write and the head of rotate, which closes the file.  With the file nil *)
(* or closed, Write returns an error and changes nothing.                  *)
Write(n) ==
    /\ pc = "idle" /\ handle = "open"
    /\ accepted + n <= MaxBytes
    /\ len' = n
    /\ IF size + n > MaxSize
       THEN /\ handle' = "closed"
            /\ idx' = MaxBackups - 1
            /\ pc' = "remove"
       ELSE pc' = "append" /\ UNCHANGED <<handle, idx>>
    /\ UNCHANGED <<files, accepted, size, starts, cut>>

(* Mutants of RemoveOldest: no file is removed, or one too many. *)
RemoveNothing ==
    /\ pc = "remove"
    /\ pc' = IF MaxBackups = 0 THEN "reopen" ELSE "shift"
    /\ UNCHANGED <<files, accepted, handle, size, idx, len, starts, cut>>
RemoveTwo ==
    /\ pc = "remove"
    /\ files' = [i \in Slots |-> IF i >= MaxBackups - 1 THEN Missing
                                                       ELSE files[i]]
    /\ pc' = IF MaxBackups = 0 THEN "reopen" ELSE "shift"
    /\ UNCHANGED <<accepted, handle, size, idx, len, starts, cut>>

(* The oldest backup goes, or the file itself when no backups are kept. *)
RemoveOldest ==
    /\ pc = "remove"
    /\ files' = [files EXCEPT ![MaxBackups] = Missing]
    /\ pc' = IF MaxBackups = 0 THEN "reopen" ELSE "shift"
    /\ UNCHANGED <<accepted, handle, size, idx, len, starts, cut>>

(* Mutant of Shift: files are copied and the source stays. *)
ShiftCopies ==
    /\ pc = "shift"
    /\ files' = IF Exists(idx) THEN [files EXCEPT ![idx + 1] = files[idx]]
                               ELSE files
    /\ idx' = IF idx = 0 THEN 0 ELSE idx - 1
    /\ pc' = IF idx = 0 THEN "reopen" ELSE "shift"
    /\ UNCHANGED <<accepted, handle, size, len, starts, cut>>

(* The renames, of path itself too: a missing source is skipped. *)
Shift ==
    /\ pc = "shift"
    /\ files' = IF Exists(idx)
                THEN [files EXCEPT ![idx + 1] = files[idx], ![idx] = Missing]
                ELSE files
    /\ idx' = IF idx = 0 THEN 0 ELSE idx - 1
    /\ pc' = IF idx = 0 THEN "reopen" ELSE "shift"
    /\ UNCHANGED <<accepted, handle, size, len, starts, cut>>

(* O_CREATE|O_TRUNC, and Write goes on. *)
Reopen ==
    /\ pc = "reopen"
    /\ files' = [files EXCEPT ![0] = Interval(accepted, accepted)]
    /\ handle' = "open"
    /\ size' = 0
    /\ pc' = "append"
    /\ UNCHANGED <<accepted, idx, len, starts, cut>>

(* Mutant of Append: a write that is cut short counts in full. *)
AppendCountsAll(n) ==
    /\ pc = "append"
    /\ n <= len /\ (n < len => MayFail)
    /\ files' = [files EXCEPT ![0].hi = @ + n]
    /\ accepted' = accepted + len
    /\ size' = size + n
    /\ pc' = "idle"
    /\ UNCHANGED <<handle, idx, len, starts, cut>>

(* The record is written, or only its first n bytes. *)
Append(n) ==
    /\ pc = "append"
    /\ n <= len /\ (n < len => MayFail)
    /\ files' = [files EXCEPT ![0].hi = @ + n]
    /\ accepted' = accepted + n
    /\ size' = size + n
    /\ pc' = "idle"
    /\ UNCHANGED <<handle, idx, len, starts, cut>>

Rotating == pc \in {"remove", "shift", "reopen"}

(* A call of rotate fails: Write returns, the handle stays closed. *)
RotateFails ==
    /\ MayFail /\ Rotating
    /\ pc' = "idle"
    /\ cut' = cut + 1
    /\ UNCHANGED <<files, accepted, handle, size, idx, len, starts>>

(* Manager.Close at the end of main, between two calls of Write. *)
Close ==
    /\ pc = "idle" /\ handle # "nil"
    /\ handle' = "nil" /\ size' = 0
    /\ UNCHANGED <<files, accepted, pc, idx, len, starts, cut>>

(* The process dies, or ends after Close. *)
Crash ==
    /\ pc # "down"
    /\ pc' = "down"
    /\ handle' = "nil" /\ size' = 0
    /\ cut' = IF Rotating THEN cut + 1 ELSE cut
    /\ UNCHANGED <<files, accepted, idx, len, starts>>

Next ==
    \/ Start
    \/ \E n \in Lengths : Write(n)
    \/ RemoveOldest \/ Shift \/ Reopen
    \/ \E n \in 0 .. len : Append(n)
    \/ RotateFails
    \/ Close
    \/ Crash

Spec == Init /\ [][Next]_vars

-----------------------------------------------------------------------------
(* Properties *)

(* Type invariant. *)
TypeOK ==
    /\ files \in [Slots -> [lo : Int, hi : Int]]
    /\ accepted \in Nat
    /\ handle \in {"nil", "open", "closed"}
    /\ size \in Nat
    /\ pc \in {"down", "idle", "remove", "shift", "reopen", "append"}
    /\ idx \in Int /\ (pc = "shift" => idx \in 0 .. MaxBackups - 1)
    /\ len \in Nat
    /\ starts \in 0 .. MaxStarts /\ cut \in Nat

(* While the file is open, w.size is the size of the file at path: it is   *)
(* what decides when to rotate.                                            *)
SizeTracked == handle = "open" => Exists(0) /\ size = Length(files[0])

(* No file grows beyond MaxSize, unless by a single record that is longer. *)
SizeBound == \A i \in Slots :
    Length(files[i]) > MaxSize => \E n \in Lengths : Length(files[i]) <= n

(* The newer the slot, the newer the bytes in it, even in the middle of a  *)
(* rotation and after any crash: reading the files from the last slot to   *)
(* path yields the records in the order in which they were written.        *)
Ordered == \A i, j \in Slots :
    i < j /\ Exists(i) /\ Exists(j) => files[j].hi <= files[i].lo

(* No rename of a rotation replaces a file, no open truncates one that     *)
(* holds bytes.                                                            *)
NothingOverwritten ==
    /\ pc = "shift" => ~Exists(idx + 1)
    /\ pc = "reopen" => ~Exists(0)

(* A file becomes a backup only when the next record would not fit into    *)
(* it, even if a rotation is cut short by a failure or a crash and started *)
(* again: the backups are worth MaxBackups times almost MaxSize.           *)
BackupsFull == \A i \in Slots \ {0} :
    Exists(i) => \E n \in Lengths : Length(files[i]) + n > MaxSize

Retained == UNION {files[i].lo .. files[i].hi - 1 :
                       i \in {j \in Slots : Exists(j)}}

(* Once bytes have been dropped, MaxBackups times almost MaxSize of the    *)
(* newest ones are left; each rotation that was cut short costs at most    *)
(* one backup.                                                             *)
RetainsBackups == 0 \in Retained \/ accepted = 0 \/ cut > MaxBackups \/
    \E n \in Lengths :
        Cardinality(Retained) >= (MaxBackups - cut) * (MaxSize - n + 1)

(* The files together are the log that BoundedLog promises. *)
BL == INSTANCE BoundedLog WITH retained <- Retained
RefinesBoundedLog == BL!Spec
=============================================================================

------------------------- MODULE LogRotation_proofs -------------------------
(***************************************************************************)
(* Proofs about LogRotation, for every size, number of backups, set of     *)
(* record lengths, and for failures and crashes at every system call.      *)
(***************************************************************************)
EXTENDS LogRotation, FiniteSetTheorems, WellFoundedInduction, TLAPS

(* Every file is a run of accepted bytes, and the one at path ends with the *)
(* last of them.                                                            *)
FileOK(f) == f = Missing \/ (0 <= f.lo /\ f.lo <= f.hi /\ f.hi <= accepted)
FilesOK ==
    /\ \A i \in Slots : FileOK(files[i])
    /\ Exists(0) => files[0].hi = accepted

(* The file a Write appends to is there, and it is the one it will count.   *)
HandleOK ==
    /\ pc = "append" => handle = "open"
    /\ handle = "open" => pc \in {"idle", "append"}
    /\ pc = "remove" => idx = MaxBackups - 1
    /\ pc \notin {"down", "idle"} => len \in Lengths
    /\ pc = "append" => (size + len <= MaxSize \/ size = 0)

LogInv == TypeOK /\ FilesOK /\ HandleOK /\ SizeTracked /\ NothingOverwritten
              /\ Ordered

LEMMA LogInit == Init => LogInv
  BY SizesAssumption DEF Init, LogInv, TypeOK, FilesOK, FileOK, HandleOK,
     SizeTracked, NothingOverwritten, Ordered, Exists, Missing, Slots

LEMMA SlotsFacts == /\ 0 \in Slots /\ MaxBackups \in Slots
                    /\ \A i \in Slots : i \in Int /\ 0 <= i /\ i <= MaxBackups
                    /\ \A i \in 0 .. MaxBackups - 1 : i \in Slots /\ i + 1 \in Slots
                    /\ MaxBackups \in Nat
  BY SizesAssumption DEF Slots

(* Each action keeps the invariant. *)
LEMMA LogStep == LogInv /\ [Next]_vars => LogInv'
<1> SUFFICES ASSUME LogInv, [Next]_vars PROVE LogInv'
  OBVIOUS
<1> USE SlotsFacts
<1> USE DEF LogInv, TypeOK, FilesOK, FileOK, HandleOK, SizeTracked,
    NothingOverwritten, Ordered, Exists, Missing, Interval, Length
<1>1. CASE Start
  <2>1. CASE Exists(0)
    BY <1>1, <2>1, SizesAssumption DEF Start
  <2>2. CASE ~Exists(0)
    <3>1. files' = [files EXCEPT ![0] = Interval(accepted, accepted)]
          /\ size' = 0
      BY <1>1, <2>2 DEF Start
    <3> QED
      BY <1>1, <2>2, <3>1, SizesAssumption DEF Start
  <2> QED
    BY <2>1, <2>2
<1>2. ASSUME NEW n \in Lengths, Write(n) PROVE LogInv'
  <2>1. n \in Nat /\ len' = n /\ UNCHANGED <<files, accepted, size, starts, cut>>
    BY <1>2, SizesAssumption DEF Write
  <2>2. CASE size + n > MaxSize
    BY <1>2, <2>1, <2>2 DEF Write
  <2>3. CASE ~(size + n > MaxSize)
    BY <1>2, <2>1, <2>3, SizesAssumption DEF Write
  <2> QED
    BY <2>2, <2>3
<1>3. CASE RemoveOldest
  BY <1>3 DEF RemoveOldest
<1>4. CASE Shift
  BY <1>4 DEF Shift
<1>5. CASE Reopen
  BY <1>5 DEF Reopen
<1>6. ASSUME NEW n \in 0 .. len, Append(n) PROVE LogInv'
  BY <1>6 DEF Append
<1>7. CASE RotateFails
  BY <1>7 DEF RotateFails, Rotating
<1>8. CASE Close
  BY <1>8 DEF Close
<1>9. CASE Crash
  BY <1>9 DEF Crash
<1>10. CASE UNCHANGED vars
  BY <1>10 DEF vars
<1> QED
  BY <1>1, <1>2, <1>3, <1>4, <1>5, <1>6, <1>7, <1>8, <1>9, <1>10 DEF Next

(* Type correctness of the writer, for every instance.                      *)
THEOREM LogTypeCorrect == Spec => []TypeOK
<1>1. LogInv => TypeOK
  BY DEF LogInv
<1> QED
  BY LogInit, LogStep, <1>1, PTL DEF Spec

(* In every state, between any two system calls, after any failures and     *)
(* crashes, the files hold the records in order.                            *)
THEOREM OrderCorrect == Spec => []Ordered
<1>1. LogInv => Ordered
  BY DEF LogInv
<1> QED
  BY LogInit, LogStep, <1>1, PTL DEF Spec

(* No rename and no truncation destroys bytes.                              *)
THEOREM NothingOverwrittenCorrect == Spec => []NothingOverwritten
<1>1. LogInv => NothingOverwritten
  BY DEF LogInv
<1> QED
  BY LogInit, LogStep, <1>1, PTL DEF Spec

(* The size that decides on rotation is the size of the file.               *)
THEOREM SizeTrackedCorrect == Spec => []SizeTracked
<1>1. LogInv => SizeTracked
  BY DEF LogInv
<1> QED
  BY LogInit, LogStep, <1>1, PTL DEF Spec

-----------------------------------------------------------------------------
(* Sizes.  Both bounds rest on the test of Write: a file grows only by a    *)
(* record that fits or that is the first in it, and is moved aside only     *)
(* when the record would not have fit.                                      *)

FullNow == \E n \in Lengths : Length(files[0]) + n > MaxSize
SizeInv == SizeBound /\ BackupsFull /\
    (Rotating => (Exists(0) => FullNow))

LEMMA SizeStep == LogInv /\ SizeInv /\ [Next]_vars => SizeInv'
<1> SUFFICES ASSUME LogInv, SizeInv, [Next]_vars PROVE SizeInv'
  OBVIOUS
<1> USE SlotsFacts
<1> USE DEF LogInv, TypeOK, HandleOK, SizeTracked, NothingOverwritten,
    SizeInv, SizeBound, BackupsFull, FullNow, Exists, Missing, Interval,
    Length, Rotating
<1>0. \A n \in Lengths : n \in Nat /\ n > 0
  BY SizesAssumption
<1>1. CASE Start
  BY <1>1, SizesAssumption DEF Start
<1>2. ASSUME NEW n \in Lengths, Write(n) PROVE SizeInv'
  <2>1. CASE size + n > MaxSize
    BY <1>2, <2>1 DEF Write
  <2>2. CASE ~(size + n > MaxSize)
    BY <1>2, <2>2 DEF Write
  <2> QED
    BY <2>1, <2>2
<1>3. CASE RemoveOldest
  BY <1>3, SizesAssumption DEF RemoveOldest
<1>4. CASE Shift
  BY <1>4, SizesAssumption DEF Shift
<1>5. CASE Reopen
  BY <1>5, SizesAssumption DEF Reopen
<1>6. ASSUME NEW n \in 0 .. len, Append(n) PROVE SizeInv'
  <2>1. len \in Lengths /\ len \in Nat
    BY <1>6, <1>0 DEF Append
  <2>2. size = Length(files[0]) /\ Exists(0)
    BY <1>6 DEF Append
  <2>3. Length(files'[0]) = size + n
    BY <1>6, <2>2 DEF Append
  <2>4. \A i \in Slots \ {0} : files'[i] = files[i]
    BY <1>6 DEF Append
  <2>5. size + len <= MaxSize \/ size = 0
    BY <1>6 DEF Append
  <2>6. SizeBound'
    BY <1>6, <2>1, <2>3, <2>4, <2>5, SizesAssumption DEF Append
  <2> QED
    BY <1>6, <2>4, <2>6 DEF Append
<1>7. CASE RotateFails \/ Close \/ Crash
  BY <1>7 DEF RotateFails, Close, Crash
<1>8. CASE UNCHANGED vars
  BY <1>8 DEF vars
<1> QED
  BY <1>1, <1>2, <1>3, <1>4, <1>5, <1>6, <1>7, <1>8 DEF Next

LEMMA SizeInit == Init => SizeInv
  BY SizesAssumption DEF Init, SizeInv, SizeBound, BackupsFull, Rotating,
     Exists, Missing, Length, Slots

(* No file outgrows MaxSize but by one longer record; every backup is full. *)
THEOREM SizesCorrect == Spec => [](SizeBound /\ BackupsFull)
<1>1. Init => LogInv /\ SizeInv
  BY LogInit, SizeInit
<1>2. LogInv /\ SizeInv /\ [Next]_vars => (LogInv /\ SizeInv)'
  BY LogStep, SizeStep
<1>3. SizeInv => SizeBound /\ BackupsFull
  BY DEF SizeInv
<1> QED
  BY <1>1, <1>2, <1>3, PTL DEF Spec

-----------------------------------------------------------------------------
(* The files implement the abstract log.                                    *)

(* The bytes of one slot; Retained is the union of these.                   *)
BytesOf(f) == IF f = Missing THEN {} ELSE f.lo .. f.hi - 1

LEMMA RetainedBytes ==
    \A b : b \in Retained <=> \E i \in Slots : b \in BytesOf(files[i])
  BY DEF Retained, BytesOf, Exists

LEMMA RetainedBytesNext ==
    \A b : b \in Retained' <=> \E i \in Slots : b \in BytesOf(files'[i])
  BY DEF Retained, BytesOf, Exists

(* A step after which every slot has the bytes of some slot before it, and  *)
(* conversely, changes nothing for the reader.                              *)
LEMMA SameRetained ==
    ASSUME \A i \in Slots : \E j \in Slots : BytesOf(files'[i]) \subseteq BytesOf(files[j]),
           \A i \in Slots : \E j \in Slots : BytesOf(files[i]) \subseteq BytesOf(files'[j])
    PROVE  Retained' = Retained
  BY RetainedBytes, RetainedBytesNext

(* Opening, renaming and closing files and giving up changes nothing for   *)
(* the reader.                                                             *)
LEMMA RetainedSame ==
    ASSUME LogInv,
           \/ Start \/ Shift \/ Reopen \/ RotateFails \/ Close \/ Crash
           \/ (\E n \in Lengths : Write(n)) \/ UNCHANGED vars
    PROVE  UNCHANGED <<accepted, Retained>>
<1> USE SlotsFacts
<1> USE DEF LogInv, TypeOK, HandleOK, NothingOverwritten, Exists, Interval
<1>0. BytesOf(Missing) = {} /\ BytesOf(Interval(accepted, accepted)) = {}
  BY DEF BytesOf, TypeOK
<1>1. ASSUME ~Exists(0), files' = [files EXCEPT ![0] = Interval(accepted, accepted)]
      PROVE  Retained' = Retained
  <2>1. BytesOf(files[0]) = {} /\ BytesOf(files'[0]) = {}
    BY <1>0, <1>1
  <2>2. \A i \in Slots \ {0} : files'[i] = files[i]
    BY <1>1
  <2> QED
    BY <2>1, <2>2, SameRetained
<1>2. CASE UNCHANGED <<files, accepted>>
  BY <1>2 DEF Retained
<1>3. CASE Start
  BY <1>1, <1>2, <1>3 DEF Start
<1>4. CASE Shift
  <2>1. CASE Exists(idx)
    <3>1. idx \in Slots /\ idx + 1 \in Slots /\ idx # idx + 1
      BY <1>4 DEF Shift
    <3>2. files'[idx + 1] = files[idx] /\ files'[idx] = Missing
      BY <1>4, <2>1, <3>1 DEF Shift
    <3>3. files[idx + 1] = Missing
      BY <1>4 DEF Shift
    <3>4. \A i \in Slots \ {idx, idx + 1} : files'[i] = files[i]
      BY <1>4, <2>1 DEF Shift
    <3>5. Retained' = Retained
      BY <1>0, <3>1, <3>2, <3>3, <3>4, SameRetained
    <3> QED
      BY <1>4, <3>5 DEF Shift
  <2>2. CASE ~Exists(idx)
    BY <1>2, <1>4, <2>2 DEF Shift
  <2> QED
    BY <2>1, <2>2
<1>5. CASE Reopen
  BY <1>1, <1>5 DEF Reopen
<1>6. CASE (\E n \in Lengths : Write(n)) \/ RotateFails \/ Close \/ Crash
  BY <1>2, <1>6 DEF Write, RotateFails, Close, Crash
<1>7. CASE UNCHANGED vars
  BY <1>2, <1>7 DEF vars
<1> QED
  BY <1>3, <1>4, <1>5, <1>6, <1>7

(* Removing the oldest backup drops the bytes in front of its end.         *)
Dropped == IF Exists(MaxBackups) THEN files[MaxBackups].hi ELSE 0

LEMMA RetainedForget ==
    ASSUME LogInv, RemoveOldest
    PROVE  /\ Dropped \in 0 .. accepted /\ accepted' = accepted
           /\ Retained' = {b \in Retained : b >= Dropped}
<1> USE SlotsFacts DEF LogInv, TypeOK, FilesOK, FileOK, Exists, Dropped
<1>1. Dropped \in 0 .. accepted
  OBVIOUS
<1>2. \A i \in Slots \ {MaxBackups} : files'[i] = files[i]
  BY DEF RemoveOldest
<1>3. BytesOf(files'[MaxBackups]) = {}
  BY DEF RemoveOldest, BytesOf
<1>4. \A i \in Slots \ {MaxBackups} : \A b \in BytesOf(files[i]) : b >= Dropped
  BY DEF Ordered, BytesOf
<1>5. \A b \in BytesOf(files[MaxBackups]) : b \in Int /\ ~(b >= Dropped)
  BY DEF BytesOf
<1>6. Retained' = {b \in Retained : b >= Dropped}
  BY <1>2, <1>3, <1>4, <1>5, RetainedBytes, RetainedBytesNext
<1> QED
  BY <1>1, <1>6 DEF RemoveOldest

(* A write adds the bytes that it accepts. *)
LEMMA RetainedAccept ==
    ASSUME LogInv, NEW n \in 0 .. len, Append(n)
    PROVE  /\ accepted' = accepted + n
           /\ Retained' = Retained \cup (accepted .. accepted' - 1)
<1> USE SlotsFacts
<1> USE DEF LogInv, TypeOK, FilesOK, FileOK, HandleOK, SizeTracked, Exists
<1>1. Exists(0) /\ files[0].hi = accepted /\ accepted' = accepted + n
  BY DEF Append
<1>2. files'[0] = [files[0] EXCEPT !.hi = accepted + n]
  BY <1>1 DEF Append
<1>3. BytesOf(files'[0]) = BytesOf(files[0]) \cup (accepted .. accepted' - 1)
  BY <1>1, <1>2 DEF BytesOf, Missing
<1>4. \A i \in Slots \ {0} : files'[i] = files[i]
  BY DEF Append
<1>5. Retained' = Retained \cup (accepted .. accepted' - 1)
  BY <1>3, <1>4, RetainedBytes, RetainedBytesNext
<1> QED
  BY <1>1, <1>5

LEMMA RefineStep ==
    ASSUME LogInv, [Next]_vars
    PROVE  [BL!Next]_<<accepted, Retained>>
<1>1. CASE RemoveOldest
  BY <1>1, RetainedForget DEF BL!Next, BL!Forget
<1>2. ASSUME NEW n \in 0 .. len, Append(n)
      PROVE  BL!Accept
  <2>1. accepted \in Nat /\ n \in Nat /\ len \in Nat
    BY DEF LogInv, TypeOK
  <2> QED
    BY <1>2, <2>1, RetainedAccept DEF BL!Accept
<1>3. CASE \/ Start \/ Shift \/ Reopen \/ RotateFails \/ Close \/ Crash
           \/ (\E n \in Lengths : Write(n)) \/ UNCHANGED vars
  BY <1>3, RetainedSame
<1> QED
  BY <1>1, <1>2, <1>3 DEF Next, BL!Next

(* The rotating files implement BoundedLog: whatever fails and whenever the *)
(* process dies, what can be read is the newest bytes, without a hole.      *)
THEOREM Refinement == Spec => RefinesBoundedLog
<1>1. Init => BL!Init
  BY DEF Init, BL!Init, Retained, Exists
<1> QED
  BY LogInit, LogStep, RefineStep, <1>1, PTL DEF Spec, RefinesBoundedLog, BL!Spec

(* BoundedLog retains one run of bytes that ends with the last accepted.    *)
LEMMA SuffixStep ==
    accepted \in Nat /\ BL!Suffix /\ [BL!Next]_<<accepted, Retained>>
        => BL!Suffix'
<1> SUFFICES ASSUME accepted \in Nat, BL!Suffix,
                    [BL!Next]_<<accepted, Retained>>
             PROVE  BL!Suffix'
  OBVIOUS
<1>1. PICK first \in 0 .. accepted : Retained = first .. accepted - 1
  BY DEF BL!Suffix
<1>2. CASE BL!Accept
  <2>1. Retained' = first .. accepted' - 1 /\ first \in 0 .. accepted'
    BY <1>1, <1>2 DEF BL!Accept
  <2> QED
    BY <2>1 DEF BL!Suffix
<1>3. CASE BL!Forget
  <2>1. PICK cutAt \in 0 .. accepted : Retained' = {b \in Retained : b >= cutAt}
    BY <1>3 DEF BL!Forget
  <2> DEFINE next == IF cutAt > first THEN cutAt ELSE first
  <2>2. next \in 0 .. accepted' /\ Retained' = next .. accepted' - 1
    BY <1>1, <1>3, <2>1 DEF BL!Forget
  <2> QED
    BY <2>2 DEF BL!Suffix
<1>4. CASE UNCHANGED <<accepted, Retained>>
  BY <1>1, <1>4 DEF BL!Suffix
<1> QED
  BY <1>2, <1>3, <1>4 DEF BL!Next

(* The files never have a hole: what they hold is a suffix of the log.      *)
THEOREM SuffixCorrect == Spec => []BL!Suffix
<1>1. Init => BL!Suffix
  <2>1. ASSUME Init PROVE Retained = 0 .. accepted - 1 /\ 0 \in 0 .. accepted
    BY <2>1 DEF Init, Retained, Exists
  <2> QED
    BY <2>1 DEF BL!Suffix
<1>2. LogInv => accepted \in Nat
  BY DEF LogInv, TypeOK
<1>3. LogInv /\ BL!Suffix /\ [Next]_vars => (LogInv /\ BL!Suffix)'
  BY <1>2, LogStep, RefineStep, SuffixStep
<1> QED
  BY LogInit, <1>1, <1>3, PTL DEF Spec

-----------------------------------------------------------------------------
(* How much is left.  F stands for what every full file holds at least.    *)
(* Slot i is preceded by i - 1 backups, less those that rotations cut      *)
(* short have cost, so that the bytes between its end and the file at path *)
(* are at least as many times F; and so are, for a slot that would come    *)
(* after the last, the bytes between what was dropped and that file.       *)

Times(k, F) == k * F

(* Where the file at path begins. *)
Base == IF Exists(0) THEN files[0].lo ELSE accepted

(* A slot that the rotation under way has moved already is one too high    *)
(* until the file at path has been moved too.                              *)
Moved(i) == IF pc = "shift" /\ i > idx THEN 1 ELSE 0

BackupsBefore(F) == \A i \in Slots \ {0} :
    Exists(i) => Base - files[i].hi >= Times(i - 1 - cut - Moved(i), F)

KeptFrom(first, F) ==
    /\ Retained = first .. accepted - 1
    /\ first = 0 \/ Base - first >= Times(MaxBackups - cut - Moved(MaxBackups), F)

KeptInv(F) ==
    /\ pc \in {"remove", "shift"} => Exists(0)
    /\ BackupsBefore(F)
    /\ \E first \in 0 .. accepted : KeptFrom(first, F)

(* A full file has at least F bytes. *)
FullHolds(F) == F \in Nat /\ \A n \in Lengths : F <= MaxSize - n + 1

LEMMA TimesFacts ==
    ASSUME NEW F \in Nat
    PROVE  /\ \A k \in Int : Times(k, F) \in Int
           /\ \A k \in Int : Times(k + 1, F) = Times(k, F) + F
           /\ \A k \in Int : Times(k - 1, F) = Times(k, F) - F
           /\ \A k \in Int : k <= 0 => Times(k, F) <= 0
BY DEF Times

LEMMA TimesDown ==
    ASSUME NEW F \in Nat, NEW m \in Int, NEW n \in {m, m - 1}
    PROVE  /\ Times(m, F) \in Int /\ Times(n, F) \in Int
           /\ Times(n, F) <= Times(m, F)
<1>1. Times(m, F) \in Int /\ Times(m - 1, F) = Times(m, F) - F
  BY TimesFacts
<1>2. CASE n = m
  BY <1>1, <1>2
<1>3. CASE n = m - 1
  BY <1>1, <1>3
<1> QED
  BY <1>2, <1>3

LEMMA KeptInit ==
    ASSUME NEW F \in Nat, Init
    PROVE  KeptInv(F)
<1>1. Retained = 0 .. accepted - 1 /\ 0 \in 0 .. accepted
  BY DEF Init, Retained, Exists
<1>2. KeptFrom(0, F)
  BY <1>1 DEF KeptFrom
<1>3. BackupsBefore(F) /\ pc = "down"
  BY DEF BackupsBefore, Init, Exists
<1> QED
  BY <1>1, <1>2, <1>3 DEF KeptInv

LEMMA KeptType ==
    ASSUME LogInv, NEW F \in Nat
    PROVE  /\ cut \in Int /\ Base \in Int /\ accepted \in Nat
           /\ \A i \in Int : Moved(i) \in {0, 1}
           /\ \A i \in Slots : Times(i - cut - Moved(i), F) \in Int
                               /\ Times(i - 1 - cut - Moved(i), F) \in Int
<1> USE SlotsFacts
<1>1. cut \in Int /\ accepted \in Nat /\ \A i \in Int : Moved(i) \in {0, 1}
  BY DEF LogInv, TypeOK, Moved
<1>2. Base \in Int
  BY DEF LogInv, TypeOK, FilesOK, Base, Exists
<1>3. \A i \in Slots : i - cut - Moved(i) \in Int /\ i - 1 - cut - Moved(i) \in Int
  BY <1>1
<1> QED
  BY <1>1, <1>2, <1>3, TimesFacts

(* A step that leaves the bytes alone keeps what is kept if the file at    *)
(* path moves on by as much as is owed more.                               *)
LEMMA KeptSame ==
    ASSUME NEW F \in Nat, LogInv, LogInv', KeptInv(F),
           UNCHANGED <<accepted, Retained>>,
           pc' \in {"remove", "shift"} => Exists(0)',
           BackupsBefore(F)',
           Base' - Times(MaxBackups - cut - Moved(MaxBackups), F)'
           >= Base - Times(MaxBackups - cut - Moved(MaxBackups), F)
    PROVE  KeptInv(F)'
<1>1. PICK first \in 0 .. accepted : KeptFrom(first, F)
  BY DEF KeptInv
<1>2. /\ first \in Int /\ Base \in Int
      /\ Times(MaxBackups - cut - Moved(MaxBackups), F) \in Int
  BY KeptType, SlotsFacts
<1>3. Base' \in Int /\ Times(MaxBackups - cut - Moved(MaxBackups), F)' \in Int
  <2>1. (/\ cut \in Int /\ Base \in Int /\ accepted \in Nat
         /\ \A i \in Int : Moved(i) \in {0, 1}
         /\ \A i \in Slots : Times(i - cut - Moved(i), F) \in Int
                             /\ Times(i - 1 - cut - Moved(i), F) \in Int)'
    BY KeptType, PTL
  <2> QED
    BY <2>1, SlotsFacts
<1>4. KeptFrom(first, F)'
  BY <1>1, <1>2, <1>3 DEF KeptFrom
<1> QED
  BY <1>1, <1>4 DEF KeptInv

(* Every action keeps it: the file at path moves on by F when it becomes a *)
(* backup, and each other backup was owed one F less where it was before.  *)
LEMMA KeptStep ==
    ASSUME NEW F, FullHolds(F), LogInv, SizeInv, KeptInv(F), [Next]_vars
    PROVE  KeptInv(F)'
<1> USE SlotsFacts DEF LogInv, TypeOK, FilesOK, FileOK, HandleOK
<1>1. F \in Nat /\ \A n \in Lengths : F <= MaxSize - n + 1 /\ n \in Nat
  BY SizesAssumption DEF FullHolds
<1>2. LogInv'
  BY LogStep
<1>3. /\ \A k \in Int : Times(k, F) \in Int
      /\ \A k \in Int : Times(k + 1, F) = Times(k, F) + F
      /\ \A k \in Int : Times(k - 1, F) = Times(k, F) - F
      /\ \A k \in Int : k <= 0 => Times(k, F) <= 0
  BY <1>1, TimesFacts
<1>4. CASE Start \/ Close \/ (\E n \in Lengths : Write(n)) \/ Reopen \/ UNCHANGED vars
  <2>1. UNCHANGED <<accepted, Retained>>
    BY <1>4, RetainedSame
  <2>2. /\ Base' = Base /\ cut' = cut
        /\ \A i \in Slots \ {0} : files'[i] = files[i]
    BY <1>4 DEF Start, Close, Write, Reopen, Base, Exists, Interval, Missing,
                NothingOverwritten, vars
  <2>3. \A i \in Int : Moved(i)' = Moved(i)
    BY <1>4 DEF Start, Close, Write, Reopen, Moved, vars
  <2>4. pc' \in {"remove", "shift"} => Exists(0)'
    BY <1>4 DEF Start, Close, Write, Reopen, SizeTracked, Exists, vars, KeptInv
  <2>5. BackupsBefore(F)'
    BY <2>2, <2>3 DEF KeptInv, BackupsBefore, Exists
  <2>6. Times(MaxBackups - cut - Moved(MaxBackups), F)'
        = Times(MaxBackups - cut - Moved(MaxBackups), F)
    BY <2>2, <2>3
  <2>7. Base \in Int /\ Times(MaxBackups - cut - Moved(MaxBackups), F) \in Int
    BY <1>1, KeptType
  <2> QED
    BY <1>1, <1>2, <2>1, <2>2, <2>4, <2>5, <2>6, <2>7, KeptSame
<1>5. CASE RotateFails \/ Crash
  <2>1. UNCHANGED <<accepted, Retained>>
    BY <1>5, RetainedSame
  <2>2. /\ Base' = Base /\ files' = files
        /\ pc' \in {"idle", "down"}
        /\ \A i \in Int : Moved(i)' = 0
        /\ cut' = cut \/ cut' = cut + 1
        /\ pc = "shift" => cut' = cut + 1
    BY <1>5 DEF RotateFails, Crash, Rotating, Base, Exists, Moved
  <2>3. \A i \in Int : \/ cut' + Moved(i)' = cut + Moved(i)
                       \/ cut' + Moved(i)' = cut + Moved(i) + 1
    BY <2>2 DEF Moved
  <2>4. cut \in Int /\ cut' \in Int /\ Base \in Int /\ \A i \in Int : Moved(i) \in {0, 1}
    BY <1>1, <1>2, KeptType
  <2>5. ASSUME NEW k \in Int, NEW i \in Int
        PROVE  /\ Times(k - cut - Moved(i), F) \in Int /\ Times(k - cut - Moved(i), F)' \in Int
               /\ Times(k - cut - Moved(i), F)' <= Times(k - cut - Moved(i), F)
    <3>1. k - cut - Moved(i) \in Int
      BY <2>4
    <3>2. (k - cut - Moved(i))' \in {k - cut - Moved(i), (k - cut - Moved(i)) - 1}
      BY <2>2, <2>3, <2>4
    <3> HIDE DEF LogInv, TypeOK, FilesOK, FileOK, HandleOK
    <3> QED
      BY <1>1, <3>1, <3>2, TimesDown
  <2>6. BackupsBefore(F)'
    <3> SUFFICES ASSUME NEW i \in Slots \ {0}, Exists(i)'
                 PROVE  (Base - files[i].hi >= Times(i - 1 - cut - Moved(i), F))'
      BY DEF BackupsBefore
    <3>1. Base - files[i].hi >= Times((i - 1) - cut - Moved(i), F)
      BY <2>2 DEF KeptInv, BackupsBefore, Exists
    <3>2. Base - files[i].hi \in Int /\ i - 1 \in Int /\ i \in Int
      BY <2>2, <2>4 DEF Exists
    <3>3. /\ Times((i - 1) - cut - Moved(i), F) \in Int
          /\ Times((i - 1) - cut - Moved(i), F)' \in Int
          /\ Times((i - 1) - cut - Moved(i), F)' <= Times((i - 1) - cut - Moved(i), F)
      BY <2>5, <3>2
    <3> QED
      BY <2>2, <3>1, <3>2, <3>3
  <2>7. Base' - Times(MaxBackups - cut - Moved(MaxBackups), F)'
        >= Base - Times(MaxBackups - cut - Moved(MaxBackups), F)
    BY <2>2, <2>4, <2>5
  <2> QED
    BY <1>1, <1>2, <2>1, <2>2, <2>6, <2>7, KeptSame
<1>6. CASE RemoveOldest
  <2>1. PICK first \in 0 .. accepted : KeptFrom(first, F)
    BY DEF KeptInv
  <2>2. /\ pc = "remove" /\ idx = MaxBackups - 1 /\ Exists(0)
        /\ idx' = idx /\ cut' = cut /\ UNCHANGED accepted
        /\ files'[MaxBackups] = Missing
        /\ \A i \in Slots \ {MaxBackups} : files'[i] = files[i]
        /\ \A i \in Int : Moved(i) = 0
    BY <1>6 DEF RemoveOldest, KeptInv, Moved
  <2>3. /\ Dropped \in 0 .. accepted
        /\ Retained' = {b \in Retained : b >= Dropped}
    BY <1>6, RetainedForget
  <2>4. PICK next \in 0 .. accepted :
          next \in {Dropped, first} /\ Retained' = next .. accepted - 1
    <3>1. CASE Dropped > first
      <4>1. Retained' = Dropped .. accepted - 1
        BY <2>1, <2>3, <3>1 DEF KeptFrom
      <4> QED
        BY <2>3, <4>1
    <3>2. CASE ~(Dropped > first)
      <4>1. Retained' = first .. accepted - 1
        BY <2>1, <2>3, <3>2 DEF KeptFrom
      <4> QED
        BY <4>1
    <3> QED
      BY <3>1, <3>2
  <2>5. CASE MaxBackups = 0
    <3>1. pc' = "reopen" /\ Base' = accepted /\ \A i \in Int : Moved(i)' = 0
      BY <1>6, <2>2, <2>5 DEF RemoveOldest, Base, Exists, Moved
    <3>2. BackupsBefore(F)'
      <4>1. Slots \ {0} = {}
        BY <2>5 DEF Slots
      <4> QED
        BY <4>1 DEF BackupsBefore
    <3>3. Times(MaxBackups - cut - Moved(MaxBackups), F)' <= 0
          /\ Times(MaxBackups - cut - Moved(MaxBackups), F)' \in Int
      <4>1. (MaxBackups - cut - Moved(MaxBackups))' = 0 - cut
            /\ 0 - cut \in Int /\ 0 - cut <= 0
        BY <2>2, <2>5, <3>1
      <4> QED
        BY <1>3, <4>1
    <3>4. KeptFrom(next, F)'
      BY <2>2, <2>4, <3>1, <3>3 DEF KeptFrom
    <3> QED
      BY <2>2, <2>4, <3>1, <3>2, <3>4 DEF KeptInv
  <2>6. CASE MaxBackups # 0
    <3>1. /\ pc' = "shift" /\ Base' = Base /\ Exists(0)'
          /\ \A i \in Slots \ {MaxBackups} : Moved(i)' = 0
          /\ Moved(MaxBackups)' = 1
      BY <1>6, <2>2, <2>6 DEF RemoveOldest, Base, Exists, Moved
    <3>2. BackupsBefore(F)'
      BY <2>2, <3>1 DEF KeptInv, BackupsBefore, Exists
    <3>3. Times(MaxBackups - cut - Moved(MaxBackups), F)'
          = Times(MaxBackups - 1 - cut - Moved(MaxBackups), F)
      BY <2>2, <3>1
    <3>4. Times(MaxBackups - cut - Moved(MaxBackups), F)
          = Times(MaxBackups - 1 - cut - Moved(MaxBackups), F) + F
      <4>1. MaxBackups - 1 - cut - 0 \in Int
            /\ MaxBackups - cut - 0 = (MaxBackups - 1 - cut - 0) + 1
        OBVIOUS
      <4> QED
        BY <1>3, <2>2, <4>1
    <3>5. Times(MaxBackups - 1 - cut - Moved(MaxBackups), F) \in Int /\ Base \in Int
      BY <1>1, KeptType
    <3>6. Exists(MaxBackups) =>
            Base - Dropped >= Times(MaxBackups - 1 - cut - Moved(MaxBackups), F)
      BY <2>6 DEF KeptInv, BackupsBefore, Dropped
    <3>7. next = 0 \/ Base - next >= Times(MaxBackups - 1 - cut - Moved(MaxBackups), F)
      <4>1. CASE next = first
        BY <1>1, <2>1, <3>4, <3>5, <4>1 DEF KeptFrom
      <4>2. CASE next = Dropped
        BY <3>6, <4>2 DEF Dropped
      <4> QED
        BY <2>4, <4>1, <4>2
    <3>8. KeptFrom(next, F)'
      BY <2>2, <2>4, <3>1, <3>3, <3>7 DEF KeptFrom
    <3> QED
      BY <2>2, <2>4, <3>1, <3>2, <3>8 DEF KeptInv
  <2> QED
    BY <2>5, <2>6
<1>7. CASE Shift
  <2>1. UNCHANGED <<accepted, Retained>>
    BY <1>7, RetainedSame
  <2>2. /\ pc = "shift" /\ Exists(0) /\ cut' = cut
        /\ idx \in 0 .. MaxBackups - 1 /\ idx \in Slots /\ idx + 1 \in Slots
        /\ Moved(MaxBackups) = 1
    BY <1>7 DEF Shift, KeptInv, Moved
  <2>3. /\ cut \in Int /\ Base \in Int
        /\ \A i \in Slots : Times(i - 1 - cut - Moved(i), F) \in Int
    BY <1>1, KeptType
  <2>4. CASE idx = 0
    <3>1. /\ pc' = "reopen" /\ files'[1] = files[0] /\ files'[0] = Missing
          /\ \A i \in Slots \ {0, 1} : files'[i] = files[i]
          /\ \A i \in Int : Moved(i)' = 0
          /\ \A i \in Slots \ {0} : Moved(i) = 1
      BY <1>7, <2>2, <2>4 DEF Shift, Moved
    <3>2. Base' = accepted /\ files[0].hi = accepted /\ Base = files[0].lo
      BY <2>1, <2>2, <3>1 DEF Base, Exists
    <3>3. PICK n \in Lengths : Length(files[0]) + n > MaxSize
      BY <2>2 DEF SizeInv, Rotating, FullNow
    <3>4. Base' >= Base + F
      BY <1>1, <2>2, <3>2, <3>3, SizesAssumption DEF Length, Exists
    <3>5. ASSUME NEW i \in Slots \ {0}
          PROVE  Times(i - 1 - cut - Moved(i), F)' = Times(i - 1 - cut - Moved(i), F) + F
                 /\ Times(i - cut - Moved(i), F)' = Times(i - cut - Moved(i), F) + F
      <4>1. Moved(i)' = 0 /\ Moved(i) = 1
        BY <3>1
      <4>2. /\ i - 1 - cut - 1 \in Int /\ i - 1 - cut - 0 = (i - 1 - cut - 1) + 1
            /\ i - cut - 1 \in Int /\ i - cut - 0 = (i - cut - 1) + 1
        BY <2>3
      <4> QED
        BY <1>3, <2>2, <4>1, <4>2
    <3>6. BackupsBefore(F)'
      <4> SUFFICES ASSUME NEW i \in Slots \ {0}, Exists(i)'
                   PROVE  (Base - files[i].hi >= Times(i - 1 - cut - Moved(i), F))'
        BY DEF BackupsBefore
      <4>1. CASE i = 1
        <5>1. 0 - cut - 0 \in Int /\ 0 - cut - 0 <= 0
          BY <2>3
        <5>2. Times(i - 1 - cut - Moved(i), F)' \in Int
              /\ Times(i - 1 - cut - Moved(i), F)' <= 0
          BY <1>3, <2>2, <3>1, <4>1, <5>1
        <5> QED
          BY <3>1, <3>2, <4>1, <5>2
      <4>2. CASE i # 1
        <5>1. Base - files[i].hi >= Times(i - 1 - cut - Moved(i), F)
              /\ files[i].hi \in Int
          BY <3>1, <4>2 DEF KeptInv, BackupsBefore, Exists
        <5> QED
          BY <1>1, <2>3, <3>1, <3>2, <3>4, <3>5, <4>2, <5>1
      <4> QED
        BY <4>1, <4>2
    <3>7. Base' - Times(MaxBackups - cut - Moved(MaxBackups), F)'
          >= Base - Times(MaxBackups - cut - Moved(MaxBackups), F)
      <4>1. MaxBackups \in Slots \ {0} /\ Times(MaxBackups - cut - Moved(MaxBackups), F) \in Int
        BY <1>1, <2>2, KeptType
      <4> QED
        BY <1>1, <2>3, <3>2, <3>4, <3>5, <4>1
    <3> QED
      BY <1>1, <1>2, <2>1, <3>1, <3>6, <3>7, KeptSame
  <2>5. CASE idx # 0
    <3>1. /\ pc' = "shift" /\ idx' = idx - 1 /\ Base' = Base /\ Exists(0)'
          /\ \A i \in Slots \ {idx, idx + 1} : files'[i] = files[i]
          /\ files'[idx] = Missing
          /\ Exists(idx) => files'[idx + 1] = files[idx]
          /\ ~Exists(idx) => files'[idx + 1] = files[idx + 1]
      BY <1>7, <2>2, <2>5 DEF Shift, Base, Exists
    <3>2. \A i \in Slots \ {idx} : Moved(i)' = Moved(i)
      BY <2>2, <3>1 DEF Moved
    <3>3. BackupsBefore(F)'
      <4> SUFFICES ASSUME NEW i \in Slots \ {0}, Exists(i)'
                   PROVE  (Base - files[i].hi >= Times(i - 1 - cut - Moved(i), F))'
        BY DEF BackupsBefore
      <4>1. i # idx
        BY <3>1 DEF Exists
      <4>2. CASE files'[i] = files[i]
        BY <2>2, <3>1, <3>2, <4>1, <4>2 DEF KeptInv, BackupsBefore, Exists
      <4>3. CASE i = idx + 1 /\ Exists(idx)
        <5>1. Base - files[idx].hi >= Times(idx - 1 - cut - Moved(idx), F)
          BY <2>2, <2>5, <4>3 DEF KeptInv, BackupsBefore
        <5>2. Moved(idx) = 0 /\ Moved(i)' = 1
          BY <2>2, <3>1, <4>3 DEF Moved
        <5>3. (i - 1 - cut - 1) = (idx - 1 - cut - 0)
          BY <2>2, <2>3, <4>3
        <5>4. Times(i - 1 - cut - Moved(i), F)' = Times(idx - 1 - cut - Moved(idx), F)
          BY <2>2, <5>2, <5>3
        <5> QED
          BY <3>1, <4>3, <5>1, <5>4
      <4> QED
        BY <3>1, <4>1, <4>2, <4>3
    <3>4. Times(MaxBackups - cut - Moved(MaxBackups), F)'
          = Times(MaxBackups - cut - Moved(MaxBackups), F)
      BY <2>2, <3>2
    <3>5. Times(MaxBackups - cut - Moved(MaxBackups), F) \in Int
      BY <1>1, KeptType
    <3> QED
      BY <1>1, <1>2, <2>1, <2>3, <3>1, <3>3, <3>4, <3>5, KeptSame
  <2> QED
    BY <2>4, <2>5
<1>8. ASSUME NEW n \in 0 .. len, Append(n) PROVE KeptInv(F)'
  <2>1. /\ Base' = Base /\ cut' = cut /\ pc' = "idle"
        /\ \A i \in Slots \ {0} : files'[i] = files[i]
        /\ \A i \in Int : Moved(i)' = Moved(i)
    BY <1>8 DEF Append, Base, Exists, Moved, SizeTracked, Missing
  <2>2. BackupsBefore(F)'
    BY <2>1 DEF KeptInv, BackupsBefore, Exists
  <2>3. PICK first \in 0 .. accepted : KeptFrom(first, F)
    BY DEF KeptInv
  <2>4. /\ accepted' = accepted + n /\ n \in Nat
        /\ Retained' = Retained \cup (accepted .. accepted' - 1)
    BY <1>8, RetainedAccept
  <2>5. first \in 0 .. accepted' /\ Retained' = first .. accepted' - 1
    BY <2>3, <2>4 DEF KeptFrom
  <2>6. KeptFrom(first, F)'
    BY <2>1, <2>3, <2>5 DEF KeptFrom
  <2> QED
    BY <2>1, <2>2, <2>5, <2>6 DEF KeptInv
<1> QED
  BY <1>4, <1>5, <1>6, <1>7, <1>8 DEF Next

(* If every record fits into a file, one of the lengths is the largest.    *)
LEMMA LongestRecord ==
    ASSUME Lengths # {}, \A n \in Lengths : n <= MaxSize
    PROVE  \E n \in Lengths : \A m \in Lengths : m <= n
<1> DEFINE Gaps == {MaxSize - n : n \in Lengths}
           Less == OpToRel(<, Nat)
<1>1. Gaps \subseteq Nat /\ Gaps # {}
  <2>1. \A n \in Lengths : MaxSize - n \in Nat
    BY SizesAssumption
  <2> QED
    BY <2>1
<1>2. PICK gap \in Gaps : \A other \in Gaps : ~ (<<other, gap>> \in Less)
  <2>1. IsWellFoundedOn(Less, Nat)
    BY NatLessThanWellFounded
  <2> HIDE DEF Gaps, Less
  <2> QED
    BY <1>1, <2>1, WFMin
<1>3. \A other \in Gaps : ~ (other < gap)
  BY <1>1, <1>2 DEF OpToRel
<1>4. PICK n \in Lengths : gap = MaxSize - n
  OBVIOUS
<1>5. ASSUME NEW m \in Lengths PROVE m <= n
  <2>1. ~ (MaxSize - m < MaxSize - n)
    BY <1>3, <1>4
  <2> QED
    BY <2>1, SizesAssumption
<1> QED
  BY <1>5

(* Nothing is accepted where there are no records. *)
LEMMA AcceptedStep ==
    LogInv /\ (accepted = 0 \/ Lengths # {}) /\ [Next]_vars
        => (accepted = 0 \/ Lengths # {})'
<1> SUFFICES ASSUME LogInv, accepted = 0, Lengths = {}, [Next]_vars
             PROVE  accepted' = 0
  OBVIOUS
<1>1. ~(pc = "append")
  BY DEF LogInv, HandleOK
<1> QED
  BY <1>1 DEF Next, vars, Start, Write, RemoveOldest, Shift, Reopen, Append,
              RotateFails, Close, Crash

LEMMA SuffixSize ==
    ASSUME accepted \in Nat, NEW first \in 0 .. accepted,
           Retained = first .. accepted - 1
    PROVE  Cardinality(Retained) = accepted - first
<1>1. first \in Int /\ accepted - 1 \in Int /\ first <= accepted
  OBVIOUS
<1>2. Cardinality(Retained) = IF first > accepted - 1 THEN 0 ELSE accepted - 1 - first + 1
  BY <1>1, FS_Interval
<1> QED
  BY <1>1, <1>2

(* Whatever fails and whenever the process dies, once bytes are dropped    *)
(* MaxBackups files' worth of the newest are left, less one for every      *)
(* rotation that was cut short.                                            *)
THEOREM RetainsBackupsCorrect == Spec => []RetainsBackups
<1>1. LogInv => accepted \in Nat /\ cut \in Nat /\ MaxBackups \in Nat /\ MaxSize \in Nat
  BY SizesAssumption DEF LogInv, TypeOK
<1>2. CASE \E n \in Lengths : n > MaxSize
  <2>1. PICK n \in Lengths : n > MaxSize
    BY <1>2
  <2>2. LogInv /\ BL!Suffix => RetainsBackups
    <3> SUFFICES ASSUME LogInv, BL!Suffix, cut <= MaxBackups
                 PROVE  Cardinality(Retained) >= (MaxBackups - cut) * (MaxSize - n + 1)
      BY <1>1 DEF RetainsBackups
    <3>1. PICK first \in 0 .. accepted : Retained = first .. accepted - 1
      BY DEF BL!Suffix
    <3>2. Cardinality(Retained) = accepted - first
      BY <1>1, <3>1, SuffixSize
    <3>3. \A k \in Nat : \A f \in Int : f <= 0 => k * f <= 0
      OBVIOUS
    <3>4. MaxBackups - cut \in Nat /\ MaxSize - n + 1 \in Int /\ MaxSize - n + 1 <= 0
      BY <1>1, <2>1, SizesAssumption
    <3>5. (MaxBackups - cut) * (MaxSize - n + 1) <= 0
          /\ (MaxBackups - cut) * (MaxSize - n + 1) \in Int
      BY <3>3, <3>4
    <3> QED
      BY <1>1, <3>2, <3>5
  <2>3. Spec => []LogInv
    BY LogInit, LogStep, PTL DEF Spec
  <2> QED
    BY <2>2, <2>3, SuffixCorrect, PTL
<1>3. CASE Lengths = {}
  <2>1. Init => accepted = 0 \/ Lengths # {}
    BY DEF Init
  <2>2. (accepted = 0 \/ Lengths # {}) => RetainsBackups
    BY <1>3 DEF RetainsBackups
  <2> QED
    BY <2>1, <2>2, LogInit, LogStep, AcceptedStep, PTL DEF Spec
<1>4. CASE Lengths # {} /\ \A n \in Lengths : ~(n > MaxSize)
  <2>1. \A n \in Lengths : n <= MaxSize
    BY <1>4, SizesAssumption
  <2>2. PICK n \in Lengths : \A m \in Lengths : m <= n
    BY <1>4, <2>1, LongestRecord
  <2> DEFINE F == MaxSize - n + 1
  <2>3. FullHolds(F) /\ F \in Nat
    BY <2>1, <2>2, SizesAssumption DEF FullHolds
  <2> HIDE DEF F
  <2>4. Init => KeptInv(F)
    BY <2>3, KeptInit
  <2>5. LogInv /\ SizeInv /\ KeptInv(F) /\ [Next]_vars => KeptInv(F)'
    BY <2>3, KeptStep
  <2>6. LogInv /\ SizeInv /\ KeptInv(F) => RetainsBackups
    <3> SUFFICES ASSUME LogInv, SizeInv, KeptInv(F), 0 \notin Retained, accepted # 0
                 PROVE  Cardinality(Retained) >= (MaxBackups - cut) * F
      BY DEF RetainsBackups, F
    <3>1. PICK first \in 0 .. accepted : KeptFrom(first, F)
      BY DEF KeptInv
    <3>2. Cardinality(Retained) = accepted - first
      BY <1>1, <3>1, SuffixSize DEF KeptFrom
    <3>3. first # 0
      BY <1>1, <3>1 DEF KeptFrom
    <3>4. Base \in Int /\ accepted >= Base
      <4>1. Exists(0) => files[0].lo <= accepted
        BY SlotsFacts DEF LogInv, TypeOK, FilesOK, FileOK, Exists
      <4>2. Base \in Int
        BY <2>3, KeptType
      <4> QED
        BY <1>1, <4>1, <4>2 DEF Base
    <3>5. MaxBackups - cut \in Int /\ Times(MaxBackups - cut, F) \in Int
          /\ Times(MaxBackups - cut - 1, F) = Times(MaxBackups - cut, F) - F
      <4>1. MaxBackups - cut \in Int
        BY <1>1
      <4> QED
        BY <2>3, <4>1, TimesFacts
    <3>6. accepted - first >= Times(MaxBackups - cut, F)
      <4>1. CASE Moved(MaxBackups) = 0
        <5>1. Base - first >= Times(MaxBackups - cut - 0, F)
          BY <3>1, <3>3, <4>1 DEF KeptFrom
        <5>2. MaxBackups - cut - 0 = MaxBackups - cut
          BY <3>5
        <5> QED
          BY <1>1, <3>4, <3>5, <5>1, <5>2
      <4>2. CASE Moved(MaxBackups) = 1
        <5>1. Base - first >= Times(MaxBackups - cut - 1, F)
          BY <3>1, <3>3, <4>2 DEF KeptFrom
        <5>2. Exists(0) /\ pc = "shift"
          BY <4>2 DEF Moved, KeptInv
        <5>3. PICK m \in Lengths : Length(files[0]) + m > MaxSize
          BY <5>2 DEF SizeInv, Rotating, FullNow
        <5>4. accepted - Base >= F
          BY <1>1, <2>3, <5>2, <5>3, SlotsFacts, SizesAssumption
             DEF FullHolds, LogInv, TypeOK, FilesOK, Base, Length
        <5> QED
          BY <1>1, <2>3, <3>4, <3>5, <5>1, <5>4
      <4> QED
        BY <4>1, <4>2 DEF Moved
    <3> QED
      BY <3>2, <3>6 DEF Times
  <2> QED
    BY <2>4, <2>5, <2>6, LogInit, LogStep, SizeInit, SizeStep, PTL DEF Spec
<1> QED
  BY <1>2, <1>3, <1>4
=============================================================================

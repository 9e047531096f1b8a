----------------------- MODULE SecretsManager_proofs -----------------------
(***************************************************************************)
(* Proofs about SecretsManager, for all paths, contents, environments and  *)
(* bounds.                                                                 *)
(***************************************************************************)
EXTENDS SecretsManager, SequenceTheorems, TLAPS

(* addDir is reached only with a path in hand that has no watcher. *)
TodoInv == pc[Main] = "addDir" =>
    todo # <<>> /\ Head(todo) \in Paths \ watchers

(* The sources Reload selects are well formed.                              *)
LEMMA SourcesType ==
    /\ KeySource \in Sources
    /\ PasswordSource \in Sources
  BY EnvAssumption DEF KeySource, PasswordSource, FromFile, FromText,
     NoSource, Sources, OptPath, Content

(* A non-empty sequence gives up its head and keeps its type.               *)
LEMMA HeadTail ==
    ASSUME NEW S, NEW s \in Seq(S), s # <<>>
    PROVE  Head(s) \in S /\ Tail(s) \in Seq(S)
  BY HeadTailProperties

(* What an edit of the files may change, and the types of that.             *)
LEMMA EditType ==
    ASSUME TypeOK, NEW p \in Paths, NEW kind, NEW c \in Content \cup {Absent},
           NEW onFile \in Ops, NEW onDir \in Ops, NEW leaves \in BOOLEAN,
           Edit(p, kind, c, onFile, onDir, leaves)
    PROVE  TypeOK'
<1> DEFINE op == IF watch[p] = "file" THEN onFile ELSE onDir
<1>1. op \in Ops
  OBVIOUS
<1>2. events' \in [Paths -> Seq(Ops)]
  <2>1. CASE events' = [events EXCEPT ![p] = Append(@, op)]
    BY <1>1, <2>1, AppendProperties DEF TypeOK
  <2>2. CASE UNCHANGED events
    BY <2>2 DEF TypeOK
  <2> QED
    BY <2>1, <2>2 DEF Edit, Deliver
<1>3. disk' \in [Paths -> Content \cup {Absent}]
  BY DEF TypeOK, Edit
<1>4. watch' \in [Paths -> {"off", "file", "dir", "dead", "closed"}]
  BY DEF TypeOK, Edit
<1>5. edits' \in 0 .. MaxEdits
  BY BoundsAssumption DEF TypeOK, Edit
<1> QED
  BY <1>2, <1>3, <1>4, <1>5 DEF TypeOK, Edit, manager

(* One step of Reload keeps the types.                                      *)
LEMMA ReloadType ==
    ASSUME TypeOK, NEW t \in Threads, ReloadStep(t)
    PROVE  TypeOK'
<1> USE DEF Goto
<1>1. CASE ResolveKey(t)
  BY <1>1, SourcesType DEF TypeOK, ResolveKey, manager
<1>2. ASSUME NEW here, NEW next \in {"commitKey", "commitPassword"},
             ReadFile(t, here, next)
      PROVE  TypeOK'
  <2>1. CASE Exists(got[t].path)
    <3>1. disk[got[t].path] \in Content
      BY <2>1 DEF TypeOK, Exists
    <3> DEFINE read == [got[t] EXCEPT !.text = disk[got[t].path]]
    <3>2. read \in Sources
      BY <3>1 DEF TypeOK, Sources
    <3>3. got' = [got EXCEPT ![t] = read]
      BY <1>2, <2>1 DEF ReadFile
    <3>4. got' \in [Threads -> Sources]
      BY <3>2, <3>3 DEF TypeOK
    <3> QED
      BY <1>2, <2>1, <3>4 DEF TypeOK, ReadFile, manager
  <2>2. CASE ~Exists(got[t].path)
    BY <1>2, <2>2 DEF TypeOK, ReadFile, AfterError, manager
  <2> QED
    BY <2>1, <2>2
<1>3. CASE CommitKey(t)
  BY <1>3 DEF TypeOK, CommitKey, Sources
<1>4. CASE ResolvePassword(t)
  BY <1>4, SourcesType DEF TypeOK, ResolvePassword, AfterError, manager
<1>5. CASE CommitPassword(t)
  <2>1. got[t].text \in Content /\ got[t].path \in OptPath
    BY DEF TypeOK, Sources
  <2>2. passwordHash' \in Hashes
    BY <1>5, <2>1 DEF CommitPassword, Hashes
  <2>3. passwordFile' \in OptPath /\ passwordHashFile' \in OptPath
    BY <1>5, <2>1 DEF CommitPassword, OptPath
  <2> QED
    BY <1>5, <2>2, <2>3 DEF TypeOK, CommitPassword, AfterReload
<1> QED
  BY <1>1, <1>2, <1>3, <1>4, <1>5 DEF ReloadStep

(* One step of WatchFiles keeps the types.                                  *)
LEMMA WatchType ==
    ASSUME TypeOK, TodoInv, WatchStep
    PROVE  TypeOK'
<1> USE DEF Goto
<1>0. Main \in Threads /\ Paths \subseteq Threads
  BY DEF Threads
<1>1. todo # <<>> => Tail(todo) \in Seq(OptPath)
  BY HeadTail DEF TypeOK
<1>2. ASSUME NEW p \in Paths, NEW observed \in {"file", "dir"},
             StartWatcher(p, observed)
      PROVE  /\ watchers' \subseteq Paths
             /\ watch' \in [Paths -> {"off", "file", "dir", "dead", "closed"}]
             /\ events' \in [Paths -> Seq(Ops)]
             /\ pc' \in [Threads -> {"off", "select", "unregister",
                  "resolveKey", "readKey", "commitKey", "resolvePassword",
                  "readPassword", "commitPassword", "snapshot", "watch",
                  "addDir", "loop", "closing", "stopped"}]
  <2>1. <<>> \in Seq(Ops)
    OBVIOUS
  <2> QED
    BY <1>0, <1>2, <2>1 DEF TypeOK, StartWatcher
<1>3. CASE SecretFiles
  BY <1>0, <1>3 DEF TypeOK, SecretFiles, manager
<1>4. CASE SkipWatch
  BY <1>1, <1>4 DEF TypeOK, SkipWatch, manager
<1>5. CASE WatchFile
  BY <1>1, <1>2, <1>5 DEF TypeOK, WatchFile, manager
<1>6. CASE AddFails
  BY <1>0, <1>6 DEF TypeOK, AddFails, manager
<1>7. CASE WatchDir
  BY <1>1, <1>2, <1>7 DEF TypeOK, TodoInv, WatchDir, manager
<1>8. CASE WatchFilesReturn
  BY <1>0, <1>8 DEF TypeOK, WatchFilesReturn, manager
<1> QED
  BY <1>3, <1>4, <1>5, <1>6, <1>7, <1>8 DEF WatchStep

(* One step of a watcher's goroutine outside Reload keeps the types.        *)
LEMMA WatcherType ==
    ASSUME TypeOK, NEW p \in Paths, WatcherStep(p)
    PROVE  TypeOK'
<1> USE DEF Goto
<1>0. p \in Threads
  BY DEF Threads
<1>1. CASE TakeEvent(p)
  <2>1. Tail(events[p]) \in Seq(Ops)
    BY <1>1, HeadTail DEF TypeOK, TakeEvent
  <2> QED
    BY <1>0, <1>1, <2>1 DEF TypeOK, TakeEvent, manager
<1>2. CASE ReturnFromSelect(p)
  BY <1>0, <1>2 DEF TypeOK, ReturnFromSelect, manager
<1>3. CASE Unregister(p)
  BY <1>0, <1>3 DEF TypeOK, Unregister, manager
<1> QED
  BY <1>1, <1>2, <1>3 DEF WatcherStep

(* One edit of a file keeps the types.                                      *)
LEMMA EditStepType ==
    ASSUME TypeOK, EditStep
    PROVE  TypeOK'
<1>1. ASSUME NEW p \in Paths, Truncate(p) \/ Create(p)
      PROVE  TypeOK'
  BY <1>1, EditType DEF Truncate, Create, Content, Ops
<1>2. ASSUME NEW p \in Paths, Remove(p) \/ MoveAway(p)
      PROVE  TypeOK'
  BY <1>2, EditType DEF Remove, MoveAway, Ops
<1>3. ASSUME NEW p \in Paths, NEW v \in Values, Fill(p, v) \/ Replace(p, v)
      PROVE  TypeOK'
  BY <1>3, EditType DEF Fill, Replace, Content, Ops
<1> QED
  BY <1>1, <1>2, <1>3 DEF EditStep

(* TodoInv is kept by every step: only Main touches its list and adds to    *)
(* the map.                                                                 *)
LEMMA TodoStep ==
    ASSUME TypeOK, TodoInv, [Next]_vars
    PROVE  TodoInv'
<1> USE DEF Goto, TodoInv
<1>0. Main \in Threads /\ Paths \subseteq Threads
  BY DEF Threads
<1>1. ASSUME NEW t \in Threads, ReloadStep(t)
      PROVE  TodoInv'
  BY <1>0, <1>1 DEF TypeOK, ReloadStep, ResolveKey, ReadFile, CommitKey,
     ResolvePassword, CommitPassword, AfterReload, AfterError
<1>2. ASSUME NEW p \in Paths, WatcherStep(p)
      PROVE  TodoInv'
  BY <1>0, <1>2, NamesAssumption DEF TypeOK, WatcherStep, TakeEvent,
     ReturnFromSelect, Unregister
<1>3. CASE WatchStep
  BY <1>0, <1>3, NamesAssumption DEF TypeOK, WatchStep, SecretFiles,
     SkipWatch, WatchFile, AddFails, WatchDir, WatchFilesReturn, StartWatcher
<1>4. CASE Close \/ Hangup \/ Cancel
  BY <1>0, <1>4 DEF TypeOK, Close, Hangup, Cancel
<1>5. CASE EditStep
  BY <1>5 DEF EditStep, Truncate, Fill, Replace, Remove, MoveAway, Create,
     Edit
<1>6. CASE UNCHANGED vars
  BY <1>6 DEF vars
<1> QED
  BY <1>1, <1>2, <1>3, <1>4, <1>5, <1>6 DEF Next, ThreadStep

LEMMA TypeInit == Init => TypeOK /\ TodoInv
<1> SUFFICES ASSUME Init PROVE TypeOK /\ TodoInv
  OBVIOUS
<1>1. disk \in [Paths -> Content \cup {Absent}]
  BY NamesAssumption DEF Init
<1>2. got \in [Threads -> Sources]
  BY DEF Init, NoSource, Sources, OptPath, Content
<1>3. edits \in 0 .. MaxEdits /\ hups \in 0 .. MaxHups
  BY BoundsAssumption DEF Init
<1>4. events \in [Paths -> Seq(Ops)] /\ todo \in Seq(OptPath)
  BY DEF Init
<1>5. handshakeKey \in Content /\ passwordHash \in Hashes
  BY DEF Init, Content, Hashes
<1>6. Main \in Threads
  BY DEF Threads
<1> QED
  BY <1>1, <1>2, <1>3, <1>4, <1>5, <1>6 DEF Init, TypeOK, TodoInv, OptPath

LEMMA TypeStep ==
    ASSUME TypeOK, TodoInv, [Next]_vars
    PROVE  TypeOK'
<1>0. Main \in Threads
  BY DEF Threads
<1>1. CASE Close
  BY <1>0, <1>1 DEF TypeOK, Close, Goto, manager
<1>2. CASE Hangup
  BY <1>0, <1>2, BoundsAssumption DEF TypeOK, Hangup, Goto, manager
<1>3. CASE Cancel
  BY <1>0, <1>3 DEF TypeOK, Cancel, Goto, manager
<1>4. CASE UNCHANGED vars
  BY <1>4 DEF TypeOK, vars, manager
<1> QED
  BY <1>1, <1>2, <1>3, <1>4, ReloadType, WatchType, WatcherType,
     EditStepType DEF Next, ThreadStep

(* The type invariant, for every instance.                                  *)
THEOREM TypeCorrect == Spec => []TypeOK
<1>1. Init => TypeOK /\ TodoInv
  BY TypeInit
<1>2. TypeOK /\ TodoInv /\ [Next]_vars => (TypeOK /\ TodoInv)'
  BY TypeStep, TodoStep
<1> QED
  BY <1>1, <1>2, PTL DEF Spec

-----------------------------------------------------------------------------
(* The map of watchers.  It is inductive with the invariants above.         *)

LEMMA BookkeepingStep ==
    ASSUME TypeOK, TodoInv, WatcherBookkeeping, [Next]_vars
    PROVE  WatcherBookkeeping'
<1> USE DEF Goto, WatcherBookkeeping
<1>0. Main \in Threads /\ Paths \subseteq Threads
  BY DEF Threads
<1>1. ASSUME NEW t \in Threads, ReloadStep(t)
      PROVE  WatcherBookkeeping'
  BY <1>0, <1>1, NamesAssumption DEF TypeOK, ReloadStep, ResolveKey,
     ReadFile, CommitKey, ResolvePassword, CommitPassword, AfterReload,
     AfterError
<1>2. ASSUME NEW p \in Paths, WatcherStep(p)
      PROVE  WatcherBookkeeping'
  BY <1>0, <1>2, NamesAssumption DEF TypeOK, WatcherStep, TakeEvent,
     ReturnFromSelect, Unregister
<1>3. CASE WatchStep
  BY <1>0, <1>3, NamesAssumption DEF TypeOK, TodoInv, WatchStep, SecretFiles,
     SkipWatch, WatchFile, AddFails, WatchDir, WatchFilesReturn, StartWatcher
<1>4. CASE Close
  BY <1>0, <1>4 DEF TypeOK, Close
<1>5. CASE Hangup \/ Cancel
  BY <1>0, <1>5, NamesAssumption DEF TypeOK, Hangup, Cancel
<1>6. CASE EditStep
  BY <1>6 DEF TypeOK, EditStep, Truncate, Fill, Replace, Remove, MoveAway,
     Create, Edit
<1>7. CASE UNCHANGED vars
  BY <1>7 DEF vars
<1> QED
  BY <1>1, <1>2, <1>3, <1>4, <1>5, <1>6, <1>7 DEF Next, ThreadStep

(* The map of watchers agrees with the goroutines, for every instance.      *)
THEOREM BookkeepingCorrect == Spec => []WatcherBookkeeping
<1>1. Init => TypeOK /\ TodoInv /\ WatcherBookkeeping
  <2>1. Init => WatcherBookkeeping
    BY NamesAssumption DEF Init, WatcherBookkeeping, Threads
  <2> QED
    BY <2>1, TypeInit
<1>2. /\ TypeOK /\ TodoInv /\ WatcherBookkeeping /\ [Next]_vars
      => (TypeOK /\ TodoInv /\ WatcherBookkeeping)'
  BY TypeStep, TodoStep, BookkeepingStep
<1> QED
  BY <1>1, <1>2, PTL DEF Spec

-----------------------------------------------------------------------------
(* Atomic edits never blank the key.  Its file is never blank, so no thread *)
(* that is about to commit a key holds a blank one: a source other than a   *)
(* file is not selected, and a failed read leads past the commit.           *)

BlankInv == AtomicEdits =>
    /\ disk[Env.keyFile] # Empty
    /\ \A t \in Threads : pc[t] = "readKey" => got[t].path = Env.keyFile
    /\ \A t \in Threads : pc[t] = "commitKey" => got[t].text # Empty
    /\ handshakeFile # NoPath => handshakeKey # Empty

LEMMA BlankStep ==
    ASSUME TypeOK, BlankInv, [Next]_vars
    PROVE  BlankInv'
<1> SUFFICES ASSUME AtomicEdits PROVE BlankInv'
  BY DEF BlankInv, AtomicEdits
<1> USE DEF Goto, BlankInv
<1>0. Main \in Threads /\ Paths \subseteq Threads
  BY DEF Threads
<1>1. ASSUME NEW t \in Threads, ReloadStep(t)
      PROVE  BlankInv'
  <2>1. CASE ResolveKey(t)
    <3>1. KeySource.path = Env.keyFile /\ Env.keyFile # NoPath
      BY DEF AtomicEdits, KeySource, FromFile
    <3> QED
      BY <2>1, <3>1 DEF TypeOK, ResolveKey, manager
  <2>2. CASE ReadFile(t, "readKey", "commitKey")
    <3>1. CASE /\ Exists(got[t].path)
               /\ got' = [got EXCEPT ![t].text = disk[got[t].path]]
      <4>1. got'[t].text = disk[got[t].path]
        BY <3>1 DEF TypeOK, Sources
      <4>2. got'[t].text # Empty
        BY <2>2, <4>1 DEF ReadFile
      <4>3. \A u \in Threads : u # t => got'[u] = got[u] /\ pc'[u] = pc[u]
        BY <2>2, <3>1 DEF TypeOK, ReadFile
      <4> QED
        BY <2>2, <4>2, <4>3 DEF TypeOK, ReadFile, manager
    <3>2. CASE ~Exists(got[t].path)
      BY <2>2, <3>2 DEF TypeOK, ReadFile, AfterError, manager
    <3> QED
      BY <2>2, <3>1, <3>2 DEF ReadFile
  <2>6. CASE ReadFile(t, "readPassword", "commitPassword")
    BY <2>6 DEF TypeOK, ReadFile, AfterError, manager
  <2>3. CASE CommitKey(t)
    BY <2>3 DEF TypeOK, CommitKey
  <2>4. CASE ResolvePassword(t)
    BY <2>4 DEF TypeOK, ResolvePassword, AfterError, manager
  <2>5. CASE CommitPassword(t)
    BY <2>5 DEF TypeOK, CommitPassword, AfterReload
  <2> QED
    BY <1>1, <2>1, <2>2, <2>3, <2>4, <2>5, <2>6 DEF ReloadStep
<1>2. ASSUME NEW p \in Paths, WatcherStep(p)
      PROVE  BlankInv'
  BY <1>0, <1>2 DEF TypeOK, WatcherStep, TakeEvent, ReturnFromSelect,
     Unregister, manager
<1>3. CASE WatchStep
  BY <1>0, <1>3 DEF TypeOK, WatchStep, SecretFiles, SkipWatch, WatchFile,
     AddFails, WatchDir, WatchFilesReturn, StartWatcher, manager
<1>4. CASE Close \/ Hangup \/ Cancel
  BY <1>0, <1>4 DEF TypeOK, Close, Hangup, Cancel, manager
<1>5. CASE EditStep
  <2>1. Empty # Absent /\ Empty \notin Values
    BY NamesAssumption DEF Content
  <2>2. PICK p \in Paths, c \in Content \cup {Absent} :
             /\ disk' = [disk EXCEPT ![p] = c]
             /\ p = Env.keyFile => c # Empty
             /\ UNCHANGED <<manager, pc, got>>
    BY <1>5, <2>1 DEF AtomicEdits, EditStep, Truncate, Fill, Replace, Remove,
       MoveAway, Create, Edit, Content
  <2> QED
    BY <2>1, <2>2 DEF TypeOK, manager
<1>6. CASE UNCHANGED vars
  BY <1>6 DEF vars, manager
<1> QED
  BY <1>1, <1>2, <1>3, <1>4, <1>5, <1>6 DEF Next, ThreadStep

(* A configured key file that is edited atomically is never served blank.   *)
THEOREM NeverBlankedCorrect == Spec => []NeverBlanked
<1>1. Init => TypeOK /\ TodoInv /\ BlankInv
  <2>1. ASSUME Init PROVE BlankInv
    <3>1. ASSUME AtomicEdits PROVE disk[Env.keyFile] # Empty
      BY <2>1, <3>1, EnvAssumption DEF Init, AtomicEdits, OptPath
    <3>2. ASSUME NEW t \in Threads PROVE pc[t] \notin {"readKey", "commitKey"}
      BY <2>1 DEF Init
    <3>3. handshakeFile = NoPath
      BY <2>1 DEF Init
    <3> QED
      BY <3>1, <3>2, <3>3 DEF BlankInv
  <2> QED
    BY <2>1, TypeInit
<1>2. TypeOK /\ TodoInv /\ BlankInv /\ [Next]_vars
      => (TypeOK /\ TodoInv /\ BlankInv)'
  BY TypeStep, TodoStep, BlankStep
<1>3. BlankInv => NeverBlanked
  BY DEF BlankInv, NeverBlanked
<1> QED
  BY <1>1, <1>2, <1>3, PTL DEF Spec

-----------------------------------------------------------------------------
(* The password.  What a thread commits it commits at once, so that no      *)
(* order of the commits of several threads can mix what they have read.     *)

LEMMA PasswordStep ==
    ASSUME TypeOK, ConsistentPassword, [Next]_vars
    PROVE  ConsistentPassword'
<1>1. ASSUME NEW t \in Threads, CommitPassword(t)
      PROVE  ConsistentPassword'
  <2>1. got[t].text \in Content
    BY DEF TypeOK, Sources
  <2>2. CASE got[t].plain
    BY <1>1, <2>1, <2>2 DEF CommitPassword, ConsistentPassword
  <2>3. CASE ~got[t].plain
    BY <1>1, <2>1, <2>3 DEF CommitPassword, ConsistentPassword
  <2> QED
    BY <2>2, <2>3
<1>2. ASSUME UNCHANGED <<passwordHash, passwordFile, passwordHashFile>>
      PROVE  ConsistentPassword'
  BY <1>2 DEF ConsistentPassword
<1>3. ASSUME NEW t \in Threads, ReloadStep(t), ~CommitPassword(t)
      PROVE  UNCHANGED <<passwordHash, passwordFile, passwordHashFile>>
  BY <1>3 DEF ReloadStep, ResolveKey, ReadFile, CommitKey, ResolvePassword, manager
<1>4. ASSUME NEW p \in Paths, WatcherStep(p)
      PROVE  UNCHANGED <<passwordHash, passwordFile, passwordHashFile>>
  BY <1>4 DEF WatcherStep, TakeEvent, ReturnFromSelect, Unregister, manager
<1>5. ASSUME WatchStep \/ Close \/ Hangup \/ Cancel \/ UNCHANGED vars
      PROVE  UNCHANGED <<passwordHash, passwordFile, passwordHashFile>>
  BY <1>5 DEF WatchStep, SecretFiles, SkipWatch, WatchFile, AddFails, WatchDir,
     WatchFilesReturn, Close, Hangup, Cancel, vars, manager
<1>6. ASSUME EditStep
      PROVE  UNCHANGED <<passwordHash, passwordFile, passwordHashFile>>
  BY <1>6 DEF EditStep, Truncate, Fill, Replace, Remove, MoveAway, Create,
     Edit, manager
<1> QED
  BY <1>1, <1>2, <1>3, <1>4, <1>5, <1>6 DEF Next, ThreadStep

(* However Reloads interleave, a password stays with the file it is from:   *)
(* no digest is taken for a plain text, and no plain text for a digest.     *)
THEOREM ConsistentPasswordCorrect == Spec => []ConsistentPassword
<1>1. Init => TypeOK /\ TodoInv /\ ConsistentPassword
  BY TypeInit DEF Init, ConsistentPassword
<1>2. TypeOK /\ TodoInv /\ ConsistentPassword /\ [Next]_vars
      => (TypeOK /\ TodoInv /\ ConsistentPassword)'
  BY TypeStep, TodoStep, PasswordStep
<1> QED
  BY <1>1, <1>2, PTL DEF Spec

-----------------------------------------------------------------------------
(* The events that are queued.  A watcher is started with an empty queue    *)
(* only where the map has none, and there its goroutine is off.             *)

LEMMA EventsKept ==
    ASSUME TypeOK, TodoInv, WatcherBookkeeping, [Next]_vars, NEW p \in Paths
    PROVE  \/ Len(events'[p]) >= Len(events[p])
           \/ pc[p] = "select" /\ events'[p] = Tail(events[p])
           \/ pc[p] = "off"
<1>0. events[p] \in Seq(Ops) /\ Len(events[p]) \in Nat
  BY LenProperties DEF TypeOK
<1>1. ASSUME events'[p] = events[p] PROVE Len(events'[p]) >= Len(events[p])
  BY <1>0, <1>1
<1>2. ASSUME NEW t \in Threads, ReloadStep(t) PROVE events'[p] = events[p]
  BY <1>2 DEF ReloadStep, ResolveKey, ReadFile, CommitKey, ResolvePassword, CommitPassword
<1>3. ASSUME NEW q \in Paths, WatcherStep(q)
      PROVE  \/ events'[p] = events[p]
             \/ pc[p] = "select" /\ events'[p] = Tail(events[p])
  BY <1>3 DEF TypeOK, WatcherStep, TakeEvent, ReturnFromSelect, Unregister
<1>4. ASSUME WatchStep PROVE events'[p] = events[p] \/ pc[p] = "off"
  <2>1. ASSUME NEW q \in Paths \ watchers, NEW observed, StartWatcher(q, observed),
               pc[Main] \in {"watch", "addDir"}
        PROVE  events'[p] = events[p] \/ pc[p] = "off"
    BY <2>1 DEF TypeOK, StartWatcher, WatcherBookkeeping
  <2> QED
    BY <1>4, <2>1 DEF WatchStep, SecretFiles, SkipWatch, WatchFile, AddFails, WatchDir,
       WatchFilesReturn, TodoInv
<1>5. ASSUME Close \/ Hangup \/ Cancel \/ UNCHANGED vars PROVE events'[p] = events[p]
  BY <1>5 DEF Close, Hangup, Cancel, vars
<1>6. ASSUME EditStep PROVE Len(events'[p]) >= Len(events[p])
  <2>1. ASSUME NEW q \in Paths, NEW op \in Ops, Deliver(q, op)
        PROVE  Len(events'[p]) >= Len(events[p])
    <3>1. CASE UNCHANGED events
      BY <1>1, <3>1
    <3>2. CASE events' = [events EXCEPT ![q] = Append(@, op)]
      <4>1. CASE p = q
        <5>1. events'[p] = Append(events[p], op)
          BY <3>2, <4>1 DEF TypeOK
        <5>2. Len(Append(events[p], op)) = Len(events[p]) + 1
          BY <1>0, AppendProperties
        <5> QED
          BY <1>0, <5>1, <5>2
      <4>2. CASE p # q
        BY <1>1, <3>2, <4>2 DEF TypeOK
      <4> QED
        BY <4>1, <4>2
    <3> QED
      BY <2>1, <3>1, <3>2 DEF Deliver
  <2>2. PICK q \in Paths, op \in Ops : Deliver(q, op)
    BY <1>6 DEF EditStep, Truncate, Fill, Replace, Remove, MoveAway, Create, Edit, Ops
  <2> QED
    BY <2>1, <2>2
<1> QED
  BY <1>1, <1>2, <1>3, <1>4, <1>5, <1>6 DEF Next, ThreadStep

(* No event that a running watcher has queued is dropped, in particular not *)
(* by WatchFiles, which every SIGHUP runs again.                            *)
THEOREM NoEventDroppedCorrect == Spec => NoEventDropped
<1> DEFINE Kept == \A p \in Paths :
              \/ Len(events'[p]) >= Len(events[p])
              \/ pc[p] = "select" /\ events'[p] = Tail(events[p])
              \/ pc[p] = "off"
<1>1. Init => TypeOK /\ TodoInv /\ WatcherBookkeeping
  BY TypeInit, NamesAssumption DEF Init, WatcherBookkeeping, Threads
<1>2. TypeOK /\ TodoInv /\ WatcherBookkeeping /\ [Next]_vars
      => (TypeOK /\ TodoInv /\ WatcherBookkeeping)' /\ [Kept]_vars
  BY TypeStep, TodoStep, BookkeepingStep, EventsKept
<1> QED
  BY <1>1, <1>2, PTL DEF Spec, NoEventDropped
=============================================================================

----------------------- MODULE SecretsFreshness_proofs -----------------------
(***************************************************************************)
(* Hot reload of SecretsManager, where the design does guarantee it: one   *)
(* configured key file, present from the start and rewritten in place,     *)
(* whose watcher is the only goroutine that runs Reload after the boot.    *)
(* The runs that drop one of these conditions find QuietIsFresh violated.  *)
(***************************************************************************)
EXTENDS SecretsManager_proofs

k == Env.keyFile

SoleReloader ==
    /\ Paths = {k} /\ k # NoPath
    /\ Absent \notin Initial /\ EditKinds[k] \subseteq {"inplace"}
    /\ ~EditDuringBoot /\ ~WatchMayFail /\ MaxHups = 0

Unwatched == watchers = {} /\ watch[k] = "off" /\ pc[k] = "off"
Watched ==
    /\ k \in watchers /\ watch[k] = "file"
    /\ pc[k] \in {"select", "resolveKey", "readKey", "commitKey",
                  "resolvePassword", "readPassword", "commitPassword"}
Stored == handshakeFile = k /\ handshakeKey = disk[k]

(* Either the key is up to date and no commit will spoil it, or a read of   *)
(* the file is still to come: by a Reload that has not read it yet, or for  *)
(* an event in the queue, every one of which is a write.                    *)
Fresh ==
    \/ events[k] # <<>>
    \/ pc[k] \in {"resolveKey", "readKey"}
    \/ pc[k] = "commitKey" /\ got[k].text = disk[k]
    \/ pc[k] # "commitKey" /\ handshakeKey = disk[k]

(* Which of these hold where the main goroutine is.                         *)
Boot1 == pc[Main] \in {"resolveKey", "readKey"} => booting /\ Unwatched
Boot2 == pc[Main] = "commitKey" =>
             booting /\ Unwatched /\ got[Main].text = disk[k]
Boot3 == pc[Main] \in {"resolvePassword", "readPassword", "commitPassword",
                       "snapshot"} => booting /\ Unwatched /\ Stored
Boot4 == pc[Main] = "watch" =>
    /\ booting /\ Stored
    /\ \/ Unwatched /\ todo # <<>> /\ Head(todo) = k
       \/ Watched /\ pc[k] = "select"
Running == pc[Main] = "loop" => ~booting /\ Watched /\ Fresh

FreshInv ==
    /\ disk[k] # Absent
    /\ events[k] \in Seq({"Write"})
    /\ booting => events[k] = <<>> /\ ~ctxDone
    /\ pc[Main] \notin {"closing", "stopped"} => ~ctxDone
    /\ pc[Main] # "addDir"
    /\ \A t \in Threads : pc[t] \in {"readKey", "commitKey"} => got[t].path = k
    /\ Boot1 /\ Boot2 /\ Boot3 /\ Boot4 /\ Running

(* The key source is always the configured file, and it is there.           *)
LEMMA SourceIsFile ==
    ASSUME TypeOK, SoleReloader, FreshInv
    PROVE  /\ KeySource = FromFile(k, FALSE) /\ KeySource.path = k
           /\ Exists(k)
           /\ Paths = {k} /\ Threads = {k, Main} /\ k # Main
<1>1. k \in Paths /\ k # NoPath /\ Exists(k)
  BY DEF SoleReloader, Exists, FreshInv
<1>2. KeySource = FromFile(k, FALSE)
  BY <1>1 DEF KeySource, k
<1>3. KeySource.path = k
  BY <1>2 DEF FromFile
<1> QED
  BY <1>1, <1>2, <1>3, NamesAssumption DEF SoleReloader, Threads

LEMMA FreshReload ==
    ASSUME TypeOK, SoleReloader, FreshInv, NEW t \in Threads, ReloadStep(t)
    PROVE  FreshInv'
<1> USE SourceIsFile DEF FreshInv, Boot1, Boot2, Boot3, Boot4, Running,
    Unwatched, Watched, Stored, Fresh, Goto
<1>1. CASE ResolveKey(t)
  <2>1. got' = [got EXCEPT ![t] = KeySource]
    BY <1>1 DEF ResolveKey
  <2>2. got'[t].path = k /\ \A u \in Threads : u # t => got'[u] = got[u]
    BY <2>1 DEF TypeOK
  <2>3. pc' = [pc EXCEPT ![t] = "readKey"]
    BY <1>1, SoleReloader DEF ResolveKey, SoleReloader
  <2> QED
    BY <1>1, <2>2, <2>3 DEF ResolveKey, TypeOK, manager
<1>2. CASE ReadFile(t, "readKey", "commitKey")
  <2>1. got[t].path = k
    BY <1>2 DEF ReadFile
  <2>2. got' = [got EXCEPT ![t].text = disk[k]]
    BY <1>2, <2>1 DEF ReadFile
  <2>3. got'[t].text = disk[k] /\ got'[t].path = k
    BY <2>1, <2>2 DEF TypeOK, Sources
  <2>4. \A u \in Threads : u # t => got'[u] = got[u]
    BY <2>2 DEF TypeOK
  <2>5. pc' = [pc EXCEPT ![t] = "commitKey"]
    BY <1>2, <2>1 DEF ReadFile
  <2> QED
    BY <1>2, <2>3, <2>4, <2>5 DEF ReadFile, TypeOK, manager
<1>3. CASE CommitKey(t)
  BY <1>3 DEF CommitKey, TypeOK
<1>4. CASE ResolvePassword(t)
  BY <1>4 DEF ResolvePassword, AfterError, TypeOK, manager
<1>5. CASE ReadFile(t, "readPassword", "commitPassword")
  <2>1. \A u \in Threads : u # t => got'[u] = got[u]
    BY <1>5 DEF ReadFile, TypeOK
  <2>2. \/ pc' = [pc EXCEPT ![t] = "commitPassword"]
        \/ pc' = [pc EXCEPT ![t] = AfterError(t)]
    BY <1>5 DEF ReadFile
  <2>3. /\ pc[t] = "readPassword"
        /\ UNCHANGED <<disk, handshakeKey, handshakeFile, watchers, watch,
                        events, todo, booting, ctxDone, edits, hups>>
    BY <1>5 DEF ReadFile, manager
  <2>4. CASE t = Main
    BY <2>1, <2>2, <2>3, <2>4 DEF AfterError, TypeOK
  <2>5. CASE t # Main
    BY <2>1, <2>2, <2>3, <2>5 DEF AfterError, TypeOK
  <2> QED
    BY <2>4, <2>5
<1>6. CASE CommitPassword(t)
  BY <1>6 DEF CommitPassword, AfterReload, TypeOK
<1> QED
  BY <1>1, <1>2, <1>3, <1>4, <1>5, <1>6 DEF ReloadStep

LEMMA FreshWatch ==
    ASSUME TypeOK, SoleReloader, FreshInv, WatchStep
    PROVE  FreshInv'
<1> USE SourceIsFile DEF FreshInv, Boot1, Boot2, Boot3, Boot4, Running,
    Unwatched, Watched, Stored, Fresh, Goto, TypeOK, manager
<1>1. CASE SecretFiles
  BY <1>1 DEF SecretFiles
<1>2. CASE SkipWatch
  BY <1>2 DEF SkipWatch, SoleReloader
<1>3. CASE WatchFile
  BY <1>3 DEF WatchFile, StartWatcher
<1>4. CASE AddFails
  BY <1>4 DEF AddFails
<1>5. CASE WatchDir
  BY <1>5 DEF WatchDir
<1>6. CASE WatchFilesReturn
  BY <1>6 DEF WatchFilesReturn
<1> QED
  BY <1>1, <1>2, <1>3, <1>4, <1>5, <1>6 DEF WatchStep

LEMMA FreshWatcher ==
    ASSUME TypeOK, SoleReloader, FreshInv, WatcherStep(k)
    PROVE  FreshInv'
<1> USE SourceIsFile DEF FreshInv, Boot1, Boot2, Boot3, Boot4, Running,
    Unwatched, Watched, Stored, Fresh, Goto, TypeOK, manager
<1>1. CASE TakeEvent(k)
  <2>1. Head(events[k]) = "Write" /\ Tail(events[k]) \in Seq({"Write"})
    BY <1>1, HeadTail DEF TakeEvent
  <2> QED
    BY <1>1, <2>1 DEF TakeEvent, ReloadOps
<1>2. CASE ReturnFromSelect(k)
  BY <1>2 DEF ReturnFromSelect
<1>3. CASE Unregister(k)
  BY <1>3 DEF Unregister
<1> QED
  BY <1>1, <1>2, <1>3 DEF WatcherStep

(* An edit of the file leaves a write in the queue of its watcher.          *)
LEMMA FreshEdit ==
    ASSUME TypeOK, SoleReloader, FreshInv, EditStep
    PROVE  FreshInv'
<1> USE SourceIsFile DEF FreshInv
<1>1. PICK c \in Content : Edit(k, "inplace", c, "Write", "Write", FALSE)
  BY DEF SoleReloader, EditStep, Truncate, Fill, Replace, Remove, MoveAway,
     Create, Edit, Content
<1>2. ~booting
  BY <1>1 DEF Edit, SoleReloader
<1>3. disk'[k] # Absent
  BY <1>1, NamesAssumption DEF Edit, TypeOK
<1>4. \/ events' = events
      \/ events' = [events EXCEPT ![k] = Append(@, "Write")]
  BY <1>1 DEF Edit, Deliver
<1>7. /\ Append(events[k], "Write") \in Seq({"Write"})
      /\ Append(events[k], "Write") # <<>>
  BY AppendProperties
<1>8. events'[k] \in Seq({"Write"})
  BY <1>4, <1>7 DEF TypeOK
<1>5. watch' = watch
  BY <1>1 DEF Edit, TypeOK
<1>6. watch[k] = "file" => events'[k] # <<>>
  <2>1. CASE events' = [events EXCEPT ![k] = Append(@, "Write")]
    BY <1>7, <2>1 DEF TypeOK
  <2>2. CASE watch[k] = "file" /\ events[k] # <<>> /\ events' = events
    BY <2>2
  <2> QED
    BY <1>1, <2>1, <2>2 DEF Edit, Deliver
<1>9. UNCHANGED <<handshakeKey, handshakeFile, watchers, pc, got, todo,
                 booting, ctxDone>>
  BY <1>1 DEF Edit, manager
<1>10. Boot1' /\ Boot2' /\ Boot3' /\ Boot4'
  BY <1>2, <1>9 DEF Boot1, Boot2, Boot3, Boot4
<1>11. Running'
  BY <1>2, <1>5, <1>6, <1>9 DEF Running, Watched, Fresh
<1>12. (/\ booting => events[k] = <<>> /\ ~ctxDone
        /\ pc[Main] \notin {"closing", "stopped"} => ~ctxDone
        /\ pc[Main] # "addDir")'
  BY <1>2, <1>9
<1>13. (\A t \in Threads : pc[t] \in {"readKey", "commitKey"} =>
                              got[t].path = k)'
  BY <1>9
<1> QED
  BY <1>3, <1>8, <1>10, <1>11, <1>12, <1>13

LEMMA FreshStep ==
    ASSUME TypeOK, SoleReloader, FreshInv, [Next]_vars
    PROVE  FreshInv'
<1> USE SourceIsFile
<1>0. ~Hangup
  BY DEF Hangup, SoleReloader, TypeOK
<1>1. CASE Close \/ Cancel
  <2>1. pc'[Main] \in {"closing", "stopped"}
    BY <1>1 DEF Close, Cancel, Goto, TypeOK, FreshInv, Running
  <2> QED
    BY <1>1, <2>1 DEF Close, Cancel, Goto, TypeOK, FreshInv, Boot1, Boot2,
       Boot3, Boot4, Running, manager
<1>2. CASE UNCHANGED vars
  BY <1>2 DEF vars, manager, FreshInv, Boot1, Boot2, Boot3, Boot4, Running,
     Unwatched, Watched, Stored, Fresh
<1> QED
  BY <1>0, <1>1, <1>2, FreshReload, FreshWatch, FreshWatcher, FreshEdit
     DEF Next, ThreadStep

(* Hot reload works for a key file that is rewritten in place and whose     *)
(* watcher is the sole reloader: whenever the service is quiet, the key it  *)
(* serves is the one in the file.                                           *)
THEOREM HotReloadSafe == SoleReloader => (Spec => []QuietIsFresh)
<1> SUFFICES ASSUME SoleReloader PROVE Spec => []QuietIsFresh
  OBVIOUS
<1>1. Init => TypeOK /\ TodoInv /\ FreshInv
  <2>1. ASSUME Init PROVE FreshInv
    <3>1. k \in Paths /\ Main \in Threads /\ k \in Threads /\ k # Main
      BY NamesAssumption DEF SoleReloader, Threads
    <3>2. disk[k] # Absent /\ events[k] = <<>> /\ watch[k] = "off"
      BY <2>1, <3>1 DEF Init, SoleReloader
    <3>3. pc[Main] = "resolveKey" /\ pc[k] = "off"
      BY <2>1, <3>1 DEF Init
    <3>4. \A t \in Threads : pc[t] \notin {"readKey", "commitKey"}
      BY <2>1 DEF Init
    <3>5. watchers = {} /\ booting /\ ~ctxDone
      BY <2>1 DEF Init
    <3> QED
      BY <3>2, <3>3, <3>4, <3>5 DEF FreshInv, Boot1, Boot2, Boot3, Boot4,
         Running, Unwatched
  <2> QED
    BY <2>1, TypeInit
<1>2. TypeOK /\ TodoInv /\ FreshInv /\ [Next]_vars
      => (TypeOK /\ TodoInv /\ FreshInv)'
  BY TypeStep, TodoStep, FreshStep
<1>3. TypeOK /\ FreshInv => QuietIsFresh
  <2> SUFFICES ASSUME TypeOK, FreshInv, Quiet PROVE KeyFresh
    BY DEF QuietIsFresh
  <2>1. KeySource.path = k /\ k # NoPath /\ k \in Paths
    BY SourceIsFile DEF SoleReloader
  <2>2. handshakeKey = disk[k]
    BY <2>1 DEF FreshInv, Running, Fresh, Quiet
  <2> QED
    BY <2>1, <2>2 DEF KeyFresh
<1> QED
  BY <1>1, <1>2, <1>3, PTL DEF Spec
=============================================================================

--------------------------- MODULE SecretsManager ---------------------------
(***************************************************************************)
(* The secrets manager of internal/secrets/manager.go, driven by the main  *)
(* goroutine of service/main_linux.go: the handshake key and the API       *)
(* password are read from the environment or from files, every file found  *)
(* is watched by a goroutine of its own, and each relevant event, like     *)
(* each SIGHUP, runs Reload again.                                         *)
(*                                                                         *)
(* One thread is the main goroutine (Main), the others are the watcher     *)
(* goroutines, named by the path each one watches.  Reload is split where  *)
(* other threads can come in between: before the stat that selects a       *)
(* source, before the read, and before each critical section of m.mu.      *)
(***************************************************************************)
EXTENDS Naturals, Sequences

CONSTANTS
    Paths,           \* the secret files of this instance
    Values,          \* non-blank contents of a secret file
    Empty,           \* the empty string: a blank file, an unset variable
    Absent,          \* "file" content of a path where there is no file
    NoPath,          \* the empty path
    Main,            \* the main goroutine
    Env,             \* the NCM_* environment variables of the process
    DefKey, DefHash, DefPass,  \* the default paths, NoPath: never present
    Initial,         \* contents, or Absent, that files may have at the start
    EditKinds,       \* how each file is edited from outside
    EditDuringBoot,  \* may files be edited before main reaches its loop?
    WatchMayFail,    \* may creating a watcher fail?
    MaxEdits,        \* bound: edits of files
    MaxHups,         \* bound: SIGHUPs handled
    MaxQueue         \* bound: events of one watcher not yet handled

AllEditKinds == {"inplace", "replace", "remove", "moveaway", "create"}
OptPath == Paths \cup {NoPath}
Content == Values \cup {Empty}

ASSUME NamesAssumption ==
    /\ NoPath \notin Paths
    /\ Main \notin Paths
    /\ Empty \notin Values
    /\ Absent \notin Content
    /\ Initial \subseteq Content \cup {Absent}
ASSUME EnvAssumption ==
    /\ Env \in [keyFile : OptPath, key : Content, hashFile : OptPath,
                pwFile : OptPath, hash : Content, pw : Content]
    /\ {DefKey, DefHash, DefPass} \subseteq OptPath
ASSUME BoundsAssumption ==
    /\ EditKinds \in [Paths -> SUBSET AllEditKinds]
    /\ EditDuringBoot \in BOOLEAN /\ WatchMayFail \in BOOLEAN
    /\ MaxEdits \in Nat /\ MaxHups \in Nat /\ MaxQueue \in Nat

Threads == Paths \cup {Main}
Ops == {"Write", "Create", "Rename", "Remove"}
NoSource == [path |-> NoPath, text |-> Empty, plain |-> FALSE]
Sources == [path : OptPath, text : Content, plain : BOOLEAN]

(* hashPassword: a hash read as such is its text, SHA-256 of v is <<v>>. *)
Hash(v) == <<v>>
Hashes == Content \cup {Hash(v) : v \in Content}

VARIABLES
    disk,              \* content of each file
    handshakeKey, handshakeFile,                  \* Manager, under mu
    passwordHash, passwordFile, passwordHashFile, \* Manager, under mu
    watchers,          \* Manager.watchers: the paths that have an entry
    watch,             \* what the watcher of a path observes
    events,            \* its events the goroutine has not received yet
    pc,                \* where each thread is
    got,               \* locals of Reload: path, text, text is a password?
    todo,              \* Main's list of files in WatchFiles
    booting,           \* Main is before its select loop
    ctxDone,           \* the context is cancelled
    edits, hups        \* counters of the bounds

manager == <<handshakeKey, handshakeFile, passwordHash, passwordFile,
             passwordHashFile>>
vars == <<disk, manager, watchers, watch, events, pc, got, todo, booting,
          ctxDone, edits, hups>>

Init ==
    /\ disk \in [Paths -> Initial]
    /\ handshakeKey = Empty /\ handshakeFile = NoPath
    /\ passwordHash = Empty
    /\ passwordFile = NoPath /\ passwordHashFile = NoPath
    /\ watchers = {}
    /\ watch = [p \in Paths |-> "off"]
    /\ events = [p \in Paths |-> <<>>]
    /\ pc = [t \in Threads |-> IF t = Main THEN "resolveKey" ELSE "off"]
    /\ got = [t \in Threads |-> NoSource]
    /\ todo = <<>>
    /\ booting = TRUE /\ ctxDone = FALSE
    /\ edits = 0 /\ hups = 0

-----------------------------------------------------------------------------
(* Reload, by any thread. *)

Exists(p) == p \in Paths /\ disk[p] # Absent
FromFile(p, plain) == [path |-> p, text |-> Empty, plain |-> plain]
FromText(v, plain) == [path |-> NoPath, text |-> v, plain |-> plain]

KeySource ==
    IF Env.keyFile # NoPath THEN FromFile(Env.keyFile, FALSE)
    ELSE IF Env.key # Empty THEN FromText(Env.key, FALSE)
    ELSE IF Exists(DefKey) THEN FromFile(DefKey, FALSE)
    ELSE NoSource

PasswordSource ==
    IF Env.hashFile # NoPath THEN FromFile(Env.hashFile, FALSE)
    ELSE IF Env.pwFile # NoPath THEN FromFile(Env.pwFile, TRUE)
    ELSE IF Env.hash # Empty THEN FromText(Env.hash, FALSE)
    ELSE IF Env.pw # Empty THEN FromText(Env.pw, TRUE)
    ELSE IF Exists(DefHash) THEN FromFile(DefHash, FALSE)
    ELSE IF Exists(DefPass) THEN FromFile(DefPass, TRUE)
    ELSE NoSource

Goto(t, label) == pc' = [pc EXCEPT ![t] = label]

(* Mutant of AfterReload: the goroutine returns instead of looping. *)
AfterReloadReturns(t) == IF t = Main THEN "snapshot" ELSE "unregister"

(* Where a thread goes when its Reload returns nil, and when it returns an *)
(* error: a watcher only logs it; main logs it and watches the files known *)
(* anyway while booting, but skips WatchFiles after a SIGHUP.              *)
AfterReload(t) == IF t = Main THEN "snapshot" ELSE "select"
AfterError(t) ==
    IF t # Main THEN "select" ELSE IF booting THEN "snapshot" ELSE "loop"

ResolveKey(t) ==
    /\ pc[t] = "resolveKey"
    /\ got' = [got EXCEPT ![t] = KeySource]
    /\ Goto(t, IF KeySource.path = NoPath THEN "commitKey" ELSE "readKey")
    /\ UNCHANGED <<disk, manager, watchers, watch, events, todo, booting,
                   ctxDone, edits, hups>>

(* Mutant of ReadFile: the error is dropped, the value is "". *)
ReadFileErrorDropped(t, here, next) ==
    /\ pc[t] = here
    /\ got' = [got EXCEPT ![t].text =
                  IF Exists(got[t].path) THEN disk[got[t].path] ELSE Empty]
    /\ Goto(t, next)
    /\ UNCHANGED <<disk, manager, watchers, watch, events, todo, booting,
                   ctxDone, edits, hups>>

(* readFileSecret; an error leaves what the manager holds as it is. *)
ReadFile(t, here, next) ==
    /\ pc[t] = here
    /\ \/ /\ Exists(got[t].path)
          /\ got' = [got EXCEPT ![t].text = disk[got[t].path]]
          /\ Goto(t, next)
       \/ /\ ~Exists(got[t].path)
          /\ Goto(t, AfterError(t))
          /\ UNCHANGED got
    /\ UNCHANGED <<disk, manager, watchers, watch, events, todo, booting,
                   ctxDone, edits, hups>>

CommitKey(t) ==
    /\ pc[t] = "commitKey"
    /\ handshakeKey' = got[t].text
    /\ handshakeFile' = got[t].path
    /\ Goto(t, "resolvePassword")
    /\ UNCHANGED <<disk, passwordHash, passwordFile, passwordHashFile,
                   watchers, watch, events, got, todo, booting, ctxDone,
                   edits, hups>>

ResolvePassword(t) ==
    /\ pc[t] = "resolvePassword"
    /\ got' = [got EXCEPT ![t] = PasswordSource]
    /\ Goto(t, IF PasswordSource = NoSource THEN AfterError(t)
               ELSE IF PasswordSource.path = NoPath THEN "commitPassword"
               ELSE "readPassword")
    /\ UNCHANGED <<disk, manager, watchers, watch, events, todo, booting,
                   ctxDone, edits, hups>>

(* Mutant of CommitPassword: the results of readPassword are swapped. *)
CommitPasswordSwapped(t) ==
    /\ pc[t] = "commitPassword"
    /\ passwordHash' = got[t].path
    /\ UNCHANGED <<passwordFile, passwordHashFile>>
    /\ Goto(t, AfterReload(t))
    /\ UNCHANGED <<disk, handshakeKey, handshakeFile, watchers, watch,
                   events, got, todo, booting, ctxDone, edits, hups>>

(* Mutant of CommitPassword: the file of the other kind is not reset. *)
CommitPasswordKeepsFile(t) ==
    /\ pc[t] = "commitPassword"
    /\ passwordHash' = IF got[t].plain THEN Hash(got[t].text) ELSE got[t].text
    /\ IF got[t].plain
       THEN passwordFile' = got[t].path /\ UNCHANGED passwordHashFile
       ELSE passwordHashFile' = got[t].path /\ UNCHANGED passwordFile
    /\ Goto(t, AfterReload(t))
    /\ UNCHANGED <<disk, handshakeKey, handshakeFile, watchers, watch,
                   events, got, todo, booting, ctxDone, edits, hups>>

CommitPassword(t) ==
    /\ pc[t] = "commitPassword"
    /\ passwordHash' = IF got[t].plain THEN Hash(got[t].text) ELSE got[t].text
    /\ passwordFile' = IF got[t].plain THEN got[t].path ELSE NoPath
    /\ passwordHashFile' = IF got[t].plain THEN NoPath ELSE got[t].path
    /\ Goto(t, AfterReload(t))
    /\ UNCHANGED <<disk, handshakeKey, handshakeFile, watchers, watch,
                   events, got, todo, booting, ctxDone, edits, hups>>

ReloadStep(t) ==
    \/ ResolveKey(t)
    \/ ReadFile(t, "readKey", "commitKey")
    \/ CommitKey(t)
    \/ ResolvePassword(t)
    \/ ReadFile(t, "readPassword", "commitPassword")
    \/ CommitPassword(t)

-----------------------------------------------------------------------------
(* WatchFiles, by the main goroutine, which holds watchMu for each file.   *)

SecretFiles ==
    /\ pc[Main] = "snapshot"
    /\ todo' = <<handshakeFile, passwordFile, passwordHashFile>>
    /\ Goto(Main, "watch")
    /\ UNCHANGED <<disk, manager, watchers, watch, events, got, booting,
                   ctxDone, edits, hups>>

(* The watcher of p is registered and its goroutine started. *)
StartWatcher(p, observed) ==
    /\ watchers' = watchers \cup {p}
    /\ watch' = [watch EXCEPT ![p] = observed]
    /\ events' = [events EXCEPT ![p] = <<>>]
    /\ pc' = [pc EXCEPT ![p] = "select", ![Main] = "watch"]

SkipWatch ==
    /\ pc[Main] = "watch" /\ todo # <<>>
    /\ Head(todo) = NoPath \/ Head(todo) \in watchers \/ WatchMayFail
    /\ todo' = Tail(todo)
    /\ UNCHANGED <<disk, manager, watchers, watch, events, pc, got, booting,
                   ctxDone, edits, hups>>

(* Mutant of WatchFile: a path that has a watcher gets another one. *)
WatchFileAgain ==
    /\ pc[Main] = "watch" /\ todo # <<>>
    /\ Head(todo) \in Paths /\ Exists(Head(todo))
    /\ StartWatcher(Head(todo), "file")
    /\ todo' = Tail(todo)
    /\ UNCHANGED <<disk, manager, got, booting, ctxDone, edits, hups>>

WatchFile ==
    /\ pc[Main] = "watch" /\ todo # <<>>
    /\ Head(todo) \in Paths \ watchers
    /\ Exists(Head(todo))
    /\ StartWatcher(Head(todo), "file")
    /\ todo' = Tail(todo)
    /\ UNCHANGED <<disk, manager, got, booting, ctxDone, edits, hups>>

(* watcher.Add(path) fails on a missing file: watch its directory instead. *)
AddFails ==
    /\ pc[Main] = "watch" /\ todo # <<>>
    /\ Head(todo) \in Paths \ watchers
    /\ ~Exists(Head(todo))
    /\ Goto(Main, "addDir")
    /\ UNCHANGED <<disk, manager, watchers, watch, events, got, todo,
                   booting, ctxDone, edits, hups>>

WatchDir ==
    /\ pc[Main] = "addDir"
    /\ StartWatcher(Head(todo), "dir")
    /\ todo' = Tail(todo)
    /\ UNCHANGED <<disk, manager, got, booting, ctxDone, edits, hups>>

WatchFilesReturn ==
    /\ pc[Main] = "watch" /\ todo = <<>>
    /\ Goto(Main, "loop")
    /\ booting' = FALSE
    /\ UNCHANGED <<disk, manager, watchers, watch, events, got, todo,
                   ctxDone, edits, hups>>

WatchStep == SecretFiles \/ SkipWatch \/ WatchFile \/ AddFails \/ WatchDir
                \/ WatchFilesReturn

-----------------------------------------------------------------------------
(* The loop of main: SIGHUP, and the shutdown that a signal or the end of  *)
(* the servers starts (LinuxService models how): the deferred cancel and   *)
(* Close both run before the process ends.                                 *)

Hangup ==
    /\ pc[Main] = "loop" /\ hups < MaxHups
    /\ Goto(Main, "resolveKey")
    /\ hups' = hups + 1
    /\ UNCHANGED <<disk, manager, watchers, watch, events, got, todo,
                   booting, ctxDone, edits>>

Cancel ==
    /\ pc[Main] = "loop"
    /\ ctxDone' = TRUE
    /\ Goto(Main, "closing")
    /\ UNCHANGED <<disk, manager, watchers, watch, events, got, todo,
                   booting, edits, hups>>

Close ==
    /\ pc[Main] = "closing"
    /\ watch' = [p \in Paths |-> IF p \in watchers THEN "closed" ELSE watch[p]]
    /\ watchers' = {}
    /\ Goto(Main, "stopped")
    /\ UNCHANGED <<disk, manager, events, got, todo, booting, ctxDone,
                   edits, hups>>

-----------------------------------------------------------------------------
(* The goroutine of the watcher of p. *)

(* Mutant of ReloadOps: a write in place is not noticed. *)
ReloadOpsNoWrite == {"Create", "Rename"}

(* The operations on p that call Reload: Remove is not one of them. *)
ReloadOps == {"Write", "Create", "Rename"}

TakeEvent(p) ==
    /\ pc[p] = "select" /\ events[p] # <<>> /\ watch[p] # "closed"
    /\ events' = [events EXCEPT ![p] = Tail(@)]
    /\ IF Head(events[p]) \in ReloadOps THEN Goto(p, "resolveKey")
                                        ELSE UNCHANGED pc
    /\ UNCHANGED <<disk, manager, watchers, watch, got, todo, booting,
                   ctxDone, edits, hups>>

(* ctx.Done, or the channel Events of a watcher that is closed. *)
ReturnFromSelect(p) ==
    /\ pc[p] = "select"
    /\ ctxDone \/ watch[p] = "closed"
    /\ watch' = [watch EXCEPT ![p] = "closed"]
    /\ Goto(p, "unregister")
    /\ UNCHANGED <<disk, manager, watchers, events, got, todo, booting,
                   ctxDone, edits, hups>>

(* Mutant of Unregister: the entry stays in the map. *)
UnregisterForgotten(p) ==
    /\ pc[p] = "unregister"
    /\ watch' = [watch EXCEPT ![p] = "off"]
    /\ Goto(p, "off")
    /\ UNCHANGED <<disk, manager, watchers, events, got, todo, booting,
                   ctxDone, edits, hups>>

Unregister(p) ==
    /\ pc[p] = "unregister"
    /\ watchers' = watchers \ {p}
    /\ watch' = [watch EXCEPT ![p] = "off"]
    /\ Goto(p, "off")
    /\ UNCHANGED <<disk, manager, events, got, todo, booting, ctxDone,
                   edits, hups>>

WatcherStep(p) == TakeEvent(p) \/ ReturnFromSelect(p) \/ Unregister(p)

-----------------------------------------------------------------------------
(* Edits of the files from outside, and what inotify makes of them: the    *)
(* watch of a file follows its inode, and dies with it or when it moves.   *)

(* The event op reaches the watcher of p; two equal events in a row may    *)
(* become one.                                                             *)
Deliver(p, op) ==
    IF watch[p] \notin {"file", "dir"} THEN UNCHANGED events
    ELSE \/ /\ Len(events[p]) < MaxQueue
            /\ events' = [events EXCEPT ![p] = Append(@, op)]
         \/ /\ events[p] # <<>> /\ events[p][Len(events[p])] = op
            /\ UNCHANGED events

(* p gets the content c; the watcher sees onFile or onDir, by what it      *)
(* watches; the watch of the file itself ends if its inode leaves p.       *)
Edit(p, kind, c, onFile, onDir, leaves) ==
    /\ kind \in EditKinds[p]
    /\ edits < MaxEdits /\ (booting => EditDuringBoot)
    /\ disk' = [disk EXCEPT ![p] = c]
    /\ Deliver(p, IF watch[p] = "file" THEN onFile ELSE onDir)
    /\ watch' = [watch EXCEPT ![p] = IF leaves /\ @ = "file" THEN "dead"
                                                             ELSE @]
    /\ edits' = edits + 1
    /\ UNCHANGED <<manager, watchers, pc, got, todo, booting, ctxDone, hups>>

(* A shell's redirection: truncate, then write. *)
Truncate(p) ==
    /\ disk[p] \in Values
    /\ Edit(p, "inplace", Empty, "Write", "Write", FALSE)
Fill(p, v) ==
    /\ disk[p] = Empty
    /\ Edit(p, "inplace", v, "Write", "Write", FALSE)

(* rename(2) of a new file over p, as editors and configuration tools do. *)
Replace(p, v) == Edit(p, "replace", v, "Remove", "Create", TRUE)
Remove(p) ==
    /\ Exists(p)
    /\ Edit(p, "remove", Absent, "Remove", "Remove", TRUE)
MoveAway(p) ==
    /\ Exists(p)
    /\ Edit(p, "moveaway", Absent, "Rename", "Rename", TRUE)
Create(p) ==
    /\ ~Exists(p)
    /\ Edit(p, "create", Empty, "Create", "Create", FALSE)

EditStep == \E p \in Paths :
    \/ Truncate(p) \/ Remove(p) \/ MoveAway(p) \/ Create(p)
    \/ \E v \in Values : Fill(p, v) \/ Replace(p, v)

-----------------------------------------------------------------------------
ThreadStep(t) ==
    \/ ReloadStep(t)
    \/ t \in Paths /\ WatcherStep(t)
    \/ t = Main /\ (WatchStep \/ Close)

Next ==
    \/ \E t \in Threads : ThreadStep(t)
    \/ Hangup
    \/ Cancel
    \/ EditStep

Spec == Init /\ [][Next]_vars

(* The scheduler runs every goroutine; signals and edits may never come. *)
Fairness == \A t \in Threads : WF_vars(ThreadStep(t))
FairSpec == Spec /\ Fairness

-----------------------------------------------------------------------------
(* Properties *)

(* Type invariant: the values each variable takes. *)
TypeOK ==
    /\ disk \in [Paths -> Content \cup {Absent}]
    /\ handshakeKey \in Content /\ handshakeFile \in OptPath
    /\ passwordHash \in Hashes
    /\ passwordFile \in OptPath /\ passwordHashFile \in OptPath
    /\ watchers \subseteq Paths
    /\ watch \in [Paths -> {"off", "file", "dir", "dead", "closed"}]
    /\ events \in [Paths -> Seq(Ops)]
    /\ pc \in [Threads -> {"off", "select", "unregister", "resolveKey",
                           "readKey", "commitKey", "resolvePassword",
                           "readPassword", "commitPassword", "snapshot",
                           "watch", "addDir", "loop", "closing", "stopped"}]
    /\ got \in [Threads -> Sources]
    /\ todo \in Seq(OptPath)
    /\ booting \in BOOLEAN /\ ctxDone \in BOOLEAN
    /\ edits \in 0 .. MaxEdits /\ hups \in 0 .. MaxHups

(* Until Close, the map Manager.watchers holds a path exactly while the    *)
(* goroutine of its watcher runs, so that neither a SIGHUP nor a goroutine *)
(* that is on its way out leaves a live inotify watch nobody listens to,   *)
(* or a goroutine that WatchFiles would start a second time.               *)
WatcherBookkeeping == \A p \in Paths :
    /\ pc[Main] # "stopped" => (p \in watchers <=> pc[p] # "off")
    /\ watch[p] \in {"file", "dir"} => p \in watchers

(* However the Reloads of several goroutines interleave, the password, the *)
(* way it was obtained and the file it came from belong together: at most  *)
(* one of passwordFile and passwordHashFile is set, a hash file never      *)
(* leaves the digest of its text, a password file never its plain text.    *)
ConsistentPassword ==
    /\ passwordFile = NoPath \/ passwordHashFile = NoPath
    /\ passwordHashFile # NoPath => passwordHash \in Content
    /\ passwordFile # NoPath => \E v \in Content : passwordHash = Hash(v)

(* With a configured key file that is edited atomically, a failing or a    *)
(* racing Reload never leaves a blank key behind: metrics stay available.  *)
AtomicEdits ==
    /\ Env.keyFile # NoPath /\ Empty \notin Initial
    /\ EditKinds[Env.keyFile] \subseteq {"replace", "remove", "moveaway"}
NeverBlanked == AtomicEdits /\ handshakeFile # NoPath => handshakeKey # Empty

(* WatchFiles, which every SIGHUP runs again, leaves the events that a     *)
(* running watcher has queued alone: only the goroutine itself takes one.  *)
NoEventDropped == [][\A p \in Paths :
    \/ Len(events'[p]) >= Len(events[p])
    \/ pc[p] = "select" /\ events'[p] = Tail(events[p])
    \/ pc[p] = "off"]_vars

(* Every thread waits for something to happen and nothing has. *)
Quiet ==
    /\ pc[Main] = "loop"
    /\ \A p \in Paths : pc[p] \in {"off", "select"} /\ events[p] = <<>>

(* The key served is that of the source Reload would select now. *)
KeyFresh ==
    IF KeySource.path = NoPath THEN handshakeKey = KeySource.text
    ELSE Exists(KeySource.path) => handshakeKey = disk[KeySource.path]

(* Hot reload as a safety property: once every event has been handled, the *)
(* handshake key in memory is the one in its file.                         *)
QuietIsFresh == Quiet => KeyFresh

(* Hot reload: unless the service stops, the key settles on the content of *)
(* its file once the file is no longer edited.                             *)
HotReload == <>[](ctxDone \/ KeyFresh)
=============================================================================

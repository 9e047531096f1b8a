----------------------------- MODULE ConfigWatch -----------------------------
(***************************************************************************)
(* The start of a collector, which is the same in internal/collector/linux *)
(* and /windows, and the two configuration files it follows: the device    *)
(* configuration, shown by device_serial_number_info, and the mock         *)
(* configuration, which a loop applies to the gauges when mock mode was on *)
(* at the start.  The events of a watcher are those of Linux.              *)
(*                                                                         *)
(* The goroutine that starts the collector is not named; of the others     *)
(* there are the two watchers Dev and Mock, the mock loop, and what sets   *)
(* its gauge to the real identity (HardwareIdentity models that): the      *)
(* goroutine of RecordUUIDMetrics, once, and the API.  A file is read in   *)
(* one step: nobody else writes what the reader sets, and a later edit has *)
(* an event of its own.                                                    *)
(***************************************************************************)
EXTENDS Naturals, Sequences, FiniteSets

CONSTANTS
    Dev, Mock,        \* the two files, and the goroutines that watch them
    Serials,          \* device configurations that users write
    Unknown,          \* the device configuration of createDefaultConfigFile
    Blank,            \* an empty file; for YAML, a configuration of blanks
    Broken,           \* a file that does not parse
    Absent,           \* no file
    MaxEdits,         \* bound: edits, and calls of the API
    MaxQueue          \* bound: events of a watcher not yet received

Files == {Dev, Mock}
Mocks == [enabled : BOOLEAN, changed : BOOLEAN]
DefaultMock == [enabled |-> FALSE, changed |-> FALSE]
Texts == [f \in Files |-> IF f = Dev THEN Serials \cup {Unknown} ELSE Mocks]
Content == Serials \cup {Unknown, Blank, Broken, Absent} \cup Mocks
Default(f) == IF f = Dev THEN Unknown ELSE DefaultMock

ASSUME NamesAssumption ==
    /\ Dev # Mock
    /\ Cardinality({Unknown, Blank, Broken, Absent}) = 4
    /\ (Serials \cup Mocks) \cap {Unknown, Blank, Broken, Absent} = {}
    /\ MaxEdits \in Nat /\ MaxQueue \in Nat \ {0}

VARIABLES
    disk,         \* content of each file
    start,        \* where RegisterMetrics and Start are
    mockEnabled,  \* Collector.mockEnabled
    series,       \* labels of device_serial_number_info
    config,       \* the mock configuration in memory
    pc,           \* where each watcher goroutine is
    watch,        \* what its inotify watch observes
    events,       \* the events it has not received
    fetched,      \* what Dev has read and not yet shown
    loop,         \* where the mock loop is
    refresh,      \* RefreshUUIDMetrics, of RecordUUIDMetrics or the API
    gauge,        \* UNIQUE_ID_CHANGED = 1
    missed,       \* history: files changed by an edit that no watch reports as
                  \* a Write, and not read since
    ctxDone, edits

vars == <<disk, start, mockEnabled, series, config, pc, watch, events,
          fetched, loop, refresh, gauge, missed, ctxDone, edits>>
files == <<disk, missed>>
starting == <<start, mockEnabled>>
watchers == <<pc, watch, events, fetched>>
gauges == <<series, loop, refresh, gauge>>
outside == <<ctxDone, edits>>

Init ==
    /\ disk \in [Files -> Content] /\ edits = 0
    /\ \A f \in Files : disk[f] \in Texts[f] \cup {Blank, Broken, Absent}
    /\ start = "register" /\ mockEnabled = FALSE
    /\ series = {} /\ config = DefaultMock
    /\ pc = [f \in Files |-> "off"] /\ watch = [f \in Files |-> "off"]
    /\ events = [f \in Files |-> <<>>] /\ fetched = Blank
    /\ loop = "off" /\ refresh = "off" /\ gauge = FALSE
    /\ missed = {} /\ ctxDone = FALSE

-----------------------------------------------------------------------------
(* Reading a file, by Read of deviceconfig and by Load of mockconfig *)

(* A missing file is created with its default, which is then what is read. *)
Text(f) == IF disk[f] = Absent THEN Default(f) ELSE disk[f]
EnsureFile(f) == disk' = [disk EXCEPT ![f] = Text(f)]

(* What parses: an empty file is valid YAML and invalid JSON. *)
Parses(f, c) == c \in Texts[f] \/ (f = Dev /\ c = Blank)

(* Mutant of Load: an unreadable file resets the configuration. *)
LoadResets ==
    /\ EnsureFile(Mock) /\ missed' = missed \ {Mock}
    /\ config' = IF Parses(Mock, Text(Mock)) THEN Text(Mock) ELSE DefaultMock

Load ==
    /\ EnsureFile(Mock) /\ missed' = missed \ {Mock}
    /\ config' = IF Parses(Mock, Text(Mock)) THEN Text(Mock) ELSE config

-----------------------------------------------------------------------------
(* The start of the collector *)

(* RegisterMetrics: mock mode is decided here, once. *)
RegisterMetrics ==
    /\ start = "register"
    /\ Load
    /\ IF Parses(Mock, Text(Mock))
       THEN start' = "watchMock" /\ mockEnabled' = config'.enabled
       ELSE start' = "failed" /\ UNCHANGED mockEnabled
    /\ UNCHANGED <<watchers, gauges, outside>>

GoWatchMock ==
    /\ start = "watchMock" /\ start' = "readDevice"
    /\ pc' = [pc EXCEPT ![Mock] = "load"]
    /\ UNCHANGED <<files, mockEnabled, config, watch, events, fetched, gauges,
                   outside>>

(* Blank fields become "unknown" here, and only here. *)
Shown(c) == IF c = Blank THEN Unknown ELSE c

ReadDevice ==
    /\ start = "readDevice"
    /\ EnsureFile(Dev) /\ missed' = missed \ {Dev}
    /\ IF Parses(Dev, Text(Dev))
       THEN start' = "watchDevice" /\ series' = {Shown(Text(Dev))}
       ELSE start' = "failed" /\ UNCHANGED series
    /\ UNCHANGED <<mockEnabled, config, loop, refresh, gauge, watchers,
                   outside>>

(* deviceconfig.Watch: the goroutine runs before the file is added.  If    *)
(* the file is gone, or the goroutine has found the context cancelled and  *)
(* closed the watcher, Add fails; it leaves no goroutine behind.           *)
WatchDevice ==
    /\ start = "watchDevice"
    /\ \/ /\ disk[Dev] = Absent \/ ctxDone
          /\ start' = "failed"
          /\ UNCHANGED <<pc, watch>>
       \/ /\ disk[Dev] # Absent
          /\ start' = "recordUUID"
          /\ pc' = [pc EXCEPT ![Dev] = "select"]
          /\ watch' = [watch EXCEPT ![Dev] = "file"]
    /\ UNCHANGED <<files, mockEnabled, config, events, fetched, gauges,
                   outside>>

RecordUUID ==
    /\ start = "recordUUID" /\ start' = "running"
    /\ refresh' = "pending"
    /\ loop' = IF mockEnabled THEN "apply" ELSE "off"
    /\ UNCHANGED <<files, mockEnabled, series, config, gauge, watchers,
                   outside>>

StartStep == \/ RegisterMetrics \/ GoWatchMock \/ ReadDevice \/ WatchDevice
             \/ RecordUUID

-----------------------------------------------------------------------------
(* The watchers *)

(* Mutant of LoadMock: the file is added without loading it again, and a   *)
(* write is not waited for.                                                *)
LoadMockNot(here, next) ==
    /\ pc[Mock] = here /\ pc' = [pc EXCEPT ![Mock] = next]
    /\ UNCHANGED <<files, config, watch, events, fetched, starting, gauges,
                   outside>>

(* mockconfig.Watch loads the file before it adds the watch, and 100 ms    *)
(* after each write.                                                       *)
LoadMock(here, next) ==
    /\ pc[Mock] = here /\ pc' = [pc EXCEPT ![Mock] = next]
    /\ Load
    /\ UNCHANGED <<watch, events, fetched, starting, gauges, outside>>

AddMock ==
    /\ pc[Mock] = "add"
    /\ IF disk[Mock] = Absent
       THEN pc' = [pc EXCEPT ![Mock] = "ended"] /\ UNCHANGED watch
       ELSE /\ pc' = [pc EXCEPT ![Mock] = "select"]
            /\ watch' = [watch EXCEPT ![Mock] = "file"]
    /\ UNCHANGED <<files, config, events, fetched, starting, gauges, outside>>

(* Only a Write is acted upon; either case of the select may be taken. *)
TakeEvent(f) ==
    /\ pc[f] = "select" /\ events[f] # <<>>
    /\ events' = [events EXCEPT ![f] = Tail(@)]
    /\ pc' = [pc EXCEPT ![f] = IF Head(events[f]) = "Write" THEN "react" ELSE @]
    /\ UNCHANGED <<files, config, watch, fetched, starting, gauges, outside>>

(* Mutant of ReadChange: the error of Read is not looked at. *)
ReadChangeUnchecked ==
    /\ pc[Dev] = "react"
    /\ EnsureFile(Dev) /\ missed' = missed \ {Dev}
    /\ fetched' = Text(Dev) /\ pc' = [pc EXCEPT ![Dev] = "reset"]
    /\ UNCHANGED <<config, watch, events, starting, gauges, outside>>

ReadChange ==
    /\ pc[Dev] = "react"
    /\ EnsureFile(Dev) /\ missed' = missed \ {Dev}
    /\ IF Parses(Dev, Text(Dev))
       THEN fetched' = Text(Dev) /\ pc' = [pc EXCEPT ![Dev] = "reset"]
       ELSE pc' = [pc EXCEPT ![Dev] = "select"] /\ UNCHANGED fetched
    /\ UNCHANGED <<config, watch, events, starting, gauges, outside>>

(* UpdateSerialNumberMetrics: Reset, then With of the values as they are. *)
ResetSeries ==
    /\ pc[Dev] = "reset" /\ pc' = [pc EXCEPT ![Dev] = "with"]
    /\ series' = {}
    /\ UNCHANGED <<files, config, watch, events, fetched, loop, refresh, gauge,
                   starting, outside>>
ShowSeries ==
    /\ pc[Dev] = "with" /\ pc' = [pc EXCEPT ![Dev] = "select"]
    /\ series' = series \cup {fetched}
    /\ UNCHANGED <<files, config, watch, events, fetched, loop, refresh, gauge,
                   starting, outside>>

(* Mutant of StopWatching: the context is not listened to. *)
NeverStopWatching(f) ==
    /\ pc[f] = "select" /\ FALSE /\ UNCHANGED vars
StopWatching(f) ==
    /\ pc[f] = "select" /\ ctxDone
    /\ pc' = [pc EXCEPT ![f] = "ended"] /\ watch' = [watch EXCEPT ![f] = "off"]
    /\ UNCHANGED <<files, config, events, fetched, starting, gauges, outside>>

WatcherStep(f) ==
    \/ TakeEvent(f) \/ StopWatching(f)
    \/ /\ f = Mock
       /\ LoadMock("load", "add") \/ LoadMock("react", "select") \/ AddMock
    \/ f = Dev /\ (ReadChange \/ ResetSeries \/ ShowSeries)

-----------------------------------------------------------------------------
(* The gauge that the mock loop and the goroutine of RecordUUIDMetrics set *)

(* Mutant of ApplyMock: the loop ends after its first round. *)
ApplyMockOnce ==
    /\ loop = "apply" /\ loop' = "ended"
    /\ gauge' = config.changed
    /\ UNCHANGED <<files, series, config, refresh, starting, watchers, outside>>

(* A round of startMockLoop, every five seconds. *)
ApplyMock ==
    /\ loop = "apply" /\ loop' = "wait"
    /\ gauge' = config.changed
    /\ UNCHANGED <<files, series, config, refresh, starting, watchers, outside>>
Tick ==
    /\ loop = "wait"
    /\ loop' \in {"apply"} \cup (IF ctxDone THEN {"ended"} ELSE {})
    /\ UNCHANGED <<files, series, config, refresh, gauge, starting, watchers,
                   outside>>

(* RefreshUUIDMetrics sets the gauge to what it finds, if it finds it. *)
RefreshUUID ==
    /\ refresh = "pending" /\ refresh' = "done"
    /\ gauge' \in BOOLEAN
    /\ UNCHANGED <<files, series, config, loop, starting, watchers, outside>>

-----------------------------------------------------------------------------
(* The surroundings *)

(* The program is told to stop, at any time: RegisterMetrics and Start do  *)
(* not look at the context themselves.                                     *)
Cancel ==
    /\ ~ctxDone /\ ctxDone' = TRUE
    /\ UNCHANGED <<files, config, edits, starting, watchers, gauges>>

(* UpdateUUID: the API, which runs when the collector has started, sets    *)
(* the gauge as well, in mock mode too.                                    *)
ApiRefresh ==
    /\ start = "running" /\ refresh = "done"
    /\ edits < MaxEdits /\ edits' = edits + 1
    /\ refresh' = "pending"
    /\ UNCHANGED <<files, config, series, loop, gauge, ctxDone, starting,
                   watchers>>

(* f gets the content c; its watch reports op, unless the last event is    *)
(* the same, and ends if the inode has gone.                               *)
Edit(f, c, op, gone) ==
    /\ edits < MaxEdits /\ edits' = edits + 1
    /\ disk' = [disk EXCEPT ![f] = c]
    /\ IF watch[f] # "file" THEN UNCHANGED events
       ELSE \/ /\ Len(events[f]) < MaxQueue
               /\ events' = [events EXCEPT ![f] = Append(@, op)]
            \/ /\ events[f] # <<>> /\ events[f][Len(events[f])] = op
               /\ UNCHANGED events
    /\ watch' = [watch EXCEPT ![f] = IF gone /\ @ = "file" THEN "dead" ELSE @]
    /\ missed' = IF watch[f] = "file" /\ ~gone THEN missed ELSE missed \cup {f}
    /\ UNCHANGED <<config, pc, fetched, ctxDone, starting, gauges>>

Truncate(f) == disk[f] \notin {Absent, Blank} /\ Edit(f, Blank, "Write", FALSE)
Write(f, c) == disk[f] = Blank /\ Edit(f, c, "Write", FALSE)
Replace(f, c) == Edit(f, c, "Remove", TRUE)
Remove(f) == disk[f] # Absent /\ Edit(f, Absent, "Remove", TRUE)

EditStep == \E f \in Files :
    \/ Truncate(f) \/ Remove(f)
    \/ \E c \in Texts[f] \cup {Broken} : Write(f, c) \/ Replace(f, c)

-----------------------------------------------------------------------------
Next ==
    \/ StartStep
    \/ \E f \in Files : WatcherStep(f)
    \/ ApplyMock \/ Tick \/ RefreshUUID
    \/ Cancel \/ ApiRefresh \/ EditStep

Spec == Init /\ [][Next]_vars

(* The scheduler runs every goroutine, and the select of the mock loop,    *)
(* taken again and again, takes the context in the end.                    *)
FairSpec ==
    /\ Spec
    /\ WF_vars(StartStep) /\ WF_vars(ApplyMock) /\ WF_vars(Tick)
    /\ SF_vars(Tick /\ loop' = "ended")
    /\ WF_vars(RefreshUUID)
    /\ \A f \in Files : WF_vars(WatcherStep(f)) /\ SF_vars(StopWatching(f))

-----------------------------------------------------------------------------
(* Properties *)

TypeOK ==
    /\ disk \in [Files -> Content]
    /\ start \in {"register", "watchMock", "readDevice", "watchDevice",
                  "recordUUID", "running", "failed"}
    /\ mockEnabled \in BOOLEAN /\ gauge \in BOOLEAN /\ ctxDone \in BOOLEAN
    /\ series \subseteq Serials \cup {Unknown, Blank}
    /\ config \in Mocks
    /\ pc \in [Files -> {"off", "load", "add", "select", "react", "reset",
                         "with", "ended"}]
    /\ watch \in [Files -> {"off", "file", "dead"}]
    /\ events \in [Files -> Seq({"Write", "Remove"})]
    /\ fetched \in Serials \cup {Unknown, Blank}
    /\ loop \in {"off", "apply", "wait", "ended"}
    /\ refresh \in {"off", "pending", "done"}
    /\ missed \subseteq Files /\ edits \in 0 .. MaxEdits

(* The mock configuration is never one that nobody wrote: while a file is  *)
(* being rewritten, or when it is broken, the last good one stays.         *)
LastGoodMock == [][
    config' # config => disk'[Mock] = config']_vars

(* What a watcher has taken in: with every event handled, it is what the   *)
(* file says, if the file parses at all.  Excepted are edits that nothing  *)
(* reports as a Write: those before the watch is there, which Start does   *)
(* not look for again, those that replace the file, and those after that,  *)
(* as the watch is dead then.                                              *)
UpToDate(f) ==
    IF f = Mock THEN config = disk[Mock]
    ELSE series \in {{disk[Dev]}, {Shown(disk[Dev])}}
QuietIsFresh == start = "running" => \A f \in Files :
    pc[f] = "select" /\ events[f] = <<>> /\ f \notin missed
    /\ Parses(f, disk[f]) => UpToDate(f)

(* Cancelling the context ends every goroutine the collector started, also *)
(* those that are only started then, as the start goes on without looking  *)
(* at the context, and those of a start that fails, which may be because   *)
(* of it.                                                                  *)
AllEnd == ctxDone ~> /\ start \in {"running", "failed"}
                     /\ \A f \in Files : pc[f] \in {"off", "ended"}
                     /\ loop \in {"off", "ended"} /\ refresh # "pending"

(* In mock mode the gauge settles on what the mock configuration says,     *)
(* whenever the real identity may have set it in between.                  *)
MockShown == <>[](ctxDone \/ loop = "off" \/ gauge = config.changed)
=============================================================================

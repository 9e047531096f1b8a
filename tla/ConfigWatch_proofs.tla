-------------------------- MODULE ConfigWatch_proofs --------------------------
(***************************************************************************)
(* Proofs about ConfigWatch, for any device configurations, any number of  *)
(* edits at any time, and queues of events of any length.                  *)
(***************************************************************************)
EXTENDS ConfigWatch, SequenceTheorems, TLAPS

(* What can be read of a file, and what parses of it.                      *)
LEMMA TextType ==
    /\ Unknown \in Content /\ DefaultMock \in Mocks /\ Mocks \subseteq Content
    /\ \A f \in Files : Texts[f] \subseteq Content /\ Default(f) \in Content
    /\ Texts[Mock] = Mocks /\ Texts[Dev] = Serials \cup {Unknown}
    /\ {Blank, Broken, Absent} \subseteq Content
  BY NamesAssumption DEF Content, Mocks, DefaultMock, Texts, Default, Files

LEMMA ReadType ==
    ASSUME TypeOK
    PROVE  /\ \A f \in Files : Text(f) \in Content
           /\ Parses(Mock, Text(Mock)) => Text(Mock) \in Mocks
           /\ Parses(Dev, Text(Dev)) => Text(Dev) \in Serials \cup {Unknown, Blank}
  BY TextType, NamesAssumption DEF TypeOK, Text, Parses, Files

(* A reader leaves the file as it found it, or with its default.           *)
LEMMA EnsureType ==
    ASSUME TypeOK, NEW f \in Files, EnsureFile(f)
    PROVE  disk' \in [Files -> Content] /\ disk'[f] = Text(f)
           /\ \A g \in Files \ {f} : disk'[g] = disk[g]
  BY ReadType DEF EnsureFile, TypeOK

LEMMA LoadType ==
    ASSUME TypeOK, Load
    PROVE  /\ disk' \in [Files -> Content] /\ missed' = missed \ {Mock}
           /\ config' \in Mocks
           /\ disk'[Mock] = Text(Mock)
           /\ \A g \in Files \ {Mock} : disk'[g] = disk[g]
           /\ config' = IF Parses(Mock, Text(Mock)) THEN Text(Mock) ELSE config
<1>1. Mock \in Files
  BY DEF Files
<1> QED
  BY <1>1, EnsureType, ReadType DEF Load, TypeOK

(* What an edit changes: either its watch reports it, or it is missed.     *)
HasWrite(f) == \E i \in 1 .. Len(events[f]) : events[f][i] = "Write"

LEMMA EditEffect ==
    ASSUME TypeOK, NEW f \in Files, NEW c \in Content,
           NEW op \in {"Write", "Remove"}, NEW gone \in BOOLEAN,
           Edit(f, c, op, gone), gone \/ op = "Write"
    PROVE  /\ TypeOK'
           /\ \A g \in Files \ {f} : disk'[g] = disk[g] /\ events'[g] = events[g]
           /\ missed \subseteq missed' /\ missed' \subseteq missed \cup {f}
           /\ f \in missed' \/ HasWrite(f)'
           /\ UNCHANGED <<config, pc, fetched, ctxDone, start, mockEnabled,
                          series, loop, refresh, gauge>>
<1> USE DEF Edit
<1>1. UNCHANGED <<config, pc, fetched, ctxDone, start, mockEnabled, series,
                  loop, refresh, gauge>>
  BY DEF starting, gauges
<1>2. disk' \in [Files -> Content] /\ \A g \in Files \ {f} : disk'[g] = disk[g]
  BY DEF TypeOK
<1>3. watch' \in [Files -> {"off", "file", "dead"}]
  BY DEF TypeOK
<1>4. edits' \in 0 .. MaxEdits
  BY NamesAssumption DEF TypeOK
<1>5. missed' \subseteq Files /\ missed \subseteq missed' /\ missed' \subseteq missed \cup {f}
  BY DEF TypeOK
<1>6. events[f] \in Seq({"Write", "Remove"})
  BY DEF TypeOK
<1>7. /\ events' \in [Files -> Seq({"Write", "Remove"})]
      /\ \A g \in Files \ {f} : events'[g] = events[g]
      /\ f \in missed' \/ HasWrite(f)'
  <2>1. CASE watch[f] # "file"
    BY <2>1 DEF TypeOK
  <2>2. CASE watch[f] = "file" /\ events' = [events EXCEPT ![f] = Append(@, op)]
    <3>1. /\ Append(events[f], op) \in Seq({"Write", "Remove"})
          /\ Len(Append(events[f], op)) = Len(events[f]) + 1
          /\ Append(events[f], op)[Len(events[f]) + 1] = op
      BY <1>6, AppendProperties
    <3>2. events'[f] = Append(events[f], op)
      BY <2>2 DEF TypeOK
    <3>3. Len(events[f]) + 1 \in 1 .. Len(events'[f])
      BY <1>6, <3>1, <3>2, LenProperties
    <3>4. f \in missed' \/ HasWrite(f)'
      BY <2>2, <3>1, <3>2, <3>3 DEF HasWrite
    <3> QED
      BY <2>2, <3>1, <3>4 DEF TypeOK
  <2>3. CASE watch[f] = "file" /\ events[f] # <<>>
             /\ events[f][Len(events[f])] = op /\ UNCHANGED events
    <3>1. Len(events[f]) \in 1 .. Len(events[f])
      BY <1>6, <2>3, EmptySeq, LenProperties
    <3>2. f \in missed' \/ HasWrite(f)'
      BY <2>3, <3>1 DEF HasWrite
    <3> QED
      BY <2>3, <3>2 DEF TypeOK
  <2> QED
    BY <2>1, <2>2, <2>3
<1> QED
  BY <1>1, <1>2, <1>3, <1>4, <1>5, <1>7 DEF TypeOK

(* Every kind of edit is one of those.                                     *)
LEMMA EditStepEffect ==
    ASSUME TypeOK, EditStep
    PROVE  \E f \in Files :
             /\ TypeOK'
             /\ \A g \in Files \ {f} : disk'[g] = disk[g] /\ events'[g] = events[g]
             /\ missed \subseteq missed' /\ missed' \subseteq missed \cup {f}
             /\ f \in missed' \/ HasWrite(f)'
             /\ UNCHANGED <<config, pc, fetched, ctxDone, start, mockEnabled,
                            series, loop, refresh, gauge>>
<1>1. PICK f \in Files : \/ Truncate(f) \/ Remove(f)
                         \/ \E c \in Texts[f] \cup {Broken} : Write(f, c) \/ Replace(f, c)
  BY DEF EditStep
<1>2. PICK c \in Content, op \in {"Write", "Remove"}, gone \in BOOLEAN :
         Edit(f, c, op, gone) /\ (gone \/ op = "Write")
  <2>1. CASE Truncate(f)
    BY <2>1, TextType DEF Truncate
  <2>2. CASE Remove(f)
    BY <2>2, TextType DEF Remove
  <2>3. ASSUME NEW c \in Texts[f] \cup {Broken}, Write(f, c) \/ Replace(f, c)
        PROVE  \E d \in Content, op \in {"Write", "Remove"}, gone \in BOOLEAN :
                   Edit(f, d, op, gone) /\ (gone \/ op = "Write")
    <3>1. c \in Content
      BY TextType
    <3> QED
      BY <2>3, <3>1 DEF Write, Replace
  <2> QED
    BY <1>1, <2>1, <2>2, <2>3
<1> QED
  BY <1>2, EditEffect

-----------------------------------------------------------------------------
(* Types *)

LEMMA InitType == Init => TypeOK
<1> SUFFICES ASSUME Init PROVE TypeOK
  OBVIOUS
<1>1. events \in [Files -> Seq({"Write", "Remove"})]
  BY DEF Init
<1>2. config \in Mocks
  BY TextType DEF Init
<1>3. edits \in 0 .. MaxEdits
  BY NamesAssumption DEF Init
<1> QED
  BY <1>1, <1>2, <1>3 DEF Init, TypeOK

(* Taking an event from a queue leaves the others in it.                   *)
LEMMA TakeEffect ==
    ASSUME TypeOK, NEW f \in Files, TakeEvent(f)
    PROVE  /\ events' \in [Files -> Seq({"Write", "Remove"})]
           /\ HasWrite(f) => pc'[f] = "react" \/ HasWrite(f)'
           /\ \A g \in Files \ {f} : events'[g] = events[g] /\ pc'[g] = pc[g]
<1>1. events[f] \in Seq({"Write", "Remove"}) /\ events[f] # <<>>
  BY DEF TakeEvent, TypeOK
<1>2. /\ Tail(events[f]) \in Seq({"Write", "Remove"})
      /\ Len(Tail(events[f])) = Len(events[f]) - 1
      /\ \A i \in 1 .. Len(Tail(events[f])) : Tail(events[f])[i] = events[f][i + 1]
      /\ Head(events[f]) = events[f][1]
      /\ Len(events[f]) \in Nat
  BY <1>1
<1>3. events'[f] = Tail(events[f])
  BY DEF TakeEvent, TypeOK
<1>4. pc'[f] = IF Head(events[f]) = "Write" THEN "react" ELSE pc[f]
  BY DEF TakeEvent, TypeOK
<1>5. ASSUME NEW i \in 1 .. Len(events[f]), events[f][i] = "Write"
      PROVE  pc'[f] = "react" \/ HasWrite(f)'
  <2>1. CASE i = 1
    BY <1>2, <1>4, <1>5, <2>1
  <2>2. CASE i # 1
    <3>1. i - 1 \in 1 .. Len(events'[f]) /\ events'[f][i - 1] = "Write"
      BY <1>2, <1>3, <1>5, <2>2
    <3> QED
      BY <3>1 DEF HasWrite
  <2> QED
    BY <2>1, <2>2
<1>6. HasWrite(f) => pc'[f] = "react" \/ HasWrite(f)'
  BY <1>5 DEF HasWrite
<1> QED
  BY <1>2, <1>6 DEF TakeEvent, TypeOK

LEMMA NextType == TypeOK /\ [Next]_vars => TypeOK'
<1> SUFFICES ASSUME TypeOK, [Next]_vars PROVE TypeOK'
  OBVIOUS
<1>0. Dev \in Files /\ Mock \in Files
  BY DEF Files
<1> USE DEF files, starting, watchers, gauges, outside
<1>1. CASE RegisterMetrics
  <2>1. /\ disk' \in [Files -> Content] /\ config' \in Mocks /\ missed' \subseteq Files
        /\ config'.enabled \in BOOLEAN
    BY <1>1, LoadType DEF RegisterMetrics, TypeOK, Mocks
  <2>2. mockEnabled' \in BOOLEAN /\ start' \in {"watchMock", "failed"}
    BY <1>1, <2>1 DEF RegisterMetrics, TypeOK
  <2> QED
    BY <1>1, <2>1, <2>2 DEF RegisterMetrics, TypeOK
<1>2. CASE GoWatchMock
  BY <1>2 DEF GoWatchMock, TypeOK
<1>3. CASE ReadDevice
  <2>1. disk' \in [Files -> Content] /\ missed' \subseteq Files
    BY <1>0, <1>3, EnsureType DEF ReadDevice, TypeOK
  <2>2. series' \subseteq Serials \cup {Unknown, Blank} /\ start' \in {"watchDevice", "failed"}
    BY <1>3, ReadType DEF ReadDevice, TypeOK, Shown
  <2> QED
    BY <1>3, <2>1, <2>2 DEF ReadDevice, TypeOK
<1>4. CASE WatchDevice
  BY <1>4 DEF WatchDevice, TypeOK
<1>5. CASE RecordUUID
  BY <1>5 DEF RecordUUID, TypeOK
<1>6. ASSUME NEW f \in Files, TakeEvent(f) PROVE TypeOK'
  <2>1. pc' \in [Files -> {"off", "load", "add", "select", "react", "reset",
                           "with", "ended"}]
    BY <1>6 DEF TakeEvent, TypeOK
  <2> QED
    BY <1>6, <2>1, TakeEffect DEF TakeEvent, TypeOK
<1>7. ASSUME NEW f \in Files, StopWatching(f) PROVE TypeOK'
  BY <1>7 DEF StopWatching, TypeOK
<1>8. ASSUME NEW here, NEW next \in {"add", "select"}, LoadMock(here, next)
      PROVE  TypeOK'
  <2>1. pc' \in [Files -> {"off", "load", "add", "select", "react", "reset",
                           "with", "ended"}]
    BY <1>8 DEF LoadMock, TypeOK
  <2>2. disk' \in [Files -> Content] /\ config' \in Mocks /\ missed' \subseteq Files
    BY <1>8, LoadType DEF LoadMock, TypeOK
  <2> QED
    BY <1>8, <2>1, <2>2 DEF LoadMock, TypeOK
<1>9. CASE AddMock
  <2>1. /\ pc' \in [Files -> {"off", "load", "add", "select", "react", "reset",
                            "with", "ended"}]
        /\ watch' \in [Files -> {"off", "file", "dead"}]
    BY <1>9 DEF AddMock, TypeOK
  <2> QED
    BY <1>9, <2>1 DEF AddMock, TypeOK
<1>10. CASE ReadChange
  <2>1. disk' \in [Files -> Content] /\ missed' \subseteq Files
    BY <1>0, <1>10, EnsureType DEF ReadChange, TypeOK
  <2>2. fetched' \in Serials \cup {Unknown, Blank}
    BY <1>10, ReadType DEF ReadChange, TypeOK
  <2> QED
    BY <1>10, <2>1, <2>2 DEF ReadChange, TypeOK
<1>11. CASE ResetSeries \/ ShowSeries
  <2>1. CASE ResetSeries
    BY <2>1 DEF ResetSeries, TypeOK
  <2>2. CASE ShowSeries
    BY <2>2 DEF ShowSeries, TypeOK
  <2> QED
    BY <1>11, <2>1, <2>2
<1>12. CASE ApplyMock
  <2>1. config.changed \in BOOLEAN
    BY DEF TypeOK, Mocks
  <2> QED
    BY <1>12, <2>1 DEF ApplyMock, TypeOK
<1>13. CASE Tick \/ RefreshUUID
  BY <1>13 DEF Tick, RefreshUUID, TypeOK
<1>14. CASE Cancel \/ ApiRefresh
  <2>1. edits' \in 0 .. MaxEdits
    BY <1>14, NamesAssumption DEF Cancel, ApiRefresh, TypeOK
  <2>2. ctxDone' \in BOOLEAN /\ refresh' \in {"off", "pending", "done"}
    BY <1>14 DEF Cancel, ApiRefresh, TypeOK
  <2>3. UNCHANGED <<disk, missed, config, start, mockEnabled, pc, watch, events, fetched,
                    series, loop, gauge>>
    BY <1>14 DEF Cancel, ApiRefresh
  <2> QED
    BY <2>1, <2>2, <2>3 DEF TypeOK
<1>15. CASE EditStep
  BY <1>15, EditStepEffect
<1>16. CASE UNCHANGED vars
  BY <1>16 DEF vars, TypeOK
<1> QED
  BY <1>1, <1>2, <1>3, <1>4, <1>5, <1>6, <1>7, <1>8, <1>9, <1>10, <1>11, <1>12,
     <1>13, <1>14, <1>15, <1>16 DEF Next, StartStep, WatcherStep

(* The types of the collector's start and of what it starts.               *)
THEOREM ConfigTypeCorrect == Spec => []TypeOK
  BY InitType, NextType, PTL DEF Spec

(* The mock configuration in memory is always one that the file had: no    *)
(* failing or half-written read ever changes it to anything else.          *)
THEOREM LastGoodMockCorrect == Spec => LastGoodMock
<1>1. TypeOK /\ [Next]_vars => [config' # config => disk'[Mock] = config']_vars
  <2> SUFFICES ASSUME TypeOK, Next, config' # config PROVE disk'[Mock] = config'
    OBVIOUS
  <2>1. CASE Load
    BY <2>1, LoadType
  <2>2. CASE ~Load
    <3>1. UNCHANGED config
      BY <2>2, EditStepEffect DEF Next, StartStep, WatcherStep, RegisterMetrics,
         GoWatchMock, ReadDevice, WatchDevice, RecordUUID, TakeEvent, StopWatching,
         LoadMock, AddMock, ReadChange, ResetSeries, ShowSeries, ApplyMock, Tick,
         RefreshUUID, Cancel, ApiRefresh
    <3> QED
      BY <3>1
  <2> QED
    BY <2>1, <2>2
<1> QED
  BY <1>1, InitType, NextType, PTL DEF Spec, LastGoodMock

-----------------------------------------------------------------------------
(* Freshness *)

(* Once a file has been read, what was taken in is what it says, or the    *)
(* watcher will still read it: it has been told to, or an event that tells *)
(* it so is in its queue.  Excepted is what no watch reports.              *)
Excused(f) ==
    \/ f \in missed \/ ~Parses(f, disk[f])
    \/ pc[f] = "react" \/ HasWrite(f)

MockFresh == start # "register" => Excused(Mock) \/ UpToDate(Mock)

(* Between reading a device configuration and showing it, the watcher has  *)
(* it in fetched, and the old series goes before the new one comes.        *)
DevRead == start = "watchDevice" \/ pc[Dev] # "off"
DevFresh == DevRead =>
    \/ Excused(Dev)
    \/ IF pc[Dev] \in {"reset", "with"} THEN fetched = disk[Dev] ELSE UpToDate(Dev)
Replacing == pc[Dev] = "with" => series = {}

(* No watcher runs before the start has come to it.                        *)
NotYet ==
    /\ start \in {"register", "watchMock"} => pc[Mock] = "off"
    /\ start \in {"register", "watchMock", "readDevice", "watchDevice"} => pc[Dev] = "off"

FreshInv == TypeOK /\ MockFresh /\ DevFresh /\ Replacing /\ NotYet

(* The steps that touch neither file nor watcher.                          *)
LEMMA FreshKept ==
    ASSUME FreshInv, TypeOK',
           UNCHANGED <<files, watchers, series, config>>,
           start' # "register" => start # "register",
           start' = "watchDevice" => start = "watchDevice",
           start' = start \/ start' = "running"
    PROVE  FreshInv'
  BY DEF FreshInv, MockFresh, DevFresh, Replacing, NotYet, DevRead, Excused, HasWrite,
     UpToDate, files, watchers

LEMMA FreshStep == FreshInv /\ [Next]_vars => FreshInv'
<1> SUFFICES ASSUME FreshInv, [Next]_vars PROVE FreshInv'
  OBVIOUS
<1>0. /\ Dev \in Files /\ Mock \in Files /\ Dev # Mock /\ TypeOK /\ TypeOK'
      /\ \A f \in Files : f = Dev \/ f = Mock
  BY NextType, NamesAssumption DEF Files, FreshInv
<1> USE DEF FreshInv, MockFresh, DevFresh, Replacing, NotYet, DevRead, Excused, HasWrite,
        UpToDate, files, starting, watchers, gauges, outside
<1>1. CASE RegisterMetrics
  BY <1>0, <1>1, LoadType DEF RegisterMetrics, TypeOK
<1>2. CASE GoWatchMock
  BY <1>0, <1>2 DEF GoWatchMock, TypeOK
<1>3. CASE ReadDevice
  BY <1>0, <1>3, EnsureType DEF ReadDevice, TypeOK
<1>4. CASE WatchDevice
  <2>1. UNCHANGED <<disk, missed, config, series, events, fetched>>
        /\ pc'[Mock] = pc[Mock] /\ start = "watchDevice" /\ start' \in {"failed", "recordUUID"}
    BY <1>0, <1>4 DEF WatchDevice, TypeOK
  <2>2. pc[Dev] = "off" /\ pc'[Dev] \in {"off", "select"}
    BY <1>0, <1>4, <2>1 DEF WatchDevice, TypeOK
  <2>3. MockFresh'
    BY <1>0, <2>1
  <2>4. DevFresh'
    BY <1>0, <2>1, <2>2
  <2> QED
    BY <1>0, <2>1, <2>2, <2>3, <2>4
<1>5. CASE RecordUUID
  BY <1>0, <1>5, FreshKept DEF RecordUUID
<1>6. ASSUME NEW f \in Files, TakeEvent(f) PROVE FreshInv'
  <2>1. /\ UNCHANGED <<disk, missed, start, config, series, fetched>>
        /\ HasWrite(f) => pc'[f] = "react" \/ HasWrite(f)'
        /\ pc[f] = "select" /\ pc'[f] \in {"select", "react"}
        /\ \A g \in Files \ {f} : events'[g] = events[g] /\ pc'[g] = pc[g]
    BY <1>6, TakeEffect DEF TakeEvent, TypeOK
  <2>2. \A g \in Files : Excused(g) => Excused(g)'
    BY <2>1
  <2> QED
    BY <1>0, <2>1, <2>2
<1>7. ASSUME NEW f \in Files, StopWatching(f) PROVE FreshInv'
  BY <1>0, <1>7 DEF StopWatching, TypeOK
<1>8. ASSUME NEW here \in {"load", "react"}, NEW next \in {"add", "select"},
             LoadMock(here, next)
      PROVE  FreshInv'
  <2>1. pc'[Mock] = next /\ pc'[Dev] = pc[Dev] /\ UNCHANGED <<events, fetched, start, series>>
    BY <1>0, <1>8 DEF LoadMock, TypeOK
  <2>2. /\ missed' = missed \ {Mock} /\ disk'[Mock] = Text(Mock) /\ disk'[Dev] = disk[Dev]
        /\ config' = IF Parses(Mock, Text(Mock)) THEN Text(Mock) ELSE config
    BY <1>0, <1>8, LoadType DEF LoadMock
  <2>3. pc[Mock] # "off"
    BY <1>8 DEF LoadMock
  <2>4. MockFresh'
    BY <2>2
  <2> QED
    BY <1>0, <2>1, <2>2, <2>3, <2>4
<1>9. CASE AddMock
  BY <1>0, <1>9 DEF AddMock, TypeOK
<1>10. CASE ReadChange
  BY <1>0, <1>10, EnsureType DEF ReadChange, TypeOK
<1>11. CASE ResetSeries
  BY <1>0, <1>11 DEF ResetSeries, TypeOK
<1>12. CASE ShowSeries
  BY <1>0, <1>12 DEF ShowSeries, TypeOK
<1>13. CASE ApplyMock \/ Tick \/ RefreshUUID \/ Cancel \/ ApiRefresh
  BY <1>0, <1>13, FreshKept DEF ApplyMock, Tick, RefreshUUID, Cancel, ApiRefresh
<1>14. CASE EditStep
  BY <1>0, <1>14, EditStepEffect
<1>15. CASE UNCHANGED vars
  BY <1>0, <1>15, FreshKept DEF vars
<1> QED
  BY <1>0, <1>1, <1>2, <1>3, <1>4, <1>5, <1>6, <1>7, <1>8, <1>9, <1>10, <1>11,
     <1>12, <1>13, <1>14, <1>15 DEF Next, StartStep, WatcherStep

(* However edits fall between the steps of the start and of the watchers:  *)
(* a watcher with nothing left to do has taken in what its file says, if   *)
(* the last edit was one that is reported.                                 *)
THEOREM ConfigFreshCorrect == Spec => []QuietIsFresh
<1>1. Init => FreshInv
  BY InitType, NamesAssumption DEF Init, FreshInv, MockFresh, DevFresh, Replacing,
     NotYet, DevRead, Files
<1>2. FreshInv => QuietIsFresh
  <2> SUFFICES ASSUME FreshInv, start = "running", NEW f \in Files,
                      pc[f] = "select", events[f] = <<>>, f \notin missed,
                      Parses(f, disk[f])
               PROVE  UpToDate(f)
    BY DEF QuietIsFresh
  <2>1. ~HasWrite(f)
    BY EmptySeq DEF HasWrite
  <2>2. CASE f = Mock
    BY <2>1, <2>2 DEF FreshInv, MockFresh, Excused
  <2>3. CASE f = Dev
    BY <2>1, <2>3 DEF FreshInv, DevFresh, DevRead, Excused
  <2> QED
    BY <2>2, <2>3 DEF Files
<1> QED
  BY <1>1, <1>2, FreshStep, PTL DEF Spec
=============================================================================

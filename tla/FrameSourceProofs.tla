-------------------------- MODULE FrameSourceProofs --------------------------
(***************************************************************************)
(* Theorems about FrameSource, for any applications and displays and any   *)
(* number of sessions, changes and faults.  The invariant follows a stream *)
(* and its refresh task from start(), which owns them first, through the   *)
(* fields, into the locals of the one stop() that takes them.              *)
(***************************************************************************)
EXTENDS FrameSource, TLAPS

StartPoints == {"listing", "listed", "starting"}
StopPoints == {"taken", "awaiting", "stopping"}

\* stop() has a stream in its locals.
Holds(c) == pc[c] \in StopPoints /\ active[c].stream # NoStream

\* The refresh task of s exists and has not ended.
Refreshing(s) == rpc[s] \notin {"none", "done"}

\* Sessions are numbered as they begin.
SessionsInOrder ==
    /\ stream \in {NoStream, sessions}
    /\ cancelled \subseteq 1 .. sessions
    /\ \A s \in Sessions : s > sessions => rpc[s] = "none"

\* While start() is under way nothing is left of the session before.
StartsAlone ==
    /\ pc["shutdown"] \notin StartPoints
    /\ pc["loop"] \in StartPoints =>
         /\ ~sourceRunning
         /\ sessions \in Sessions /\ sessions \notin cancelled
         /\ refresher = NoStream
         /\ \A s \in Sessions : ~Refreshing(s)
         /\ rpc[sessions] = "none"
         /\ \A c \in Callers : ~Holds(c)
    /\ pc["loop"] \in {"listing", "listed"} => stream = NoStream
    /\ pc["loop"] = "starting" => stream = sessions

\* Once start() is over, the fields hold a stream with its refresh task, or neither.
FieldsTogether ==
    /\ refresher # NoStream => refresher = stream
    /\ stream # NoStream =>
         /\ stream \notin cancelled
         /\ pc["loop"] # "starting" => refresher = stream /\ sourceRunning

\* What stop() has taken is a stream with its refresh task, or nothing, and only
\* one of two overlapping stops has it.
TakenTogether ==
    /\ \A c \in Callers : pc[c] \in StopPoints => active[c].refresh = active[c].stream
    /\ \A c \in Callers : pc[c] = "stopping" => active[c].stream # NoStream
    /\ \A c \in Callers : Holds(c) => active[c].stream = sessions
    /\ \A c \in Callers : pc[c] \in StopPoints =>
         stream = NoStream /\ pc["loop"] \notin StartPoints
    /\ ~(Holds("loop") /\ Holds("shutdown"))
    /\ pc["shutdown"] \in StopPoints => ending

\* A refresh task is reachable by the stop that will end it.
RefreshOwned ==
    \A s \in Sessions : Refreshing(s) =>
        /\ s = sessions
        /\ \/ refresher = s
           \/ \E c \in Callers : Holds(c) /\ pc[c] # "stopping"

\* A round works on its own stream, and knows what has been applied to it.
RoundsKnow ==
    \A s \in Sessions :
        /\ round[s].stream \in {NoStream, s}
        /\ rpc[s] \in {"listing", "listed", "updating", "configuring", "updated"} =>
             round[s].stream = s
        /\ stream = s /\ s \notin reported =>
             /\ rpc[s] = "updating" /\ round[s].previous = round[s].display =>
                  layout[s] = round[s].display
             /\ rpc[s] \in {"configuring", "updated"} =>
                  filter[s] = [display |-> round[s].display, excluded |-> round[s].excluded]
             /\ rpc[s] = "updated" => layout[s] = round[s].display

Inv ==
    /\ TypeOK
    /\ SessionsInOrder
    /\ StartsAlone
    /\ FieldsTogether
    /\ TakenTogether
    /\ RefreshOwned
    /\ RoundsKnow
    /\ FilterIsRecorded
    /\ RefreshEndsFirst

-----------------------------------------------------------------------------
\* No session has the number that stands for nil.
LEMMA NoStreamIsNoSession == NoStream \notin Sessions /\ NoStream = 0
BY LimitsAssumption DEF NoStream, Sessions

\* The first state satisfies the invariant.
LEMMA InitInv == Init => Inv
<1> SUFFICES ASSUME Init PROVE Inv
    OBVIOUS
<1>1. NoRecord \in Filters
  BY DEF NoRecord, Filters
<1>2. TypeOK
  <2>1. round \in [Sessions -> Rounds] /\ active \in [Callers -> Takings]
    BY DEF Init, Rounds, Takings
  <2>2. \A s \in Sessions : rpc[s] = "none"
    BY DEF Init
  <2>3. changes \in 0 .. MaxChanges /\ faults \in 0 .. MaxFaults /\ sessions \in 0 .. MaxSessions
    BY LimitsAssumption DEF Init
  <2> QED BY <1>1, <2>1, <2>2, <2>3 DEF Init, TypeOK, CallerPoints, RefreshPoints
<1>3. SessionsInOrder
  BY DEF Init, SessionsInOrder, NoStream
<1>4. StartsAlone /\ FieldsTogether /\ TakenTogether
  BY DEF Init, StartsAlone, FieldsTogether, TakenTogether, Holds, StartPoints, StopPoints, Callers
<1>5. RefreshOwned /\ RoundsKnow /\ FilterIsRecorded
  BY DEF Init, RefreshOwned, Refreshing, RoundsKnow, FilterIsRecorded
<1>6. RefreshEndsFirst
  BY DEF Init, RefreshEndsFirst
<1> QED BY <1>2, <1>3, <1>4, <1>5, <1>6 DEF Inv

-----------------------------------------------------------------------------
(* Types                                                                   *)

\* Every step keeps the types, given that rounds work on streams.
LEMMA NextTypes == Inv /\ [Next]_vars => TypeOK'
<1> SUFFICES ASSUME Inv, [Next]_vars PROVE TypeOK'
    OBVIOUS
<1> USE DisplaysAssumption, LimitsAssumption
    DEF Inv, TypeOK, Filters, world, fields, kit, refreshes, callers, Change, Fault,
        CallerPoints, RefreshPoints
<1>1. ASSUME NEW a \in Apps, Launch(a) \/ Quit(a) PROVE TypeOK'
  BY <1>1 DEF Launch, Quit
<1>2. ASSUME NEW d \in Displays, MovePointer(d) PROVE TypeOK'
  BY <1>2 DEF MovePointer
<1>3. CASE Start
  <2>0. "loop" \in Callers
    BY DEF Callers
  <2>1. CASE StartLists
    BY <2>0, <2>1 DEF StartLists
  <2>2. CASE StartContent
    <3>1. sessions \in Sessions
      BY <2>2 DEF StartContent, StartsAlone, StartPoints
    <3>2. [round[sessions] EXCEPT !.excluded = running] \in Rounds
      BY <3>1 DEF Rounds
    <3>3. rpc[sessions] = "none"
      BY <2>2 DEF StartContent, StartsAlone, StartPoints
    <3> QED BY <2>0, <2>2, <3>1, <3>2, <3>3 DEF StartContent
  <2>3. CASE StartInstalls
    <3>1. sessions \in Sessions
      BY <2>3 DEF StartInstalls, StartsAlone, StartPoints
    <3>2. [display |-> pointer, excluded |-> round[sessions].excluded] \in Filters
      BY <3>1 DEF Rounds
    <3> QED BY <2>0, <2>3, <3>1, <3>2 DEF StartInstalls
  <2>4. CASE StartReturns
    BY <2>0, <2>4 DEF StartReturns, StartsAlone, StartPoints
  <2>5. CASE StartThrows
    <3>1. NoRecord \in Filters
      BY DEF NoRecord
    <3> QED BY <2>0, <2>5, <3>1 DEF StartThrows
  <2> QED BY <1>3, <2>1, <2>2, <2>3, <2>4, <2>5 DEF Start
<1>4. ASSUME NEW c \in Callers, StopTakes(c)
      PROVE  /\ stream' \in Sessions \cup {NoStream}
             /\ refresher' \in Sessions \cup {NoStream}
             /\ record' \in Filters
             /\ active' \in [Callers -> Takings]
             /\ pc' \in [Callers -> CallerPoints]
  BY <1>4 DEF StopTakes, NoRecord, Takings
<1>5. CASE LoopStops
  <2>1. StopTakes("loop") /\ "loop" \in Callers
    BY <1>5 DEF LoopStops, Callers
  <2> HIDE DEF Filters
  <2> QED BY <1>4, <1>5, <2>1 DEF LoopStops
<1>6. CASE ShutdownStops
  <2>1. "shutdown" \in Callers
    BY DEF Callers
  <2> HIDE DEF Filters
  <2>2. CASE sourceRunning
    <3>1. StopTakes("shutdown") /\ ending' = TRUE
      BY <1>6, <2>2 DEF ShutdownStops
    <3> QED BY <1>4, <1>6, <2>1, <3>1 DEF ShutdownStops
  <2>3. CASE ~sourceRunning
    BY <1>6, <2>1, <2>3 DEF ShutdownStops
  <2> QED BY <2>2, <2>3
<1>7. ASSUME NEW c \in Callers, Stop(c) \/ StopThrows(c) PROVE TypeOK'
  <2>1. CASE StopCancels(c)
    <3>1. active[c].refresh \in Sessions \cup {NoStream}
      BY DEF Takings
    <3> QED BY <2>1, <3>1 DEF StopCancels
  <2>2. CASE StopWaits(c)
    BY <2>2 DEF StopWaits, Resumes
  <2>3. CASE StopReturns(c)
    <3>1. active[c].stream \in Sessions
      BY <2>3 DEF StopReturns, TakenTogether, Takings
    <3> QED BY <2>3, <3>1 DEF StopReturns, Resumes
  <2>4. CASE StopThrows(c)
    <3>1. CASE c = "loop"
      BY <2>4, <3>1 DEF StopThrows
    <3>2. CASE c # "loop"
      BY <2>4, <3>2 DEF StopThrows
    <3> QED BY <3>1, <3>2
  <2> QED BY <1>7, <2>1, <2>2, <2>3, <2>4 DEF Stop
<1>8. ASSUME NEW s \in Sessions, CaptureBegins(s) \/ StreamBreaks(s) \/ DidStopWithError(s)
      PROVE TypeOK'
  BY <1>8 DEF CaptureBegins, StreamBreaks, DidStopWithError, Emit
<1>9. ASSUME NEW s \in Sessions, Refresh(s) PROVE TypeOK'
  <2>1. CASE RefreshBegins(s)
    <3>1. [round[s] EXCEPT !.stream = stream] \in Rounds
      BY DEF Rounds
    <3> QED BY <2>1, <3>1 DEF RefreshBegins
  <2>2. CASE RefreshEnds(s)
    BY <2>2 DEF RefreshEnds
  <2>3. CASE RefreshContent(s)
    <3>1. [round[s] EXCEPT !.excluded = running] \in Rounds
      BY DEF Rounds
    <3> QED BY <2>3, <3>1 DEF RefreshContent
  <2>4. CASE RefreshCompares(s)
    <3> DEFINE next == [round[s] EXCEPT !.display = pointer, !.previous = record.display]
    <3>1. round[s].stream = s
      BY <2>4 DEF RefreshCompares, RoundsKnow
    <3>2. next \in Rounds /\ next.stream = s /\ next.display \in Displays
      <4>1. round[s] \in Rounds /\ record.display \in Displays \cup {"nil"} /\ pointer \in Displays
        OBVIOUS
      <4> QED BY <3>1, <4>1 DEF Rounds
    <3>3. CASE UNCHANGED round /\ rpc' = [rpc EXCEPT ![s] = "asleep"]
      <4> HIDE DEF next
      <4> QED BY <2>4, <3>3 DEF RefreshCompares
    <3>4. CASE round' = [round EXCEPT ![s] = next] /\ rpc' = [rpc EXCEPT ![s] = "updating"]
      <4> HIDE DEF next
      <4> QED BY <2>4, <3>2, <3>4 DEF RefreshCompares
    <3> QED BY <2>4, <3>3, <3>4 DEF RefreshCompares
  <2>5. CASE FilterApplies(s)
    <3>1. [display |-> round[s].display, excluded |-> round[s].excluded] \in Filters
      BY DEF Rounds
    <3> HIDE DEF Filters
    <3> QED BY <2>5, <3>1 DEF FilterApplies
  <2>6. CASE ConfigurationApplies(s)
    BY <2>6 DEF ConfigurationApplies
  <2>7. CASE RefreshRecords(s)
    BY <2>7 DEF RefreshRecords, Rounds
  <2> QED BY <1>9, <2>1, <2>2, <2>3, <2>4, <2>5, <2>6, <2>7 DEF Refresh
<1>10. ASSUME NEW s \in Sessions, RefreshThrows(s) PROVE TypeOK'
  BY <1>10 DEF RefreshThrows, Emit
<1>11. CASE UNCHANGED vars
  BY <1>11 DEF vars
<1> QED BY <1>1, <1>2, <1>3, <1>5, <1>6, <1>7, <1>8, <1>9, <1>10, <1>11
        DEF Next, Terminated

-----------------------------------------------------------------------------
(* The inductive invariant                                                 *)

\* The world's steps, and those that only ScreenCaptureKit sees, keep it.
LEMMA WorldKeepsInv ==
    ASSUME Inv, TypeOK',
           \/ \E a \in Apps : Launch(a) \/ Quit(a)
           \/ \E d \in Displays : MovePointer(d)
           \/ \E s \in Sessions : CaptureBegins(s) \/ StreamBreaks(s)
           \/ UNCHANGED vars
    PROVE  Inv'
<1>1. UNCHANGED <<fields, filter, layout, refreshes, callers, reported>>
  BY DEF Launch, Quit, MovePointer, CaptureBegins, StreamBreaks, vars, world, kit
<1> QED BY <1>1 DEF fields, refreshes, callers, Inv, SessionsInOrder, StartsAlone, FieldsTogether, TakenTogether,
        RefreshOwned, RoundsKnow, FilterIsRecorded, RefreshEndsFirst, Unrecorded, Refreshing,
        Holds, StartPoints, StopPoints

\* A failure that reaches the handler only weakens what is claimed.
LEMMA ReportKeepsInv ==
    ASSUME Inv, TypeOK', NEW s \in Sessions, DidStopWithError(s)
    PROVE  Inv'
<1>1. UNCHANGED <<fields, filter, layout, refreshes, callers>> /\ reported \subseteq reported'
  BY DEF DidStopWithError, Emit
<1> QED BY <1>1 DEF fields, refreshes, callers, Inv, SessionsInOrder, StartsAlone, FieldsTogether, TakenTogether,
        RefreshOwned, RoundsKnow, FilterIsRecorded, RefreshEndsFirst, Unrecorded, Refreshing,
        Holds, StartPoints, StopPoints

\* start() keeps it.
LEMMA StartKeepsInv ==
    ASSUME Inv, TypeOK', Start
    PROVE  Inv'
<1> USE NoStreamIsNoSession DEF world, fields, kit, refreshes, callers, Inv, TypeOK, Callers,
        SessionsInOrder, StartsAlone, FieldsTogether, TakenTogether,
        RefreshOwned, RoundsKnow, FilterIsRecorded, RefreshEndsFirst, Unrecorded, Refreshing,
        Holds, StartPoints, StopPoints
<1>1. CASE StartLists
  <2>0. /\ stream = NoStream /\ \A c \in Callers : ~Holds(c)
        /\ \A s \in Sessions : ~Refreshing(s)
        /\ sessions' = sessions + 1 /\ sessions' \in Sessions /\ sessions \in Nat
    BY <1>1, LimitsAssumption DEF StartLists, Sessions
  <2>1. SessionsInOrder' /\ FilterIsRecorded'
    BY <1>1, <2>0 DEF StartLists
  <2>2. StartsAlone' /\ FieldsTogether'
    BY <1>1, <2>0 DEF StartLists
  <2>3. TakenTogether'
    BY <1>1, <2>0 DEF StartLists
  <2>4. RefreshOwned'
    BY <1>1, <2>0 DEF StartLists
  <2>5. RoundsKnow'
    BY <1>1, <2>0 DEF StartLists
  <2>6. RefreshEndsFirst'
    BY <1>1, <2>0 DEF StartLists
  <2> QED BY <2>1, <2>2, <2>3, <2>4, <2>5, <2>6
<1>2. CASE StartContent
  BY <1>2 DEF StartContent
<1>3. CASE StartInstalls
  BY <1>3 DEF StartInstalls
<1>4. CASE StartReturns
  BY <1>4 DEF StartReturns
<1>5. CASE StartThrows
  BY <1>5 DEF StartThrows, NoRecord
<1> QED BY <1>1, <1>2, <1>3, <1>4, <1>5 DEF Start

\* stop() keeps it.
LEMMA StopKeepsInv ==
    ASSUME Inv, TypeOK',
           LoopStops \/ ShutdownStops \/ \E c \in Callers : Stop(c) \/ StopThrows(c)
    PROVE  Inv'
<1> USE NoStreamIsNoSession DEF world, fields, kit, refreshes, callers, Inv, TypeOK, Callers,
        Takings, SessionsInOrder, StartsAlone, FieldsTogether, TakenTogether,
        RefreshOwned, RoundsKnow, FilterIsRecorded, RefreshEndsFirst, Unrecorded, Refreshing,
        Holds, StartPoints, StopPoints
<1>1. CASE LoopStops
  <2>1. SessionsInOrder' /\ FilterIsRecorded'
    BY <1>1 DEF LoopStops, StopTakes, NoRecord
  <2>2. StartsAlone' /\ FieldsTogether'
    BY <1>1 DEF LoopStops, StopTakes, NoRecord
  <2>3. TakenTogether'
    BY <1>1 DEF LoopStops, StopTakes, NoRecord
  <2>4. RefreshOwned'
    BY <1>1 DEF LoopStops, StopTakes, NoRecord
  <2>5. RoundsKnow'
    BY <1>1 DEF LoopStops, StopTakes, NoRecord
  <2>6. RefreshEndsFirst'
    BY <1>1 DEF LoopStops, StopTakes, NoRecord
  <2> QED BY <2>1, <2>2, <2>3, <2>4, <2>5, <2>6
<1>2. CASE ShutdownStops
  BY <1>2 DEF ShutdownStops, StopTakes, NoRecord
<1>3. ASSUME NEW c \in Callers, StopCancels(c) PROVE Inv'
  <2>1. SessionsInOrder' /\ FilterIsRecorded'
    <3>1. active[c].refresh \in {NoStream, sessions}
      BY <1>3 DEF StopCancels
    <3>2. sessions # NoStream => sessions \in 1 .. sessions
      OBVIOUS
    <3>5. {active[c].refresh} \ {NoStream} \subseteq 1 .. sessions
      BY <3>1, <3>2
    <3>6. cancelled \subseteq 1 .. sessions
      OBVIOUS
    <3>7. cancelled' = cancelled \cup ({active[c].refresh} \ {NoStream})
      BY <1>3 DEF StopCancels
    <3>3. cancelled' \subseteq 1 .. sessions
      BY <3>5, <3>6, <3>7, Zenon
    <3>4. UNCHANGED <<stream, sessions, rpc, reported, filter, layout, record>>
      BY <1>3 DEF StopCancels
    <3> QED BY <3>3, <3>4
  <2>2. StartsAlone' /\ FieldsTogether'
    BY <1>3 DEF StopCancels
  <2>3. TakenTogether'
    BY <1>3 DEF StopCancels
  <2>4. RefreshOwned'
    BY <1>3 DEF StopCancels
  <2>5. RoundsKnow'
    BY <1>3 DEF StopCancels
  <2>6. RefreshEndsFirst'
    BY <1>3 DEF StopCancels
  <2> QED BY <2>1, <2>2, <2>3, <2>4, <2>5, <2>6
<1>4. ASSUME NEW c \in Callers, StopWaits(c) PROVE Inv'
  <2>1. SessionsInOrder' /\ FilterIsRecorded'
    BY <1>4 DEF StopWaits, Resumes
  <2>2. StartsAlone' /\ FieldsTogether'
    BY <1>4 DEF StopWaits, Resumes
  <2>3. TakenTogether'
    BY <1>4 DEF StopWaits, Resumes
  <2>4. RefreshOwned'
    BY <1>4 DEF StopWaits, Resumes
  <2>5. RoundsKnow'
    BY <1>4 DEF StopWaits, Resumes
  <2>6. RefreshEndsFirst'
    BY <1>4 DEF StopWaits, Resumes
  <2> QED BY <2>1, <2>2, <2>3, <2>4, <2>5, <2>6
<1>5. ASSUME NEW c \in Callers, StopReturns(c) PROVE Inv'
  BY <1>5 DEF StopReturns, Resumes
<1>6. ASSUME NEW c \in Callers, StopThrows(c) PROVE Inv'
  <2>1. SessionsInOrder' /\ FilterIsRecorded'
    BY <1>6 DEF StopThrows
  <2>2. StartsAlone' /\ FieldsTogether'
    BY <1>6 DEF StopThrows
  <2>3. TakenTogether'
    BY <1>6 DEF StopThrows
  <2>4. RefreshOwned'
    BY <1>6 DEF StopThrows
  <2>5. RoundsKnow'
    BY <1>6 DEF StopThrows
  <2>6. RefreshEndsFirst'
    BY <1>6 DEF StopThrows
  <2> QED BY <2>1, <2>2, <2>3, <2>4, <2>5, <2>6
<1> QED BY <1>1, <1>2, <1>3, <1>4, <1>5, <1>6 DEF Stop

\* The refresh task keeps it.
LEMMA RefreshKeepsInv ==
    ASSUME Inv, TypeOK', NEW s \in Sessions, Refresh(s) \/ RefreshThrows(s)
    PROVE  Inv'
<1> USE NoStreamIsNoSession DEF world, fields, kit, refreshes, callers, Inv, TypeOK, Callers,
        Rounds, SessionsInOrder, StartsAlone, FieldsTogether, TakenTogether,
        RefreshOwned, RoundsKnow, FilterIsRecorded, RefreshEndsFirst, Unrecorded, Refreshing,
        Holds, StartPoints, StopPoints
<1>1. CASE RefreshBegins(s)
  BY <1>1 DEF RefreshBegins
<1>2. CASE RefreshEnds(s)
  <2>1. SessionsInOrder' /\ FilterIsRecorded'
    BY <1>2 DEF RefreshEnds
  <2>2. StartsAlone' /\ FieldsTogether'
    BY <1>2 DEF RefreshEnds
  <2>3. TakenTogether'
    BY <1>2 DEF RefreshEnds
  <2>4. RefreshOwned'
    BY <1>2 DEF RefreshEnds
  <2>5. RoundsKnow'
    BY <1>2 DEF RefreshEnds
  <2>6. RefreshEndsFirst'
    <3>1. UNCHANGED <<round, pc, active, stream>>
      BY <1>2 DEF RefreshEnds
    <3>2. \A t \in Sessions : rpc'[t] \in {rpc[t], "done"}
      BY <1>2 DEF RefreshEnds
    <3>3. RefreshEndsFirst
      OBVIOUS
    <3> HIDE DEF Inv, TypeOK, Callers, Rounds, world, fields, kit, refreshes, callers,
        SessionsInOrder, StartsAlone, FieldsTogether, TakenTogether, RefreshOwned, RoundsKnow,
        FilterIsRecorded, RefreshEndsFirst, Unrecorded, Refreshing, Holds, StartPoints, StopPoints
    <3> QED BY <3>1, <3>2, <3>3 DEF RefreshEndsFirst
  <2> QED BY <2>1, <2>2, <2>3, <2>4, <2>5, <2>6
<1>3. CASE RefreshContent(s)
  BY <1>3 DEF RefreshContent
<1>4. CASE RefreshCompares(s)
  <2>1. SessionsInOrder' /\ FilterIsRecorded'
    BY <1>4 DEF RefreshCompares
  <2>2. StartsAlone' /\ FieldsTogether'
    BY <1>4 DEF RefreshCompares
  <2>3. TakenTogether'
    BY <1>4 DEF RefreshCompares
  <2>4. RefreshOwned'
    BY <1>4 DEF RefreshCompares
  <2>0. /\ UNCHANGED <<pc, active, stream, record, filter, layout, reported>>
        /\ rpc[s] = "listed" /\ round[s].stream = s
        /\ rpc'[s] \in {"asleep", "updating"}
        /\ rpc'[s] = "updating" => round'[s].previous = record.display
        /\ \A t \in Sessions : round'[t].stream = round[t].stream
        /\ \A t \in Sessions \ {s} : rpc'[t] = rpc[t] /\ round'[t] = round[t]
    <3> DEFINE next == [round[s] EXCEPT !.display = pointer, !.previous = record.display]
    <3>1. rpc[s] = "listed" /\ round[s].stream = s
      BY <1>4 DEF RefreshCompares
    <3>2. round[s] \in Rounds
      OBVIOUS
    <3>3. next.stream = s /\ next.previous = record.display
      BY <3>1, <3>2
    <3> HIDE DEF next
    <3>4. \/ UNCHANGED round /\ rpc' = [rpc EXCEPT ![s] = "asleep"]
          \/ round' = [round EXCEPT ![s] = next] /\ rpc' = [rpc EXCEPT ![s] = "updating"]
      BY <1>4 DEF RefreshCompares, next
    <3>5. UNCHANGED <<pc, active, stream, record, filter, layout, reported>>
      BY <1>4 DEF RefreshCompares
    <3>6. rpc \in [Sessions -> RefreshPoints] /\ round \in [Sessions -> Rounds]
      OBVIOUS
    <3> HIDE DEF Rounds, Inv, TypeOK
    <3> QED BY <3>1, <3>3, <3>4, <3>5, <3>6
  <2>5. RoundsKnow'
    <3>1. RoundsKnow /\ FilterIsRecorded
      OBVIOUS
    <3>2. stream = s /\ s \notin reported => layout[s] = record.display
      BY <2>0
    <3> HIDE DEF Inv, TypeOK, Callers, Rounds, world, fields, kit, refreshes, callers,
        SessionsInOrder, StartsAlone, FieldsTogether, TakenTogether, RefreshOwned, RoundsKnow,
        FilterIsRecorded, RefreshEndsFirst, Unrecorded, Refreshing, Holds, StartPoints, StopPoints
    <3> QED BY <2>0, <3>1, <3>2 DEF RoundsKnow
  <2>6. RefreshEndsFirst'
    <3>1. RefreshEndsFirst
      OBVIOUS
    <3> HIDE DEF Inv, TypeOK, Callers, Rounds, world, fields, kit, refreshes, callers,
        SessionsInOrder, StartsAlone, FieldsTogether, TakenTogether, RefreshOwned, RoundsKnow,
        FilterIsRecorded, RefreshEndsFirst, Unrecorded, Refreshing, Holds, StartPoints, StopPoints
    <3> QED BY <2>0, <3>1 DEF RefreshEndsFirst
  <2> QED BY <2>1, <2>2, <2>3, <2>4, <2>5, <2>6
<1>5. CASE FilterApplies(s)
  BY <1>5 DEF FilterApplies
<1>6. CASE ConfigurationApplies(s)
  BY <1>6 DEF ConfigurationApplies
<1>7. CASE RefreshRecords(s)
  BY <1>7 DEF RefreshRecords
<1>8. CASE RefreshThrows(s)
  BY <1>8 DEF RefreshThrows, Emit
<1> QED BY <1>1, <1>2, <1>3, <1>4, <1>5, <1>6, <1>7, <1>8 DEF Refresh

\* Every step keeps it.
LEMMA NextInv == Inv /\ [Next]_vars => Inv'
<1> SUFFICES ASSUME Inv, [Next]_vars PROVE Inv'
    OBVIOUS
<1>1. TypeOK'
  BY NextTypes
<1> QED BY <1>1, WorldKeepsInv, ReportKeepsInv, StartKeepsInv, StopKeepsInv, RefreshKeepsInv
        DEF Next, Terminated

\* The invariant holds in every reachable state.
THEOREM Invariant == Spec => []Inv
BY InitInv, NextInv, PTL DEF Spec

\* Types, and every filter that is applied is for a real display.
THEOREM TypeCorrect == Spec => []TypeOK
BY Invariant, PTL DEF Inv

\* The record that the refresh rounds compare with is the filter in force, unless
\* the daemon has been told of a failure.
THEOREM RecordIsTrue == Spec => []FilterIsRecorded
BY Invariant, PTL DEF Inv

\* A refresh task never outlives its session.
THEOREM RefreshIsContained == Spec => []RefreshEndsFirst
BY Invariant, PTL DEF Inv

-----------------------------------------------------------------------------
(* The sessions that the daemon sees                                       *)

\* One stop holds the stream, or none does.
LEMMA StoppingIsHolding == Stopping <=> Holds("loop") \/ Holds("shutdown")
BY DEF Stopping, Holds, StopPoints, Callers

\* Every step begins, ends or reports within a session, or is not seen.
LEMMA StepIsSession == Inv /\ [Next]_vars => [Session!Next]_<<SourceState, reported>>
<1> SUFFICES ASSUME Inv, [Next]_vars
             PROVE  Session!Next \/ UNCHANGED <<SourceState, reported>>
    BY DEF Session!Next
<1> USE NoStreamIsNoSession DEF SourceState
<1>0. /\ Stopping <=> Holds("loop") \/ Holds("shutdown")
      /\ Stopping' <=> Holds("loop")' \/ Holds("shutdown")'
  BY StoppingIsHolding DEF Stopping, Holds, StopPoints, Callers
<1>t. "loop" \in Callers /\ "shutdown" \in Callers /\ stream \in Sessions \cup {NoStream}
      /\ pc \in [Callers -> CallerPoints] /\ active \in [Callers -> Takings]
  BY DEF Callers, Inv, TypeOK
<1>1. CASE UNCHANGED <<stream, pc, active, reported>>
  BY <1>1, <1>0 DEF Holds
<1>2. CASE Start
  <2>1. StartsAlone /\ \A c \in Callers : pc[c] \in StopPoints => pc["loop"] \notin StartPoints
    BY DEF Inv, TakenTogether
  <2>2. pc["loop"] \notin StopPoints /\ ~Holds("loop") /\ Holds("loop")' = FALSE
    BY <1>2, <1>t DEF Holds, StopPoints, Start, StartLists, StartContent, StartInstalls,
                      StartReturns, StartThrows
  <2>3. Holds("shutdown")' = Holds("shutdown") /\ UNCHANGED reported
    BY <1>2, <1>t DEF Holds, Start, StartLists, StartContent, StartInstalls, StartReturns,
                      StartThrows, callers
  <2>4. CASE StartInstalls
    <3>1. stream = NoStream /\ stream' # NoStream /\ ~Holds("shutdown")
      BY <2>1, <2>4, <1>t DEF StartInstalls, StartsAlone, StartPoints
    <3> QED BY <1>0, <2>2, <2>3, <3>1 DEF Session!Next, Session!Begin
  <2>5. CASE StartThrows /\ pc["loop"] = "starting"
    <3>1. stream # NoStream /\ stream' = NoStream /\ ~Holds("shutdown")
      BY <2>1, <2>5, <1>t DEF StartThrows, StartsAlone, StartPoints
    <3> QED BY <1>0, <2>2, <2>3, <3>1 DEF Session!Next, Session!Abort
  <2>6. CASE UNCHANGED stream
    BY <1>0, <2>2, <2>3, <2>6
  <2> QED BY <1>2, <2>4, <2>5, <2>6
          DEF Start, StartLists, StartContent, StartReturns, StartThrows, fields
<1>3. ASSUME NEW c \in Callers, StopTakes(c), pc[c] = "idle", UNCHANGED reported
      PROVE  Session!Next \/ UNCHANGED <<SourceState, reported>>
  <2>1. stream' = NoStream /\ ~Holds(c)
    BY <1>3, <1>t DEF StopTakes, Holds, StopPoints
  <2>2. pc'[c] = "taken" /\ active'[c].stream = stream
    BY <1>3, <1>t DEF StopTakes, Takings
  <2>3. \A d \in Callers \ {c} : pc'[d] = pc[d] /\ active'[d] = active[d]
    BY <1>3, <1>t DEF StopTakes
  <2>4. CASE stream = NoStream
    <3>1. ~Holds(c)'
      BY <2>2, <2>4 DEF Holds
    <3> QED BY <1>0, <1>3, <2>1, <2>3, <2>4, <3>1 DEF Holds, Callers
  <2>5. CASE stream # NoStream
    <3>1. Holds(c)'
      BY <2>2, <2>5 DEF Holds, StopPoints
    <3>2. Holds("loop")' \/ Holds("shutdown")'
      BY <3>1 DEF Callers
    <3> QED BY <1>0, <1>3, <2>1, <2>5, <3>2 DEF Session!Next, Session!Release
  <2> QED BY <2>4, <2>5
<1>4. CASE LoopStops
  BY <1>3, <1>4, <1>t DEF LoopStops
<1>5. CASE ShutdownStops
  <2>1. CASE sourceRunning
    BY <1>3, <1>5, <1>t, <2>1 DEF ShutdownStops
  <2>2. CASE ~sourceRunning
    <3>1. UNCHANGED <<stream, reported, active>> /\ pc' = [pc EXCEPT !["shutdown"] = "done"]
          /\ pc["shutdown"] = "idle"
      BY <1>5, <2>2 DEF ShutdownStops, fields
    <3>2. Holds("loop")' = Holds("loop") /\ ~Holds("shutdown") /\ ~Holds("shutdown")'
      BY <3>1, <1>t DEF Holds, StopPoints
    <3> QED BY <1>0, <3>1, <3>2
  <2> QED BY <2>1, <2>2
<1>6. ASSUME NEW c \in Callers, Stop(c) \/ StopThrows(c)
      PROVE  Session!Next \/ UNCHANGED <<SourceState, reported>>
  <2>1. /\ UNCHANGED <<stream, active, reported>>
        /\ pc[c] \in StopPoints
        /\ \A d \in Callers \ {c} : pc'[d] = pc[d]
    BY <1>6, <1>t DEF Stop, StopCancels, StopWaits, StopReturns, StopThrows, Resumes, fields,
                      StopPoints
  <2>2. stream = NoStream /\ ~(Holds("loop") /\ Holds("shutdown"))
    BY <2>1 DEF Inv, TakenTogether
  <2>3. CASE Holds(c) = Holds(c)'
    BY <1>0, <2>1, <2>3 DEF Holds, Callers
  <2>4. CASE Holds(c) # Holds(c)'
    <3>1. Holds(c) /\ ~Holds(c)'
      BY <2>1, <2>4 DEF Holds
    <3>2. \A d \in Callers \ {c} : ~Holds(d) /\ ~Holds(d)'
      BY <2>1, <2>2, <3>1 DEF Holds, Callers
    <3>3. Stopping /\ ~Stopping'
      BY <1>0, <3>1, <3>2 DEF Callers
    <3> QED BY <2>1, <2>2, <3>3 DEF Session!Next, Session!Stopped
  <2> QED BY <2>3, <2>4
<1>7. ASSUME NEW s \in Sessions, Emit(s), UNCHANGED <<stream, pc, active>>
      PROVE  Session!Next \/ UNCHANGED <<SourceState, reported>>
  <2>1. UNCHANGED SourceState
    BY <1>0, <1>7 DEF Holds
  <2>2. CASE stream = NoStream
    BY <1>7, <2>1, <2>2 DEF Emit
  <2>3. CASE stream # NoStream
    BY <1>7, <1>t, <2>1, <2>3 DEF Emit, Session!Next, Session!Report
  <2> QED BY <2>2, <2>3
<1>8. ASSUME NEW s \in Sessions,
             \/ CaptureBegins(s) \/ StreamBreaks(s) \/ DidStopWithError(s)
             \/ Refresh(s) \/ RefreshThrows(s)
      PROVE  Session!Next \/ UNCHANGED <<SourceState, reported>>
  <2>1. CASE DidStopWithError(s)
    BY <1>7, <2>1 DEF DidStopWithError, fields, callers
  <2>2. CASE RefreshThrows(s)
    BY <1>1, <1>7, <2>2 DEF RefreshThrows, fields, callers
  <2>3. CASE CaptureBegins(s) \/ StreamBreaks(s)
    BY <1>1, <2>3 DEF CaptureBegins, StreamBreaks, fields, callers
  <2>4. CASE Refresh(s)
    BY <1>1, <2>4 DEF Refresh, RefreshBegins, RefreshEnds, RefreshContent, RefreshCompares,
                      FilterApplies, ConfigurationApplies, RefreshRecords, fields, callers
  <2> QED BY <1>8, <2>1, <2>2, <2>3, <2>4
<1>9. CASE \/ \E a \in Apps : Launch(a) \/ Quit(a)
           \/ \E d \in Displays : MovePointer(d)
           \/ UNCHANGED vars
  BY <1>1, <1>9 DEF Launch, Quit, MovePointer, vars, fields, callers
<1> QED BY <1>2, <1>4, <1>5, <1>6, <1>8, <1>9 DEF Next, Terminated

\* The source keeps to the daemon's sessions, whatever its refreshes, its streams
\* and overlapping stops do.
THEOREM SourceKeepsSessions == Spec => ImplementsSession
<1>1. Init => Session!Init
  BY NoStreamIsNoSession DEF Init, Session!Init, SourceState, Stopping
<1> QED BY <1>1, Invariant, StepIsSession, PTL DEF Spec, ImplementsSession, Session!Spec

=============================================================================

----------------------------- MODULE FrameSource -----------------------------
(***************************************************************************)
(* ScreenCaptureFrameSource (ScreenCaptureFrameSource.swift): start, stop, *)
(* and the task that looks every second whether the privacy filter still   *)
(* excludes the right applications on the right display.                   *)
(*                                                                         *)
(* Unlike the daemon this is no actor: its fields are guarded by a lock,   *)
(* and start, stop and the refresh run on threads of their own.  An action *)
(* is the code from one await or critical section to the next.  The two    *)
(* callers are the daemon's: its command loop starts and stops the source, *)
(* and shutdown() stops it, also while the loop does.                      *)
(*                                                                         *)
(* ScreenCaptureKit and the user are the environment: it answers each call *)
(* or throws, streams break, private applications come and go, the pointer *)
(* moves to another display.                                               *)
(***************************************************************************)
EXTENDS Naturals

CONSTANTS
    Apps,         \* processes of excluded applications that may be on screen
    Displays,
    MaxSessions,  \* bound: calls of start() that get a stream
    MaxChanges,   \* bound: launches, exits and moves of the pointer
    MaxFaults     \* bound: calls of ScreenCaptureKit that throw, streams that break

Sessions == 1 .. MaxSessions
Callers == {"loop", "shutdown"}

ASSUME DisplaysAssumption == "nil" \notin Displays /\ Displays # {}

ASSUME LimitsAssumption ==
    /\ MaxSessions \in Nat
    /\ MaxChanges \in Nat
    /\ MaxFaults \in Nat

VARIABLES
    running,        \* the private applications on screen
    pointer,        \* the display that selectedDisplay() picks
    changes,        \* changes of the two so far
    stream,         \* the field `stream`: session of the installed stream, 0 if nil
    refresher,      \* the field `filterRefreshTask`, in the same way
    record,         \* the fields currentDisplayID and excludedProcessIDs
    capture,        \* what ScreenCaptureKit does for each session's stream
    filter,         \* the content filter it applies: a display, excluded processes
    layout,         \* the display whose size its configuration has
    errors,         \* sessions with a didStopWithError on its way
    rpc,            \* the await of each session's refresh task
    round,          \* locals of refreshContentFilter(), and of start() before it
    cancelled,      \* sessions whose refresh task is cancelled
    sessions,       \* streams made so far
    pc,             \* the await of each caller
    active,         \* locals of stop(), for each caller
    sourceRunning,  \* the daemon's flag
    ending,         \* the daemon has begun to end
    reported,       \* sessions whose handler has been picked for a failure
    faults          \* faults so far

world == <<running, pointer, changes>>
fields == <<stream, refresher, record>>
kit == <<capture, filter, layout, errors>>
refreshes == <<rpc, round, cancelled>>
callers == <<sessions, pc, active, sourceRunning, ending>>
vars == <<world, fields, kit, refreshes, callers, reported, faults>>

\* The handler is installed and dropped in the critical sections that set and
\* clear `stream`, so it is there exactly when stream # 0.
NoStream == 0

NoRecord == [display |-> "nil", excluded |-> {}]

Init ==
    /\ running \in SUBSET Apps
    /\ pointer \in Displays
    /\ changes = 0
    /\ stream = NoStream
    /\ refresher = NoStream
    /\ record = NoRecord
    /\ capture = [s \in Sessions |-> "none"]
    /\ filter = [s \in Sessions |-> NoRecord]
    /\ layout = [s \in Sessions |-> "nil"]
    /\ errors = {}
    /\ rpc = [s \in Sessions |-> "none"]
    /\ round = [s \in Sessions |->
                  [stream |-> NoStream, display |-> "nil", excluded |-> {}, previous |-> "nil"]]
    /\ cancelled = {}
    /\ sessions = 0
    /\ pc = [c \in Callers |-> "idle"]
    /\ active = [c \in Callers |-> [stream |-> NoStream, refresh |-> NoStream]]
    /\ sourceRunning = FALSE
    /\ ending = FALSE
    /\ reported = {}
    /\ faults = 0

-----------------------------------------------------------------------------
(* The world                                                               *)

Change == changes < MaxChanges /\ changes' = changes + 1

Launch(a) ==
    /\ Change
    /\ running' = running \cup {a}
    /\ UNCHANGED <<pointer, fields, kit, refreshes, callers, reported, faults>>

Quit(a) ==
    /\ Change
    /\ running' = running \ {a}
    /\ UNCHANGED <<pointer, fields, kit, refreshes, callers, reported, faults>>

MovePointer(d) ==
    /\ Change
    /\ pointer' = d
    /\ UNCHANGED <<running, fields, kit, refreshes, callers, reported, faults>>

Fault == faults < MaxFaults /\ faults' = faults + 1

\* Faulty: the failure goes to the handler that the session began with.
EmitRegardless(s) == reported' = reported \cup {s}

\* emit(.failure): whichever handler is installed is picked, if one is, and then
\* called outside the lock. The daemon's handler only starts a task, so a late
\* call is a task that begins late, which RecallDaemon has.
Emit(s) == reported' = IF stream = NoStream THEN reported ELSE reported \cup {stream}

-----------------------------------------------------------------------------
(* start(handler:)                                                         *)

\* The daemon starts the source when it believes it stopped; the list of what is
\* on screen is asked for.
StartLists ==
    /\ pc["loop"] = "idle" /\ ~sourceRunning /\ ~ending
    /\ stream = NoStream
    /\ sessions < MaxSessions
    /\ sessions' = sessions + 1
    /\ pc' = [pc EXCEPT !["loop"] = "listing"]
    /\ UNCHANGED <<world, fields, kit, refreshes, active, sourceRunning, ending,
                   reported, faults>>

StartContent ==
    /\ pc["loop"] = "listing"
    /\ round' = [round EXCEPT ![sessions].excluded = running]
    /\ pc' = [pc EXCEPT !["loop"] = "listed"]
    /\ UNCHANGED <<world, fields, kit, rpc, cancelled, sessions, active, sourceRunning,
                   ending, reported, faults>>

\* The stream is made from the list and from where the pointer is by now.
StartInstalls ==
    LET initial == [display |-> pointer, excluded |-> round[sessions].excluded] IN
    /\ pc["loop"] = "listed"
    /\ stream' = sessions
    /\ record' = initial
    /\ filter' = [filter EXCEPT ![sessions] = initial]
    /\ layout' = [layout EXCEPT ![sessions] = pointer]
    /\ capture' = [capture EXCEPT ![sessions] = "starting"]
    /\ pc' = [pc EXCEPT !["loop"] = "starting"]
    /\ UNCHANGED <<world, refresher, errors, refreshes, sessions, active, sourceRunning,
                   ending, reported, faults>>

CaptureBegins(s) ==
    /\ capture[s] = "starting"
    /\ capture' = [capture EXCEPT ![s] = "on"]
    /\ UNCHANGED <<world, fields, filter, layout, errors, refreshes, callers, reported,
                   faults>>

\* startCapture has returned: the refresh task begins, and start() returns.
StartReturns ==
    /\ pc["loop"] = "starting" /\ capture[sessions] # "starting"
    /\ rpc' = [rpc EXCEPT ![sessions] = "asleep"]
    /\ refresher' = sessions
    /\ sourceRunning' = TRUE
    /\ pc' = [pc EXCEPT !["loop"] = "idle"]
    /\ UNCHANGED <<world, stream, record, kit, round, cancelled, sessions, active, ending,
                   reported, faults>>

\* No list, no display, no output, or no capture: what was installed is dropped,
\* and the daemon ends.
StartThrows ==
    /\ \/ pc["loop"] \in {"listing", "listed"} /\ UNCHANGED <<stream, record, capture>>
       \/ /\ pc["loop"] = "starting" /\ capture[sessions] = "starting"
          /\ stream' = NoStream
          /\ record' = NoRecord
          /\ capture' = [capture EXCEPT ![sessions] = "off"]
    /\ Fault
    /\ ending' = TRUE
    /\ pc' = [pc EXCEPT !["loop"] = "done"]
    /\ UNCHANGED <<world, refresher, filter, layout, errors, refreshes, sessions, active,
                   sourceRunning, reported>>

Start == StartLists \/ StartContent \/ StartInstalls \/ StartReturns \/ StartThrows

-----------------------------------------------------------------------------
(* stop()                                                                  *)

\* Everything is taken out of the fields in one critical section.
StopTakes(c) ==
    /\ active' = [active EXCEPT ![c] = [stream |-> stream, refresh |-> refresher]]
    /\ stream' = NoStream
    /\ refresher' = NoStream
    /\ record' = NoRecord
    /\ pc' = [pc EXCEPT ![c] = "taken"]

\* pause and stop call it in the command loop.
LoopStops ==
    /\ pc["loop"] = "idle" /\ sourceRunning
    /\ StopTakes("loop")
    /\ UNCHANGED <<world, kit, refreshes, sessions, sourceRunning, ending, reported, faults>>

\* shutdown() calls it if the daemon believes that the source runs.
ShutdownStops ==
    /\ pc["shutdown"] = "idle"
    /\ ending' = TRUE
    /\ IF sourceRunning
         THEN StopTakes("shutdown")
         ELSE /\ pc' = [pc EXCEPT !["shutdown"] = "done"]
              /\ UNCHANGED <<fields, active>>
    /\ UNCHANGED <<world, kit, refreshes, sessions, sourceRunning, reported, faults>>

StopCancels(c) ==
    /\ pc[c] = "taken"
    /\ cancelled' = cancelled \cup ({active[c].refresh} \ {NoStream})
    /\ pc' = [pc EXCEPT ![c] = "awaiting"]
    /\ UNCHANGED <<world, fields, kit, rpc, round, sessions, active, sourceRunning, ending,
                   reported, faults>>

\* The caller resumes: a daemon that stopped its source will not start it again
\* once it ends, and the loop of a daemon whose stop threw does nothing more.
Resumes(c) ==
    /\ pc' = [pc EXCEPT ![c] = IF c = "loop" THEN "idle" ELSE "done"]
    /\ sourceRunning' = FALSE

\* Faulty: the refresh task is cancelled but not waited for.
StopDoesNotWait(c) ==
    /\ pc[c] = "awaiting"
    /\ IF active[c].stream = NoStream
         THEN Resumes(c)
         ELSE pc' = [pc EXCEPT ![c] = "stopping"] /\ UNCHANGED sourceRunning
    /\ UNCHANGED <<world, fields, kit, refreshes, sessions, active, ending, reported, faults>>

\* `await active.1?.value`; a stop that found no stream returns.
StopWaits(c) ==
    /\ pc[c] = "awaiting"
    /\ active[c].refresh # NoStream => rpc[active[c].refresh] = "done"
    /\ IF active[c].stream = NoStream
         THEN Resumes(c)
         ELSE pc' = [pc EXCEPT ![c] = "stopping"] /\ UNCHANGED sourceRunning
    /\ UNCHANGED <<world, fields, kit, refreshes, sessions, active, ending, reported, faults>>

\* stopCapture returns.
StopReturns(c) ==
    /\ pc[c] = "stopping"
    /\ capture' = [capture EXCEPT ![active[c].stream] = "off"]
    /\ Resumes(c)
    /\ UNCHANGED <<world, fields, filter, layout, errors, refreshes, sessions, active,
                   ending, reported, faults>>

\* stopCapture throws: shutdown() does not care, a pause or stop fails the daemon,
\* which goes on to believe that the source runs.
StopThrows(c) ==
    /\ pc[c] = "stopping"
    /\ Fault
    /\ pc' = [pc EXCEPT ![c] = "done"]
    /\ sourceRunning' = IF c = "loop" THEN sourceRunning ELSE FALSE
    /\ ending' = TRUE
    /\ UNCHANGED <<world, fields, kit, refreshes, sessions, active, reported>>

Stop(c) == StopCancels(c) \/ StopWaits(c) \/ StopReturns(c)

-----------------------------------------------------------------------------
(* The refresh task and refreshContentFilter()                             *)

\* A task that wakes while no stream is installed sleeps again.
RefreshBegins(s) ==
    /\ rpc[s] = "asleep" /\ s \notin cancelled
    /\ stream # NoStream
    /\ round' = [round EXCEPT ![s].stream = stream]
    /\ rpc' = [rpc EXCEPT ![s] = "listing"]
    /\ UNCHANGED <<world, fields, kit, cancelled, callers, reported, faults>>

\* Cancellation ends the sleep and the loop.
RefreshEnds(s) ==
    /\ rpc[s] = "asleep" /\ s \in cancelled
    /\ rpc' = [rpc EXCEPT ![s] = "done"]
    /\ UNCHANGED <<world, fields, kit, round, cancelled, callers, reported, faults>>

RefreshContent(s) ==
    /\ rpc[s] = "listing"
    /\ round' = [round EXCEPT ![s].excluded = running]
    /\ rpc' = [rpc EXCEPT ![s] = "listed"]
    /\ UNCHANGED <<world, fields, kit, cancelled, callers, reported, faults>>

\* Faulty: only a move to another display makes it update.
RefreshComparesDisplays(s) ==
    /\ rpc[s] = "listed"
    /\ IF record.display = pointer
         THEN rpc' = [rpc EXCEPT ![s] = "asleep"] /\ UNCHANGED round
         ELSE /\ rpc' = [rpc EXCEPT ![s] = "updating"]
              /\ round' = [round EXCEPT ![s] =
                             [@ EXCEPT !.display = pointer, !.previous = record.display]]
    /\ UNCHANGED <<world, fields, kit, cancelled, callers, reported, faults>>

\* Faulty: the filter is made for the display on record, which stop() clears.
RefreshKeepsDisplay(s) ==
    /\ rpc[s] = "listed"
    /\ IF record = [display |-> pointer, excluded |-> round[s].excluded]
         THEN rpc' = [rpc EXCEPT ![s] = "asleep"] /\ UNCHANGED round
         ELSE /\ rpc' = [rpc EXCEPT ![s] = "updating"]
              /\ round' = [round EXCEPT ![s] =
                             [@ EXCEPT !.display = record.display,
                                       !.previous = record.display]]
    /\ UNCHANGED <<world, fields, kit, cancelled, callers, reported, faults>>

\* The list is compared with the record; stop() may have cleared it meanwhile.
RefreshCompares(s) ==
    /\ rpc[s] = "listed"
    /\ IF record = [display |-> pointer, excluded |-> round[s].excluded]
         THEN rpc' = [rpc EXCEPT ![s] = "asleep"] /\ UNCHANGED round
         ELSE /\ rpc' = [rpc EXCEPT ![s] = "updating"]
              /\ round' = [round EXCEPT ![s] =
                             [@ EXCEPT !.display = pointer, !.previous = record.display]]
    /\ UNCHANGED <<world, fields, kit, cancelled, callers, reported, faults>>

\* updateContentFilter takes effect.
FilterApplies(s) ==
    /\ rpc[s] = "updating"
    /\ filter' = [filter EXCEPT ![round[s].stream] =
                    [display |-> round[s].display, excluded |-> round[s].excluded]]
    /\ rpc' = [rpc EXCEPT ![s] = IF round[s].previous # round[s].display
                                 THEN "configuring" ELSE "updated"]
    /\ UNCHANGED <<world, fields, capture, layout, errors, round, cancelled, callers,
                   reported, faults>>

\* updateConfiguration takes effect.
ConfigurationApplies(s) ==
    /\ rpc[s] = "configuring"
    /\ layout' = [layout EXCEPT ![round[s].stream] = round[s].display]
    /\ rpc' = [rpc EXCEPT ![s] = "updated"]
    /\ UNCHANGED <<world, fields, capture, filter, errors, round, cancelled, callers,
                   reported, faults>>

\* The record follows, also when stop() has cleared it meanwhile.
RefreshRecords(s) ==
    /\ rpc[s] = "updated"
    /\ record' = [display |-> round[s].display, excluded |-> round[s].excluded]
    /\ rpc' = [rpc EXCEPT ![s] = "asleep"]
    /\ UNCHANGED <<world, stream, refresher, kit, round, cancelled, callers, reported, faults>>

\* Faulty: the next round is trusted to repair what this one left undone.
RefreshThrowsSilently(s) ==
    /\ rpc[s] \in {"listing", "listed", "updating", "configuring"}
    /\ Fault
    /\ rpc' = [rpc EXCEPT ![s] = "asleep"]
    /\ UNCHANGED <<world, fields, kit, round, cancelled, callers, reported>>

\* The catch: a failure is reported unless stop() has cancelled the task; the
\* task goes on.
RefreshThrows(s) ==
    /\ rpc[s] \in {"listing", "listed", "updating", "configuring"}
    /\ Fault
    /\ IF s \in cancelled THEN UNCHANGED reported ELSE Emit(s)
    /\ rpc' = [rpc EXCEPT ![s] = "asleep"]
    /\ UNCHANGED <<world, fields, kit, round, cancelled, callers>>

Refresh(s) ==
    \/ RefreshBegins(s) \/ RefreshEnds(s) \/ RefreshContent(s) \/ RefreshCompares(s)
    \/ FilterApplies(s) \/ ConfigurationApplies(s) \/ RefreshRecords(s)

-----------------------------------------------------------------------------
(* A stream breaks; stream(_:didStopWithError:) arrives some time later,   *)
(* maybe in a later session.                                               *)

StreamBreaks(s) ==
    /\ capture[s] = "on"
    /\ Fault
    /\ capture' = [capture EXCEPT ![s] = "broken"]
    /\ errors' = errors \cup {s}
    /\ UNCHANGED <<world, fields, filter, layout, refreshes, callers, reported>>

DidStopWithError(s) ==
    /\ s \in errors
    /\ errors' = errors \ {s}
    /\ Emit(s)
    /\ UNCHANGED <<world, fields, capture, filter, layout, refreshes, callers, faults>>

-----------------------------------------------------------------------------
\* The daemon has ended, and with it every stop that it waited for.
Terminated ==
    /\ pc["shutdown"] = "done"
    /\ pc["loop"] \in {"idle", "done"}
    /\ UNCHANGED vars

Next ==
    \/ \E a \in Apps : Launch(a) \/ Quit(a)
    \/ \E d \in Displays : MovePointer(d)
    \/ Start \/ LoopStops \/ ShutdownStops
    \/ \E c \in Callers : Stop(c) \/ StopThrows(c)
    \/ \E s \in Sessions :
         \/ CaptureBegins(s) \/ StreamBreaks(s) \/ DidStopWithError(s)
         \/ Refresh(s) \/ RefreshThrows(s)
    \/ Terminated

\* The executor runs the tasks that can run, and ScreenCaptureKit answers. The
\* daemon need not stop or start anything, and nothing need go wrong.
Fairness ==
    /\ WF_vars(StartContent \/ StartInstalls \/ StartReturns)
    /\ \A c \in Callers : WF_vars(Stop(c))
    /\ \A s \in Sessions : WF_vars(CaptureBegins(s)) /\ WF_vars(Refresh(s))

Spec == Init /\ [][Next]_vars

FairSpec == Spec /\ Fairness

-----------------------------------------------------------------------------
Filters == [display : Displays \cup {"nil"}, excluded : SUBSET Apps]
Rounds == [stream : Sessions \cup {NoStream}, display : Displays \cup {"nil"},
           excluded : SUBSET Apps, previous : Displays \cup {"nil"}]
Takings == [stream : Sessions \cup {NoStream}, refresh : Sessions \cup {NoStream}]
CallerPoints == {"idle", "listing", "listed", "starting", "taken", "awaiting", "stopping",
                 "done"}
RefreshPoints == {"none", "asleep", "listing", "listed", "updating", "configuring",
                  "updated", "done"}

\* Types; a filter that is being applied is for a real display, and for a stream.
TypeOK ==
    /\ running \subseteq Apps
    /\ pointer \in Displays
    /\ changes \in 0 .. MaxChanges
    /\ stream \in Sessions \cup {NoStream}
    /\ refresher \in Sessions \cup {NoStream}
    /\ record \in Filters
    /\ capture \in [Sessions -> {"none", "starting", "on", "broken", "off"}]
    /\ filter \in [Sessions -> Filters]
    /\ layout \in [Sessions -> Displays \cup {"nil"}]
    /\ errors \subseteq Sessions
    /\ rpc \in [Sessions -> RefreshPoints]
    /\ round \in [Sessions -> Rounds]
    /\ \A s \in Sessions : rpc[s] \in {"updating", "configuring", "updated"} =>
         round[s].stream \in Sessions /\ round[s].display \in Displays
    /\ cancelled \subseteq Sessions
    /\ sessions \in 0 .. MaxSessions
    /\ pc \in [Callers -> CallerPoints]
    /\ active \in [Callers -> Takings]
    /\ sourceRunning \in BOOLEAN
    /\ ending \in BOOLEAN
    /\ reported \subseteq Sessions
    /\ faults \in 0 .. MaxFaults

-----------------------------------------------------------------------------
(* Properties                                                              *)

\* The refresh task of s has changed the stream and not yet the record.
Unrecorded(s) == rpc[s] \in {"configuring", "updated"}

\* What each round compares the world with is what ScreenCaptureKit really
\* applies, unless a failure has been reported. If it were not, a private
\* application could stay visible for ever: the rounds would find no difference.
\* It must hold across a stop and a new start, whose fields a late round of the
\* session before could still overwrite, and after an update that half succeeded.
FilterIsRecorded ==
    stream # NoStream /\ stream \notin reported /\ ~Unrecorded(stream) =>
        /\ filter[stream] = record
        /\ layout[stream] = record.display

\* A refresh works on the stream of its own session and is over before that
\* stream's capture is stopped, so that no update meets a stopped stream and no
\* session has two refresh tasks or one of a session before.
RefreshEndsFirst ==
    /\ \A s \in Sessions : round[s].stream \in {NoStream, s}
    /\ \A c \in Callers, s \in Sessions :
         pc[c] = "stopping" /\ active[c].stream = s => rpc[s] = "done"
    /\ \A s \in Sessions :
         stream \notin {NoStream, s} \/ pc["loop"] = "listing" => rpc[s] \in {"none", "done"}

\* A private application that comes on screen while the daemon captures does not
\* stay unfiltered: it gets into the filter or leaves, or the capture stops, or
\* the daemon is told, whatever moves, breaks or throws meanwhile.
StaleFilterEnds ==
    \A a \in Apps :
        (stream # NoStream /\ a \in running) ~>
            \/ a \notin running
            \/ stream = NoStream
            \/ stream \in reported
            \/ a \in filter[stream].excluded

\* A stop that has taken a stream is waiting for its refresh or its end.
Stopping ==
    \E c \in Callers : pc[c] \in {"taken", "awaiting", "stopping"} /\ active[c].stream # NoStream

\* The source as the daemon sees it.
SourceState == IF stream # NoStream THEN "on" ELSE IF Stopping THEN "stopping" ELSE "off"

Session == INSTANCE CaptureSession WITH Reports <- Sessions, source <- SourceState

\* The source keeps to the sessions that RecallDaemon takes it to have: once stop()
\* has dropped the handler no failure finds one, although the refresh that stop()
\* waits for may be failing, and a session ends before the next one begins.
ImplementsSession == Session!Spec

=============================================================================

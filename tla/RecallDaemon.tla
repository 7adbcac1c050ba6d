---------------------------- MODULE RecallDaemon ----------------------------
(***************************************************************************)
(* The RecallDaemon actor (RecallDaemon.swift) in one life of the process: *)
(* run(), the command loop, the tasks that receive(_:) frames and capture  *)
(* failures, and shutdown().  An actor runs one synchronous stretch at a   *)
(* time, so one action is the code from one `await` to the next; whatever  *)
(* else the actor does meanwhile is an interleaving of these actions.      *)
(*                                                                         *)
(* pc[t] names the `await` at which task t is suspended.  mail[t] is the   *)
(* status snapshot t has handed to the store with persistStatus(): the     *)
(* store is an actor of its own and serves its callers in an order that    *)
(* their priorities, and not their calls, decide.                          *)
(***************************************************************************)
EXTENDS Naturals, Sequences

CONSTANTS
    Frames,       \* frames that ScreenCaptureKit may deliver
    Failures,     \* .failure events that the frame source may emit
    Leftover,     \* kinds a command left pending by an earlier daemon may have
    MaxCommands,  \* bound: rows of runtime_commands
    MaxFaults,    \* bound: store, source and pipeline calls that throw
    CanSignal     \* whether SIGINT/SIGTERM (requestStop) may arrive

Threads == {"run", "loop", "shutdown"}
Tasks == Threads \cup Frames \cup Failures

States == {"starting", "recording", "paused", "stopping", "stopped", "failed"}
Kinds == {"pause", "resume", "stop"}
Receipts == {"pending", "ok", "error", "abandoned"}
CommandRows == [kind : Kinds, requested : {"before", "during"}, receipt : Receipts]

ASSUME TasksAssumption ==
    /\ Frames \cap Failures = {}
    /\ Threads \cap (Frames \cup Failures) = {}

ASSUME BoundsAssumption ==
    /\ MaxCommands \in Nat
    /\ MaxFaults \in Nat
    /\ CanSignal \in BOOLEAN
    /\ Leftover \subseteq Kinds

VARIABLES
    state,           \* status.state of the actor
    sourceRunning,
    processingFrame,
    shuttingDown,
    finished,
    finalState,      \* the argument of the shutdown() in progress
    pc,
    mail,            \* snapshot on its way to the store, or how the call ended
    row,             \* state in the runtime_status row this process has written
    commands,        \* the table runtime_commands, by id
    current,         \* id of the command the loop fetched last
    moments,         \* frames whose moment the store has committed
    source,          \* the frame source: has it a handler, is it stopping
    faults,          \* faults so far
    alive            \* the process has not exited

flags == <<sourceRunning, processingFrame, shuttingDown, finished, finalState>>
status == <<state, mail>>
durable == <<row, commands, moments>>
vars == <<state, sourceRunning, processingFrame, shuttingDown, finished,
          finalState, pc, mail, row, commands, current, moments, source,
          faults, alive>>

\* A row of runtime_commands.  `requested` stands for requested_at: before this
\* process, by a caller of an earlier daemon, or during its life.
Command(kind, requested) ==
    [kind |-> kind, requested |-> requested, receipt |-> "pending"]

InitialPoint(t) ==
    CASE t = "run"      -> "abandon"
      [] t = "loop"     -> "unstarted"
      [] t = "shutdown" -> "idle"
      [] t \in Frames   -> "uncaptured"
      [] OTHER          -> "unsent"

Init ==
    /\ state = "starting"
    /\ sourceRunning = FALSE
    /\ processingFrame = FALSE
    /\ shuttingDown = FALSE
    /\ finished = FALSE
    /\ finalState = "stopped"
    /\ pc = [t \in Tasks |-> InitialPoint(t)]
    /\ mail = [t \in Tasks |-> "none"]
    /\ row = "none"
    /\ commands \in {<<>>} \cup {<<Command(kind, "before")>> : kind \in Leftover}
    /\ current = 0
    /\ moments = {}
    /\ source = "off"
    /\ faults = 0
    /\ alive = TRUE

-----------------------------------------------------------------------------
(* Steps every task is made of.                                            *)

At(t, point) == alive /\ pc[t] = point

Goto(t, point) == pc' = [pc EXCEPT ![t] = point]

\* status.state = s; persistStatus(), and suspend at `point`.
Persist(t, s, point) ==
    /\ state' = s
    /\ mail' = [mail EXCEPT ![t] = s]
    /\ Goto(t, point)

Written(t) == mail[t] = "none"
Threw(t) == mail[t] = "threw"
Returned(t) == Written(t) \/ Threw(t)

Fault == faults < MaxFaults /\ faults' = faults + 1

\* fail(_:) up to its first await.
Fail(t) ==
    IF shuttingDown
      THEN Goto(t, "done") /\ UNCHANGED status
      ELSE Persist(t, "failed", "failPersist")

\* shutdown(finalState:) up to its first await, once its guard has passed;
\* pcs holds the callers' program counters.
BeginShutdown(final, pcs) ==
    /\ shuttingDown' = TRUE
    /\ finalState' = final
    /\ state' = IF final = "failed" THEN "failed" ELSE "stopping"
    /\ mail' = [mail EXCEPT !["shutdown"] = state']
    /\ pc' = [pcs EXCEPT !["shutdown"] = "persistStopping"]
    /\ UNCHANGED <<sourceRunning, processingFrame, finished>>

\* setRuntimeStatus on the store, for any one of the waiting callers.
StoreWrites(t) ==
    /\ alive
    /\ mail[t] \in States
    /\ row' = mail[t]
    /\ mail' = [mail EXCEPT ![t] = "none"]
    /\ UNCHANGED <<state, flags, pc, commands, current, moments, source, faults, alive>>

StoreThrows(t) ==
    /\ alive
    /\ mail[t] \in States
    /\ Fault
    /\ mail' = [mail EXCEPT ![t] = "threw"]
    /\ UNCHANGED <<state, flags, pc, durable, current, source, alive>>

-----------------------------------------------------------------------------
(* The frame source, as far as start and stop change what it emits.         *)

\* start(handler:) has installed the handler and capture has begun.
SourceStarts ==
    /\ At("run", "start") \/ At("loop", "resumeStart")
    /\ source = "off"
    /\ source' = "on"
    /\ UNCHANGED <<status, flags, pc, durable, current, faults, alive>>

\* `if sourceRunning { source.stop() }`: the call drops the handler, then waits
\* for stopCapture; a source without a stream has nothing to wait for.
CallStop(t, waiting, next) ==
    /\ IF sourceRunning /\ source = "on"
         THEN source' = "stopping" /\ Goto(t, waiting) /\ UNCHANGED sourceRunning
         ELSE sourceRunning' = FALSE /\ Goto(t, next) /\ UNCHANGED source
    /\ UNCHANGED <<status, processingFrame, shuttingDown, finished, finalState,
                   durable, current, faults, alive>>

\* stopCapture has returned, and so does source.stop().
StopReturns(t, next) ==
    /\ source = "stopping"
    /\ source' = "off"
    /\ sourceRunning' = FALSE
    /\ Goto(t, next)
    /\ UNCHANGED <<status, processingFrame, shuttingDown, finished, finalState,
                   durable, current, faults, alive>>

-----------------------------------------------------------------------------
(* run()                                                                   *)

\* Faulty: the command loop inherits what an earlier daemon left pending.
RunKeepsPending ==
    /\ At("run", "abandon")
    /\ Persist("run", state, "persistStarting")
    /\ UNCHANGED <<flags, durable, current, source, faults, alive>>

\* Commands an earlier daemon left pending are answered before any is fetched.
RunAbandon ==
    /\ At("run", "abandon")
    /\ commands' = [i \in DOMAIN commands |->
                      IF commands[i].receipt = "pending"
                        THEN [commands[i] EXCEPT !.receipt = "abandoned"]
                        ELSE commands[i]]
    /\ Persist("run", state, "persistStarting")
    /\ UNCHANGED <<flags, row, current, moments, source, faults, alive>>

RunAbandonThrows ==
    /\ At("run", "abandon")
    /\ Fault
    /\ Goto("run", "returned")
    /\ UNCHANGED <<status, flags, durable, current, source, alive>>

RunStart ==
    /\ At("run", "persistStarting") /\ Returned("run")
    /\ Goto("run", IF Written("run") THEN "start" ELSE "returned")
    /\ UNCHANGED <<status, flags, durable, current, source, faults, alive>>

RunStarted ==
    /\ At("run", "start") /\ source = "on"
    /\ sourceRunning' = TRUE
    /\ Persist("run", "recording", "persistRecording")
    /\ UNCHANGED <<processingFrame, shuttingDown, finished, finalState, durable,
                   current, source, faults, alive>>

RunStartThrows ==
    /\ At("run", "start")
    /\ Fault
    /\ source' = "off"
    /\ Persist("run", "failed", "persistFailed")
    /\ UNCHANGED <<flags, durable, current, alive>>

\* The command loop begins, and run() waits for shutdown() to resume it.
RunRecording ==
    /\ At("run", "persistRecording") /\ Written("run")
    /\ pc' = [pc EXCEPT !["run"] = "await", !["loop"] = "check"]
    /\ UNCHANGED <<status, flags, durable, current, source, faults, alive>>

RunRecordingThrows ==
    /\ At("run", "persistRecording") /\ Threw("run")
    /\ Persist("run", "failed", "persistFailed")
    /\ UNCHANGED <<flags, durable, current, source, faults, alive>>

RunFailed ==
    /\ At("run", "persistFailed") /\ Returned("run")
    /\ Goto("run", "returned")
    /\ UNCHANGED <<status, flags, durable, current, source, faults, alive>>

RunReturns ==
    /\ At("run", "await") /\ finished
    /\ Goto("run", "returned")
    /\ UNCHANGED <<status, flags, durable, current, source, faults, alive>>

\* runDaemon() returns or throws once runTask has a value, main() ends, and
\* with it the process: every other task ends where it stands.
Exit ==
    /\ At("run", "returned")
    /\ alive' = FALSE
    /\ UNCHANGED <<status, flags, pc, durable, current, source, faults>>

RunStep ==
    \/ RunAbandon \/ RunAbandonThrows \/ RunStart
    \/ RunStarted \/ RunStartThrows
    \/ RunRecording \/ RunRecordingThrows \/ RunFailed
    \/ RunReturns \/ Exit

-----------------------------------------------------------------------------
(* commandLoop() and process(_:)                                           *)

IsPending(i) == commands[i].receipt = "pending"

\* Faulty: ORDER BY id DESC.
IsNextNewestFirst(i) ==
    /\ IsPending(i)
    /\ \A j \in DOMAIN commands : IsPending(j) => i >= j

\* nextRuntimeCommand(): WHERE processed_at IS NULL ORDER BY id LIMIT 1.
IsNext(i) ==
    /\ IsPending(i)
    /\ \A j \in DOMAIN commands : IsPending(j) => i <= j

Answer(i, receipt) == commands' = [commands EXCEPT ![i].receipt = receipt]

LoopCheck ==
    /\ At("loop", "check")
    /\ Goto("loop", IF shuttingDown THEN "done" ELSE "fetch")
    /\ UNCHANGED <<status, flags, durable, current, source, faults, alive>>

\* No command: sleep, or be cancelled asleep, and test shuttingDown again.
LoopIdle ==
    /\ At("loop", "fetch")
    /\ \A i \in DOMAIN commands : ~IsPending(i)
    /\ Goto("loop", "check")
    /\ UNCHANGED <<status, flags, durable, current, source, faults, alive>>

\* Faulty: the loop returns on an error that it has not reported.
LoopFetchThrowsSilently ==
    /\ At("loop", "fetch")
    /\ Fault
    /\ Goto("loop", "done")
    /\ UNCHANGED <<status, flags, durable, current, source, alive>>

LoopFetchThrows ==
    /\ At("loop", "fetch")
    /\ Fault
    /\ Fail("loop")
    /\ UNCHANGED <<flags, durable, current, source, alive>>

\* Faulty: the id is taken from the row after the one that was fetched.
FetchedOffByOne(i, kind) ==
    /\ At("loop", "fetch")
    /\ IsNext(i)
    /\ commands[i].kind = kind
    /\ current' = i + 1
    /\ UNCHANGED <<flags, durable, source, faults, alive>>

\* The loop resumes with command i, of this kind.
Fetched(i, kind) ==
    /\ At("loop", "fetch")
    /\ IsNext(i)
    /\ commands[i].kind = kind
    /\ current' = i
    /\ UNCHANGED <<flags, durable, source, faults, alive>>

BeginPause(i) ==
    /\ Fetched(i, "pause") /\ state = "recording"
    /\ Persist("loop", "paused", "pausePersist")

BeginResume(i) ==
    /\ Fetched(i, "resume") /\ state = "paused"
    /\ Goto("loop", "resumeStart")
    /\ UNCHANGED status

BeginStop(i) ==
    /\ Fetched(i, "stop")
    /\ Persist("loop", "stopping", "stopPersist")

\* A pause when not recording, a resume when not paused: nothing to do.
BeginNoop(i) ==
    /\ \/ Fetched(i, "pause") /\ state # "recording"
       \/ Fetched(i, "resume") /\ state # "paused"
    /\ Goto("loop", "complete")
    /\ UNCHANGED status

AfterPersist ==
    [pausePersist      |-> "pauseStop",
     pausePersistAgain |-> "complete",
     resumePersist     |-> "complete",
     stopPersist       |-> "stopStop"]

\* `try await persistStatus()` returns or throws into the catch of process(_:).
LoopPersisted ==
    /\ alive /\ pc["loop"] \in DOMAIN AfterPersist /\ Returned("loop")
    /\ Goto("loop", IF Written("loop") THEN AfterPersist[pc["loop"]] ELSE "completeError")
    /\ UNCHANGED <<status, flags, durable, current, source, faults, alive>>

LoopCallsStop ==
    \/ At("loop", "pauseStop") /\ CallStop("loop", "pauseStopping", "pauseDrain")
    \/ At("loop", "stopStop") /\ CallStop("loop", "stopStopping", "stopDrain")

LoopStopReturns ==
    \/ At("loop", "pauseStopping") /\ StopReturns("loop", "pauseDrain")
    \/ At("loop", "stopStopping") /\ StopReturns("loop", "stopDrain")

\* stopCapture throws: the handler is gone but sourceRunning stays set.
LoopStopThrows ==
    /\ At("loop", "pauseStopping") \/ At("loop", "stopStopping")
    /\ source = "stopping"
    /\ Fault
    /\ source' = "off"
    /\ Goto("loop", "completeError")
    /\ UNCHANGED <<status, flags, durable, current, alive>>

\* Faulty: the pause does not wait for the frame in flight.
PauseNotDrained ==
    /\ At("loop", "pauseDrain")
    /\ Persist("loop", state, "pausePersistAgain")
    /\ UNCHANGED <<flags, durable, current, source, faults, alive>>

PauseDrained ==
    /\ At("loop", "pauseDrain") /\ ~processingFrame
    /\ Persist("loop", state, "pausePersistAgain")
    /\ UNCHANGED <<flags, durable, current, source, faults, alive>>

ResumeStarted ==
    /\ At("loop", "resumeStart") /\ source = "on"
    /\ sourceRunning' = TRUE
    /\ Persist("loop", "recording", "resumePersist")
    /\ UNCHANGED <<processingFrame, shuttingDown, finished, finalState, durable,
                   current, source, faults, alive>>

ResumeStartThrows ==
    /\ At("loop", "resumeStart")
    /\ Fault
    /\ source' = "off"
    /\ Goto("loop", "completeError")
    /\ UNCHANGED <<status, flags, durable, current, alive>>

\* The stop command calls shutdown() and waits for it, unless one is under way.
StopDrained ==
    /\ At("loop", "stopDrain") /\ ~processingFrame
    /\ IF shuttingDown
         THEN Goto("loop", "complete") /\ UNCHANGED <<status, flags>>
         ELSE BeginShutdown("stopped", [pc EXCEPT !["loop"] = "stopShutdown"])
    /\ UNCHANGED <<durable, current, source, faults, alive>>

StopShutdownReturns ==
    /\ At("loop", "stopShutdown") /\ pc["shutdown"] = "done"
    /\ Goto("loop", "complete")
    /\ UNCHANGED <<status, flags, durable, current, source, faults, alive>>

\* completeRuntimeCommand(id, error: nil)
Complete ==
    /\ At("loop", "complete")
    /\ Answer(current, "ok")
    /\ Goto("loop", "check")
    /\ UNCHANGED <<status, flags, row, current, moments, source, faults, alive>>

CompleteThrows ==
    /\ At("loop", "complete")
    /\ Fault
    /\ Goto("loop", "completeError")
    /\ UNCHANGED <<status, flags, durable, current, source, alive>>

\* The catch of process(_:): the receipt (`try?`), then fail.
CompleteError ==
    /\ At("loop", "completeError")
    /\ \/ Answer(current, "error") /\ UNCHANGED faults
       \/ Fault /\ UNCHANGED commands
    /\ Fail("loop")
    /\ UNCHANGED <<flags, row, current, moments, source, alive>>

BeginCommand(i) == BeginPause(i) \/ BeginResume(i) \/ BeginStop(i) \/ BeginNoop(i)

LoopStep ==
    \/ LoopCheck \/ LoopIdle \/ LoopFetchThrows
    \/ \E i \in DOMAIN commands : BeginCommand(i)
    \/ LoopPersisted
    \/ LoopCallsStop \/ LoopStopReturns \/ LoopStopThrows
    \/ PauseDrained
    \/ ResumeStarted \/ ResumeStartThrows
    \/ StopDrained \/ StopShutdownReturns
    \/ Complete \/ CompleteThrows \/ CompleteError

-----------------------------------------------------------------------------
(* receive(_:), each event in a task of its own                            *)

\* The stream's output callback spawns the task; nothing orders such tasks.
Capture(f) ==
    /\ source = "on"
    /\ At(f, "uncaptured")
    /\ Goto(f, "queued")
    /\ UNCHANGED <<status, flags, durable, current, source, faults, alive>>

\* Faulty: a frame queued before the pause is taken after it.
AcceptingWhilePaused == ~shuttingDown

Accepting == state = "recording" /\ ~shuttingDown

ReceiveIgnored(f) ==
    /\ At(f, "queued")
    /\ ~Accepting
    /\ Goto(f, "done")
    /\ UNCHANGED <<status, flags, durable, current, source, faults, alive>>

ReceiveDropped(f) ==
    /\ At(f, "queued")
    /\ Accepting /\ processingFrame
    /\ Persist(f, state, "dropPersist")
    /\ UNCHANGED <<flags, durable, current, source, faults, alive>>

DropPersisted(f) ==
    /\ At(f, "dropPersist") /\ Returned(f)
    /\ Goto(f, "done")
    /\ UNCHANGED <<status, flags, durable, current, source, faults, alive>>

\* Faulty: the re-entrant actor takes a second frame.
ReceiveAcceptedReentrant(f) ==
    /\ At(f, "queued")
    /\ Accepting
    /\ processingFrame' = TRUE
    /\ Goto(f, "pipeline")
    /\ UNCHANGED <<status, sourceRunning, shuttingDown, finished, finalState,
                   durable, current, source, faults, alive>>

ReceiveAccepted(f) ==
    /\ At(f, "queued")
    /\ Accepting /\ ~processingFrame
    /\ processingFrame' = TRUE
    /\ Goto(f, "pipeline")
    /\ UNCHANGED <<status, sourceRunning, shuttingDown, finished, finalState,
                   durable, current, source, faults, alive>>

\* pipeline.process: policy, encoding, OCR and, for .stored, RecallStore.add.
PipelineStores(f) ==
    /\ At(f, "pipeline")
    /\ moments' = moments \cup {f}
    /\ Goto(f, "stored")
    /\ UNCHANGED <<status, flags, row, commands, current, source, faults, alive>>

PipelineReturns(f) ==
    /\ At(f, "stored")
    /\ Persist(f, state, "persist")
    /\ UNCHANGED <<flags, durable, current, source, faults, alive>>

\* The outcome .excluded or .duplicate.
PipelineSkips(f) ==
    /\ At(f, "pipeline")
    /\ Persist(f, state, "persist")
    /\ UNCHANGED <<flags, durable, current, source, faults, alive>>

\* Faulty: the failing frame keeps the marker that its own shutdown() waits for.
FrameFailsInFlight(f) ==
    /\ Fail(f)
    /\ UNCHANGED <<flags, durable, current, source, alive>>

\* The catch of receive(_:) clears the in-flight marker before it fails.
FrameFails(f) ==
    /\ processingFrame' = FALSE
    /\ Fail(f)
    /\ UNCHANGED <<sourceRunning, shuttingDown, finished, finalState, durable,
                   current, source, alive>>

PipelineThrows(f) ==
    /\ At(f, "pipeline")
    /\ Fault
    /\ FrameFails(f)

FramePersistThrows(f) ==
    /\ At(f, "persist") /\ Threw(f)
    /\ FrameFails(f)
    /\ UNCHANGED faults

FramePersisted(f) ==
    /\ At(f, "persist") /\ Written(f)
    /\ processingFrame' = FALSE
    /\ Goto(f, "done")
    /\ UNCHANGED <<status, sourceRunning, shuttingDown, finished, finalState,
                   durable, current, source, faults, alive>>

\* The failing frame called shutdown(): its `defer` clears the marker again.
FrameShutdownReturns(f) ==
    /\ At(f, "failShutdown") /\ pc["shutdown"] = "done"
    /\ processingFrame' = FALSE
    /\ Goto(f, "done")
    /\ UNCHANGED <<status, sourceRunning, shuttingDown, finished, finalState,
                   durable, current, source, faults, alive>>

FrameStep(f) ==
    \/ ReceiveIgnored(f) \/ ReceiveDropped(f) \/ ReceiveAccepted(f)
    \/ DropPersisted(f)
    \/ PipelineStores(f) \/ PipelineReturns(f)
    \/ PipelineSkips(f) \/ PipelineThrows(f)
    \/ FramePersisted(f) \/ FramePersistThrows(f)
    \/ FrameShutdownReturns(f)

\* The stream stopped with an error, or the privacy filter is stale.
EmitFailure(e) ==
    /\ source = "on"
    /\ At(e, "unsent")
    /\ Goto(e, "queued")
    /\ UNCHANGED <<status, flags, durable, current, source, faults, alive>>

ReceiveFailure(e) ==
    /\ At(e, "queued")
    /\ Fail(e)
    /\ UNCHANGED <<flags, durable, current, source, faults, alive>>

-----------------------------------------------------------------------------
(* fail(_:) after its await, and shutdown(finalState:)                     *)

\* shutdown() tests shuttingDown again: another caller may have come first.
FailPersisted(t) ==
    /\ At(t, "failPersist") /\ Returned(t)
    /\ ~shuttingDown
    /\ BeginShutdown("failed",
         [pc EXCEPT ![t] = IF t \in Frames THEN "failShutdown" ELSE "done"])
    /\ UNCHANGED <<durable, current, source, faults, alive>>

FailOvertaken(t) ==
    /\ At(t, "failPersist") /\ Returned(t)
    /\ shuttingDown
    /\ processingFrame' = IF t \in Frames THEN FALSE ELSE processingFrame
    /\ Goto(t, "done")
    /\ UNCHANGED <<status, sourceRunning, shuttingDown, finished, finalState,
                   durable, current, source, faults, alive>>

FailStep(t) == FailPersisted(t) \/ FailOvertaken(t)

\* SIGINT, SIGTERM, or the start-up poll of runDaemon() that gives up.
RequestStop ==
    /\ alive /\ CanSignal
    /\ ~shuttingDown
    /\ BeginShutdown("stopped", pc)
    /\ UNCHANGED <<durable, current, source, faults, alive>>

ShutdownPersisted ==
    /\ At("shutdown", "persistStopping") /\ Returned("shutdown")
    /\ Goto("shutdown", "stop")
    /\ UNCHANGED <<status, flags, durable, current, source, faults, alive>>

ShutdownCallsStop ==
    At("shutdown", "stop") /\ CallStop("shutdown", "stopping", "drain")

\* `try?`: the outcome of stopCapture does not matter.
ShutdownStopReturns ==
    At("shutdown", "stopping") /\ StopReturns("shutdown", "drain")

\* Faulty: shutdown() does not wait for the frame in flight.
ShutdownNotDrained ==
    /\ At("shutdown", "drain")
    /\ Persist("shutdown", finalState, "persistFinal")
    /\ UNCHANGED <<flags, durable, current, source, faults, alive>>

ShutdownDrained ==
    /\ At("shutdown", "drain") /\ ~processingFrame
    /\ Persist("shutdown", finalState, "persistFinal")
    /\ UNCHANGED <<flags, durable, current, source, faults, alive>>

\* finished is set and the continuation of run() is resumed.
ShutdownDone ==
    /\ At("shutdown", "persistFinal") /\ Returned("shutdown")
    /\ finished' = TRUE
    /\ Goto("shutdown", "done")
    /\ UNCHANGED <<status, sourceRunning, processingFrame, shuttingDown,
                   finalState, durable, current, source, faults, alive>>

ShutdownStep ==
    \/ ShutdownPersisted \/ ShutdownCallsStop \/ ShutdownStopReturns
    \/ ShutdownDrained \/ ShutdownDone

-----------------------------------------------------------------------------
(* External callers: `rapp-recall pause|resume|stop` in other processes.   *)

\* A caller has seen a live row of this daemon before it inserts its command.
EnqueueCommand(kind) ==
    /\ alive
    /\ row # "none"
    /\ Len(commands) < MaxCommands
    /\ commands' = Append(commands, Command(kind, "during"))
    /\ UNCHANGED <<status, flags, pc, row, current, moments, source, faults, alive>>

Terminated == ~alive /\ UNCHANGED vars

Next ==
    \/ RunStep
    \/ LoopStep
    \/ ShutdownStep
    \/ RequestStop
    \/ SourceStarts
    \/ \E t \in Tasks : StoreWrites(t) \/ StoreThrows(t) \/ FailStep(t)
    \/ \E f \in Frames : Capture(f) \/ FrameStep(f)
    \/ \E e \in Failures : EmitFailure(e) \/ ReceiveFailure(e)
    \/ \E kind \in Kinds : EnqueueCommand(kind)
    \/ Terminated

\* The executor runs every task that can run, the store serves every caller,
\* ScreenCaptureKit answers and Vision returns.  Nothing makes the environment
\* capture, fail, signal or send commands, and nothing makes a call throw.
Fairness ==
    /\ WF_vars(RunStep)
    /\ WF_vars(LoopStep)
    /\ WF_vars(ShutdownStep)
    /\ WF_vars(SourceStarts)
    /\ \A t \in Tasks : WF_vars(StoreWrites(t)) /\ WF_vars(FailStep(t))
    /\ \A f \in Frames : WF_vars(FrameStep(f))
    /\ \A e \in Failures : WF_vars(ReceiveFailure(e))

Spec == Init /\ [][Next]_vars

FairSpec == Spec /\ Fairness

-----------------------------------------------------------------------------
RunPoints == {"abandon", "persistStarting", "start", "persistRecording",
              "persistFailed", "await", "returned"}
LoopPoints == {"unstarted", "check", "fetch", "pausePersist", "pauseStop",
               "pauseStopping", "pauseDrain", "pausePersistAgain",
               "resumeStart", "resumePersist", "stopPersist", "stopStop",
               "stopStopping", "stopDrain", "stopShutdown", "complete",
               "completeError", "failPersist", "done"}
ShutdownPoints == {"idle", "persistStopping", "stop", "stopping", "drain",
                   "persistFinal", "done"}
FramePoints == {"uncaptured", "queued", "dropPersist", "pipeline", "stored",
                "persist", "failPersist", "failShutdown", "done"}
FailurePoints == {"unsent", "queued", "failPersist", "done"}

PointsOf(t) ==
    CASE t = "run"      -> RunPoints
      [] t = "loop"     -> LoopPoints
      [] t = "shutdown" -> ShutdownPoints
      [] t \in Frames   -> FramePoints
      [] OTHER          -> FailurePoints

\* Every variable keeps its type, each task suspends only at the awaits of its
\* own function, and the command in hand is a row of the table.
TypeOK ==
    /\ state \in States
    /\ sourceRunning \in BOOLEAN
    /\ processingFrame \in BOOLEAN
    /\ shuttingDown \in BOOLEAN
    /\ finished \in BOOLEAN
    /\ finalState \in {"stopped", "failed"}
    /\ DOMAIN pc = Tasks
    /\ \A t \in Tasks : pc[t] \in PointsOf(t)
    /\ mail \in [Tasks -> States \cup {"none", "threw"}]
    /\ row \in States \cup {"none"}
    /\ commands \in Seq(CommandRows)
    /\ current \in 0 .. Len(commands)
    /\ moments \subseteq Frames
    /\ source \in {"off", "on", "stopping"}
    /\ faults \in 0 .. MaxFaults
    /\ alive \in BOOLEAN

-----------------------------------------------------------------------------
(* Properties                                                              *)

\* receive(_:) has taken the frame and its `defer` has not run.
InFlight(f) == pc[f] \in {"pipeline", "stored", "persist"}

Drained == \A f \in Frames : ~InFlight(f)

\* The in-flight marker tells the truth: it is set exactly while one invocation
\* of receive(_:) is between its guard and its `defer`, and never two are, even
\* though the actor is re-entrant at every await of the pipeline and the store,
\* and the marker is cleared from three places.
OneFrameInFlight ==
    /\ processingFrame <=> ~Drained
    /\ \A f, g \in Frames : InFlight(f) /\ InFlight(g) => f = g

\* Where the loop may be while `paused` is already set and not yet in force.
Pausing == {"pausePersist", "pauseStop", "pauseStopping", "pauseDrain", "completeError"}

\* Once process(_:) has carried out a pause, and until a resume starts the
\* source again, the source is released and no frame is inside the pipeline or
\* on its way back, whatever tasks were queued when the pause came.
PauseSettled ==
    state = "paused" /\ pc["loop"] \notin Pausing =>
        /\ Drained
        /\ source = "on" => pc["loop"] = "resumeStart"

\* Nothing is stored once the daemon says that it has stopped: neither after the
\* row reads "stopped" nor after shutdown() has released run(), for all tasks
\* still queued, starting the source or resuming.
StoppedMeansStopped == [][finished \/ row = "stopped" => UNCHANGED moments]_vars

\* Receipts come in the order of ids: a later command is never answered while an
\* earlier one is still pending, also when answering the earlier one failed.
AnsweredInOrder ==
    \A i, j \in DOMAIN commands : i < j /\ IsPending(i) => IsPending(j)

\* A command left pending by an earlier daemon is never carried out by this one,
\* whichever of the store's calls throw before the loop begins.
LeftoverNotCarriedOut ==
    current > 0 => commands[current].requested = "during"

\* Once shutdown() has begun or a failure is being reported the process ends:
\* no drain waits for a frame that itself waits for the drain.
ShutdownCompletes ==
    (shuttingDown \/ \E t \in Tasks : pc[t] = "failPersist") ~> ~alive

\* Every command is answered unless the daemon ends, whatever calls throw.
EveryCommandAnswered ==
    \A i \in 1 .. MaxCommands :
        (i \in DOMAIN commands /\ IsPending(i)) ~>
            (~alive \/ (i \in DOMAIN commands /\ ~IsPending(i)))

\* A caller that waited for its stop gets the receipt: the process does not end
\* between the shutdown that the command asked for and its acknowledgement.
StopAcknowledged ==
    ~(~alive /\ pc["loop"] \in {"stopShutdown", "complete"}
             /\ commands[current].kind = "stop")

\* A later resume that the loop has begun lifts the barrier that the receipt of
\* pause or stop i raised.
LiftedAfter(i) ==
    \E j \in DOMAIN commands : i < j /\ j <= current /\ commands[j].kind = "resume"

\* A caller holds a successful receipt for a pause or a stop not lifted since.
BarrierUp ==
    \E i \in DOMAIN commands :
        /\ commands[i].kind \in {"pause", "stop"}
        /\ commands[i].receipt = "ok"
        /\ ~LiftedAfter(i)

\* A successful pause or stop is never followed by a write.
ReceiptIsBarrier == [][BarrierUp => UNCHANGED moments]_vars

\* No call has thrown, no failure event has been received, no signal can arrive.
Undisturbed ==
    /\ ~CanSignal
    /\ faults = 0
    /\ \A e \in Failures : pc[e] \in {"unsent", "queued"}

\* What pause and stop promise their callers, as a specification of its own.
Promise == INSTANCE WriteBarrier WITH barrier <- BarrierUp /\ Undisturbed

\* As long as nothing fails and no signal arrives, the daemon implements it: its
\* receipts are write barriers in the sense of WriteBarrier.
ImplementsWriteBarrier == Promise!Spec

\* A failure that fail(_:) has recorded and made visible in the row is not taken
\* back: status.state never turns from it to "recording".
FailureNotRetracted ==
    [][state = "failed" /\ row = "failed" => state' # "recording"]_vars

=============================================================================

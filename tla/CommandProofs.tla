--------------------------- MODULE CommandProofs ---------------------------
(***************************************************************************)
(* Theorems about the commands of RecallDaemon, for any frames, failures   *)
(* and bounds: their order, those that an earlier daemon left, and what a  *)
(* successful receipt promises.  They rest on the invariant of             *)
(* RecallDaemonProofs.                                                     *)
(***************************************************************************)
EXTENDS RecallDaemonProofs

\* process(_:) has a command in hand that it has not answered.
Handling == pc["loop"] \notin {"unstarted", "check", "fetch", "failPersist", "done"}

\* The command in hand is the first that is pending; a command that an earlier
\* daemon left is pending only as long as no loop can fetch it.
QueueInv ==
    /\ AnsweredInOrder
    /\ LeftoverNotCarriedOut
    /\ current > 0 => current \in DOMAIN commands
    /\ Handling => current > 0 /\ IsNext(current)
    /\ \A i \in DOMAIN commands :
         IsPending(i) /\ commands[i].requested = "before" =>
             pc["loop"] = "unstarted" /\ pc["run"] \in {"abandon", "returned"}

-----------------------------------------------------------------------------
(* The queue                                                               *)

\* Steps that change neither a command nor the loop's point keep the queue.
LEMMA OthersKeepQueue ==
    ASSUME QueueInv, UNCHANGED <<commands, current>>, pc'["loop"] = pc["loop"],
           pc'["run"] = pc["run"] \/ pc["run"] \notin {"abandon", "returned"}
    PROVE  QueueInv'
BY DEF QueueInv, AnsweredInOrder, LeftoverNotCarriedOut, Handling, IsNext, IsPending

\* An answer to the command in hand keeps the order of receipts.
LEMMA AnswerKeepsQueue ==
    ASSUME TypeOK, QueueInv, Handling, NEW receipt \in Receipts \ {"pending"},
           Answer(current, receipt)
    PROVE  /\ AnsweredInOrder'
           /\ commands'[current].requested = commands[current].requested
           /\ DOMAIN commands' = DOMAIN commands
           /\ commands'[current].receipt = receipt
           /\ \A i \in DOMAIN commands \ {current} : commands'[i] = commands[i]
<1>1. current \in DOMAIN commands /\ commands[current] \in CommandRows
  BY DEF QueueInv, TypeOK
<1>2. commands' = [commands EXCEPT ![current] = [commands[current] EXCEPT !.receipt = receipt]]
  BY DEF Answer
<1>3. /\ commands'[current].receipt = receipt
      /\ commands'[current].requested = commands[current].requested
  BY <1>1, <1>2 DEF CommandRows, TypeOK
<1>4. DOMAIN commands' = DOMAIN commands
  BY <1>2
<1>5. \A i \in DOMAIN commands \ {current} : commands'[i] = commands[i]
  BY <1>2
<1>6. IsNext(current) /\ AnsweredInOrder
  BY DEF QueueInv
<1>7. AnsweredInOrder'
  <2> SUFFICES ASSUME NEW i \in DOMAIN commands, NEW j \in DOMAIN commands,
                      i < j, commands'[i].receipt = "pending"
               PROVE  commands'[j].receipt = "pending"
    BY <1>4 DEF AnsweredInOrder, IsPending
  <2>1. i # current /\ IsPending(i)
    BY <1>3, <1>5 DEF IsPending
  <2>2. current <= i /\ IsPending(j)
    BY <1>6, <2>1 DEF IsNext, AnsweredInOrder
  <2>3. j # current
    BY <1>1, <2>2 DEF TypeOK
  <2> QED BY <1>5, <2>2, <2>3 DEF IsPending
<1> QED BY <1>3, <1>4, <1>5, <1>7

\* A fetched command is answered before the next one is fetched.
LEMMA LoopKeepsQueue ==
    ASSUME Inv, QueueInv, LoopStep
    PROVE  QueueInv'
<1> USE TasksAreDistinct DEF At, Goto, Persist, status, flags, durable, Threads
<1>0. TypeOK /\ TypeOK' /\ DOMAIN pc = Tasks
  BY LoopKeepsTypes DEF Inv, TypeOK
<1>1. ASSUME UNCHANGED <<commands, current>>, pc'["run"] = pc["run"],
             Handling' => Handling, pc["loop"] # "unstarted"
      PROVE  QueueInv'
  BY <1>1 DEF QueueInv, AnsweredInOrder, LeftoverNotCarriedOut, IsNext, IsPending
<1>2. CASE LoopCheck \/ LoopIdle \/ LoopFetchThrows
  BY <1>0, <1>1, <1>2 DEF LoopCheck, LoopIdle, LoopFetchThrows, Fail, Handling
<1>3. ASSUME NEW i \in DOMAIN commands, BeginCommand(i) PROVE QueueInv'
  <2>1. /\ IsNext(i) /\ current' = i /\ UNCHANGED commands /\ i > 0
        /\ pc["loop"] = "fetch" /\ pc'["run"] = pc["run"]
    BY <1>0, <1>3 DEF BeginCommand, BeginPause, BeginResume, BeginStop, BeginNoop, Fetched,
                      TypeOK
  <2>2. commands[i] \in CommandRows
    BY <1>0 DEF TypeOK
  <2>3. commands[i].requested = "during"
    BY <2>1, <2>2 DEF QueueInv, IsNext, CommandRows
  <2> QED BY <2>1, <2>3 DEF QueueInv, AnsweredInOrder, LeftoverNotCarriedOut, IsNext, IsPending
<1>4. CASE \/ LoopPersisted \/ LoopCallsStop \/ LoopStopReturns \/ LoopStopThrows
           \/ PauseDrained \/ ResumeStarted \/ ResumeStartThrows
           \/ StopShutdownReturns \/ CompleteThrows
  <2>1. UNCHANGED <<commands, current>> /\ pc'["run"] = pc["run"]
    BY <1>0, <1>4 DEF LoopPersisted, LoopCallsStop, LoopStopReturns, LoopStopThrows, CallStop,
       StopReturns, PauseDrained, ResumeStarted, ResumeStartThrows, StopShutdownReturns,
       CompleteThrows
  <2>2. Handling
    BY <1>4 DEF LoopPersisted, LoopCallsStop, LoopStopReturns, LoopStopThrows, PauseDrained,
       ResumeStarted, ResumeStartThrows, StopShutdownReturns, CompleteThrows, AfterPersist,
       Handling
  <2> QED BY <1>1, <2>1, <2>2 DEF Handling
<1>5. CASE StopDrained
  <2>1. UNCHANGED <<commands, current>> /\ pc'["run"] = pc["run"] /\ Handling
    BY <1>0, <1>5 DEF StopDrained, BeginShutdown, Handling
  <2> QED BY <1>1, <2>1 DEF Handling
<1>6. CASE Complete \/ CompleteError
  <2>1. Handling /\ ~Handling' /\ pc'["run"] = pc["run"] /\ UNCHANGED current
        /\ pc["loop"] # "unstarted"
    BY <1>0, <1>6 DEF Complete, CompleteError, Fail, Handling
  <2>2. CASE UNCHANGED commands
    BY <1>1, <2>1, <2>2
  <2>3. ASSUME NEW receipt \in {"ok", "error"}, Answer(current, receipt) PROVE QueueInv'
    <3>1. receipt \in Receipts \ {"pending"}
      BY DEF Receipts
    <3> QED BY <1>0, <2>1, <2>3, <3>1, AnswerKeepsQueue
            DEF QueueInv, LeftoverNotCarriedOut, IsPending
  <2> QED BY <1>6, <2>2, <2>3 DEF Complete, CompleteError
<1> QED BY <1>2, <1>3, <1>4, <1>5, <1>6 DEF LoopStep

\* What an earlier daemon left is answered before the loop exists.
LEMMA RunKeepsQueue ==
    ASSUME Inv, QueueInv, RunStep
    PROVE  QueueInv'
<1> USE TasksAreDistinct DEF At, Goto, Persist, status, flags, durable
<1>0. TypeOK /\ DOMAIN pc = Tasks
  BY DEF Inv, TypeOK
<1>1. CASE RunAbandon
  <2>1. UNCHANGED current /\ pc["loop"] = "unstarted" /\ pc'["loop"] = "unstarted"
    BY <1>0, <1>1 DEF RunAbandon, Inv, StartsFirst
  <2>2. ASSUME NEW i \in DOMAIN commands
        PROVE  /\ commands'[i].receipt # "pending"
               /\ commands'[i].requested = commands[i].requested
    <3>1. commands[i] \in CommandRows
      BY <1>0 DEF TypeOK
    <3> QED BY <1>1, <3>1 DEF RunAbandon, CommandRows
  <2>3. DOMAIN commands' = DOMAIN commands
    BY <1>1 DEF RunAbandon
  <2> QED BY <2>1, <2>2, <2>3 DEF QueueInv, AnsweredInOrder, LeftoverNotCarriedOut, Handling,
                                  IsPending
<1>2. CASE RunAbandonThrows
  <2>1. UNCHANGED <<commands, current>> /\ pc["loop"] = "unstarted" /\ pc'["loop"] = "unstarted"
        /\ pc'["run"] = "returned"
    BY <1>0, <1>2 DEF RunAbandonThrows, Inv, StartsFirst
  <2> QED BY <2>1 DEF QueueInv, AnsweredInOrder, LeftoverNotCarriedOut, Handling, IsNext, IsPending
<1>3. CASE RunRecording
  <2>1. UNCHANGED <<commands, current>> /\ pc'["loop"] = "check" /\ pc["run"] = "persistRecording"
    BY <1>0, <1>3 DEF RunRecording
  <2> QED BY <2>1 DEF QueueInv, AnsweredInOrder, LeftoverNotCarriedOut, Handling, IsNext, IsPending
<1>4. CASE \/ RunStart \/ RunStarted \/ RunStartThrows \/ RunRecordingThrows \/ RunFailed
           \/ RunReturns \/ Exit
  <2>1. /\ UNCHANGED <<commands, current>> /\ pc'["loop"] = pc["loop"]
        /\ pc'["run"] = pc["run"] \/ pc["run"] \notin {"abandon", "returned"}
    BY <1>0, <1>4 DEF RunStart, RunStarted, RunStartThrows, RunRecordingThrows, RunFailed,
                      RunReturns, Exit
  <2> QED BY <2>1, OthersKeepQueue
<1> QED BY <1>1, <1>2, <1>3, <1>4 DEF RunStep

\* A new command goes to the end.
LEMMA EnqueueKeepsQueue ==
    ASSUME TypeOK, QueueInv, NEW kind \in Kinds, EnqueueCommand(kind)
    PROVE  QueueInv'
<1>1. /\ Len(commands) \in Nat
      /\ DOMAIN commands' = DOMAIN commands \cup {Len(commands) + 1}
      /\ DOMAIN commands = 1 .. Len(commands)
      /\ \A i \in DOMAIN commands : commands'[i] = commands[i]
      /\ commands'[Len(commands) + 1] = Command(kind, "during")
      /\ UNCHANGED <<pc, current>>
  BY DEF EnqueueCommand, TypeOK
<1>2. /\ commands'[Len(commands) + 1].requested = "during"
      /\ commands'[Len(commands) + 1].receipt = "pending"
  BY <1>1 DEF Command
<1>3. AnsweredInOrder'
  BY <1>1, <1>2 DEF QueueInv, AnsweredInOrder, IsPending
<1>4. LeftoverNotCarriedOut' /\ (current' > 0 => current' \in DOMAIN commands')
  BY <1>1, <1>2 DEF QueueInv, LeftoverNotCarriedOut, TypeOK
<1>5. Handling' => current' > 0 /\ IsNext(current)'
  <2>1. Handling' => Handling
    BY <1>1 DEF Handling
  <2> SUFFICES ASSUME Handling PROVE current' > 0 /\ IsNext(current)'
    BY <2>1
  <2>2. current > 0 /\ IsNext(current) /\ current \in DOMAIN commands
    BY DEF QueueInv
  <2> QED BY <1>1, <2>2 DEF IsNext, IsPending
<1>6. \A i \in DOMAIN commands' :
        IsPending(i)' /\ commands'[i].requested = "before" =>
            pc'["loop"] = "unstarted" /\ pc'["run"] \in {"abandon", "returned"}
  BY <1>1, <1>2 DEF QueueInv, IsPending
<1> QED BY <1>3, <1>4, <1>5, <1>6 DEF QueueInv

\* The first state satisfies it.
LEMMA InitQueue == Init => QueueInv
<1> SUFFICES ASSUME Init PROVE QueueInv
    OBVIOUS
<1>1. pc["loop"] = "unstarted" /\ pc["run"] = "abandon" /\ current = 0
  BY TasksAreDistinct, InitialPoints DEF Init
<1>2. CASE commands = <<>>
  BY <1>1, <1>2 DEF QueueInv, AnsweredInOrder, LeftoverNotCarriedOut, Handling
<1>3. ASSUME NEW kind \in Leftover, commands = <<Command(kind, "before")>> PROVE QueueInv
  BY <1>1, <1>3 DEF QueueInv, AnsweredInOrder, LeftoverNotCarriedOut, Handling
<1> QED BY <1>2, <1>3 DEF Init

\* Every step keeps it.
LEMMA NextQueue == Inv /\ QueueInv /\ [Next]_vars => QueueInv'
<1> SUFFICES ASSUME Inv, QueueInv, [Next]_vars PROVE QueueInv'
    OBVIOUS
<1>0. TypeOK /\ DOMAIN pc = Tasks
  BY DEF Inv, TypeOK
<1> USE TasksAreDistinct DEF At, Goto, Persist, status, flags, durable, Threads
<1>1. CASE RunStep \/ LoopStep
  BY <1>1, RunKeepsQueue, LoopKeepsQueue
<1>2. ASSUME NEW kind \in Kinds, EnqueueCommand(kind) PROVE QueueInv'
  BY <1>0, <1>2, EnqueueKeepsQueue
<1>3. CASE ShutdownStep \/ RequestStop
  BY <1>0, <1>3, OthersKeepQueue
     DEF ShutdownStep, ShutdownPersisted, ShutdownCallsStop, ShutdownStopReturns, CallStop,
         StopReturns, ShutdownDrained, ShutdownDone, RequestStop, BeginShutdown
<1>4. ASSUME NEW f \in Frames, Capture(f) \/ FrameStep(f) PROVE QueueInv'
  BY <1>0, <1>4, OthersKeepQueue
     DEF Capture, FrameStep, ReceiveIgnored, ReceiveDropped, ReceiveAccepted, DropPersisted,
         PipelineStores, PipelineReturns, PipelineSkips, PipelineThrows, FramePersisted,
         FramePersistThrows, FrameShutdownReturns, FrameFails, Fail
<1>5. ASSUME NEW e \in Failures, EmitFailure(e) \/ ReceiveFailure(e) PROVE QueueInv'
  BY <1>0, <1>5, OthersKeepQueue DEF EmitFailure, ReceiveFailure, Fail
<1>6. ASSUME NEW t \in Tasks, StoreWrites(t) \/ StoreThrows(t) PROVE QueueInv'
  BY <1>0, <1>6, OthersKeepQueue DEF StoreWrites, StoreThrows
<1>7. ASSUME NEW t \in Tasks, FailStep(t) PROVE QueueInv'
  <2>1. pc[t] = "failPersist" /\ t # "run" /\ UNCHANGED <<commands, current>>
    BY <1>0, <1>7, PointsOfTasks DEF FailStep, FailPersisted, FailOvertaken, TypeOK, RunPoints
  <2>2. pc'["run"] = pc["run"]
    BY <1>0, <1>7, <2>1 DEF FailStep, FailPersisted, FailOvertaken, BeginShutdown
  <2>3. pc'["loop"] = pc["loop"] \/ (pc["loop"] = "failPersist" /\ pc'["loop"] = "done")
    BY <1>0, <1>7, <2>1 DEF FailStep, FailPersisted, FailOvertaken, BeginShutdown
  <2> QED BY <2>1, <2>2, <2>3, OthersKeepQueue
          DEF QueueInv, AnsweredInOrder, LeftoverNotCarriedOut, Handling, IsNext, IsPending
<1>8. CASE SourceStarts \/ UNCHANGED vars
  BY <1>8, OthersKeepQueue DEF SourceStarts, vars
<1> QED BY <1>1, <1>2, <1>3, <1>4, <1>5, <1>6, <1>7, <1>8 DEF Next, Terminated

\* Receipts come in the order of ids.
THEOREM ReceiptsInOrder == Spec => []AnsweredInOrder
<1>1. Inv /\ QueueInv /\ [Next]_vars => QueueInv'
  BY NextQueue
<1>2. QueueInv => AnsweredInOrder
  BY DEF QueueInv
<1> QED BY <1>1, <1>2, InitQueue, Invariant, PTL DEF Spec

\* No command of an earlier daemon is carried out by this one.
THEOREM LeftoversAreAbandoned == Spec => []LeftoverNotCarriedOut
<1>1. Inv /\ QueueInv /\ [Next]_vars => QueueInv'
  BY NextQueue
<1>2. QueueInv => LeftoverNotCarriedOut
  BY DEF QueueInv
<1> QED BY <1>1, <1>2, InitQueue, Invariant, PTL DEF Spec

-----------------------------------------------------------------------------
(* What holds while nothing has thrown, failed or signalled                *)

\* Nothing is being reported as failed.
NothingFails ==
    /\ \A t \in Tasks : mail[t] # "threw" /\ pc[t] \notin {"failPersist", "failShutdown"}
    /\ pc["loop"] # "completeError"
    /\ pc["run"] # "persistFailed"
    /\ pc["run"] = "returned" => finished

\* Only the stop command shuts down, and its receipt comes after the shutdown.
StopShutsDown ==
    /\ shuttingDown =>
         /\ state \in {"stopping", "stopped"}
         /\ finalState = "stopped"
         /\ \/ pc["loop"] = "stopShutdown"
            \/ pc["loop"] \in {"complete", "check", "done"} /\ pc["shutdown"] = "done"
    /\ pc["loop"] = "stopShutdown" => shuttingDown
    /\ pc["loop"] = "done" => shuttingDown

\* The kind of the command in hand and the state that it has brought about.
HandlesItsKind ==
    /\ pc["loop"] \in {"pausePersist", "pauseStop", "pauseStopping", "pauseDrain",
                       "pausePersistAgain"} =>
         commands[current].kind = "pause" /\ state = "paused"
    /\ pc["loop"] = "resumeStart" => commands[current].kind = "resume" /\ state = "paused"
    /\ pc["loop"] = "resumePersist" => commands[current].kind = "resume" /\ state = "recording"
    /\ pc["loop"] \in {"stopPersist", "stopStop", "stopStopping", "stopDrain"} =>
         commands[current].kind = "stop" /\ state = "stopping"
    /\ pc["loop"] = "stopShutdown" => commands[current].kind = "stop"
    /\ pc["loop"] = "complete" =>
         \/ commands[current].kind = "pause" /\ state = "paused"
         \/ commands[current].kind = "resume" /\ state = "recording"
         \/ commands[current].kind = "stop" /\ shuttingDown

\* Where the state can be while the loop waits for a command.
LoopStates ==
    /\ state # "failed"
    /\ pc["loop"] = "unstarted" => state \in {"starting", "recording"} /\ current = 0
    /\ pc["loop"] # "unstarted" => state # "starting"
    /\ pc["run"] = "persistRecording" => state = "recording"
    /\ pc["loop"] \in {"check", "fetch"} /\ ~shuttingDown => state \in {"recording", "paused"}

\* Receipts are those of commands that the loop has fetched, and a standing one
\* keeps the pipeline empty.
ReceiptsHold ==
    /\ \A i \in DOMAIN commands : commands[i].receipt = "ok" => i <= current
    /\ pc["loop"] \in {"check", "fetch"} =>
         \A i \in DOMAIN commands : i <= current => ~IsPending(i)
    /\ BarrierUp => Drained /\ state # "recording"

Calm == NothingFails /\ StopShutsDown /\ HandlesItsKind /\ LoopStates /\ ReceiptsHold

BarrierInv == Undisturbed => Calm

\* Whether a receipt stands is a matter of the commands fetched.
LEMMA SameReceipts == UNCHANGED <<commands, current>> => (BarrierUp' <=> BarrierUp)
BY DEF BarrierUp, LiftedAfter

\* A disturbance stays.
LEMMA UndisturbedBefore ==
    ASSUME TypeOK, [Next]_vars, Undisturbed'
    PROVE  Undisturbed
<1> USE TasksAreDistinct DEF At, Goto, Persist, status, flags, durable, Threads, Fault
<1>0. DOMAIN pc = Tasks /\ faults \in Nat
  BY BoundsAssumption DEF TypeOK
<1>1. faults' = 0 => faults = 0
  <2>1. faults' = faults \/ faults' = faults + 1
    BY DEF Next, Terminated, vars, RunStep, RunAbandon, RunAbandonThrows, RunStart, RunStarted,
       RunStartThrows, RunRecording, RunRecordingThrows, RunFailed, RunReturns, Exit,
       LoopStep, LoopCheck, LoopIdle, LoopFetchThrows, BeginCommand, BeginPause, BeginResume,
       BeginStop, BeginNoop, Fetched, LoopPersisted, LoopCallsStop, LoopStopReturns,
       LoopStopThrows, CallStop, StopReturns, PauseDrained, ResumeStarted, ResumeStartThrows,
       StopDrained, StopShutdownReturns, Complete, CompleteThrows, CompleteError,
       ShutdownStep, ShutdownPersisted, ShutdownCallsStop, ShutdownStopReturns,
       ShutdownDrained, ShutdownDone, RequestStop, SourceStarts, StoreWrites, StoreThrows,
       FailStep, FailPersisted, FailOvertaken, Capture, FrameStep, ReceiveIgnored,
       ReceiveDropped, ReceiveAccepted, DropPersisted, PipelineStores, PipelineReturns,
       PipelineSkips, PipelineThrows, FramePersisted, FramePersistThrows,
       FrameShutdownReturns, FrameFails, EmitFailure, ReceiveFailure, EnqueueCommand
  <2> QED BY <1>0, <2>1
<1>2. ASSUME NEW e \in Failures, pc'[e] \in {"unsent", "queued"}
      PROVE  pc[e] \in {"unsent", "queued"}
  <2>1. ASSUME pc'[e] = pc[e] PROVE pc[e] \in {"unsent", "queued"}
    BY <1>2, <2>1
  <2>2. CASE RunStep
    BY <1>0, <2>1, <2>2
       DEF RunStep, RunAbandon, RunAbandonThrows, RunStart, RunStarted, RunStartThrows,
           RunRecording, RunRecordingThrows, RunFailed, RunReturns, Exit
  <2>3. CASE LoopStep
    BY <1>0, <2>1, <2>3
       DEF LoopStep, LoopCheck, LoopIdle, LoopFetchThrows, BeginCommand, BeginPause,
           BeginResume, BeginStop, BeginNoop, Fetched, LoopPersisted, LoopCallsStop,
           LoopStopReturns, LoopStopThrows, CallStop, StopReturns, PauseDrained,
           ResumeStarted, ResumeStartThrows, StopDrained, StopShutdownReturns, Complete,
           CompleteThrows, CompleteError, Fail, BeginShutdown
  <2>4. CASE ShutdownStep \/ RequestStop
    BY <1>0, <2>1, <2>4
       DEF ShutdownStep, ShutdownPersisted, ShutdownCallsStop, ShutdownStopReturns, CallStop,
           StopReturns, ShutdownDrained, ShutdownDone, RequestStop, BeginShutdown
  <2>5. ASSUME NEW f \in Frames, Capture(f) \/ FrameStep(f)
        PROVE  pc[e] \in {"unsent", "queued"}
    BY <1>0, <2>1, <2>5
       DEF Capture, FrameStep, ReceiveIgnored, ReceiveDropped, ReceiveAccepted, DropPersisted,
           PipelineStores, PipelineReturns, PipelineSkips, PipelineThrows, FramePersisted,
           FramePersistThrows, FrameShutdownReturns, FrameFails, Fail
  <2>6. ASSUME NEW d \in Failures, EmitFailure(d) \/ ReceiveFailure(d)
        PROVE  pc[e] \in {"unsent", "queued"}
    BY <1>0, <2>1, <2>6 DEF EmitFailure, ReceiveFailure, Fail
  <2>7. ASSUME NEW t \in Tasks, FailStep(t) PROVE pc[e] \in {"unsent", "queued"}
    <3>1. t = e => pc'[e] = "done"
      BY <1>0, <2>7 DEF FailStep, FailPersisted, FailOvertaken, BeginShutdown
    <3>2. t # e => pc'[e] = pc[e]
      BY <1>0, <2>7 DEF FailStep, FailPersisted, FailOvertaken, BeginShutdown
    <3> QED BY <1>2, <2>1, <3>1, <3>2
  <2>8. CASE \/ SourceStarts \/ UNCHANGED vars
             \/ \E t \in Tasks : StoreWrites(t) \/ StoreThrows(t)
             \/ \E kind \in Kinds : EnqueueCommand(kind)
    BY <2>1, <2>8 DEF SourceStarts, vars, StoreWrites, StoreThrows, EnqueueCommand
  <2> QED BY <2>2, <2>3, <2>4, <2>5, <2>6, <2>7, <2>8 DEF Next, Terminated
<1> QED BY <1>1, <1>2 DEF Undisturbed

\* A frame's task changes nothing of it: it is taken only while no receipt stands.
LEMMA FrameKeepsCalm ==
    ASSUME Inv, Inv', Undisturbed', Calm, faults = 0, NEW f \in Frames, Capture(f) \/ FrameStep(f)
    PROVE  Calm'
<1> USE TasksAreDistinct DEF At, Goto, Persist, status, flags, durable, Threads
<1>0. DOMAIN pc = Tasks /\ DOMAIN mail = Tasks
  BY DEF Inv, TypeOK
<1>1. ~PipelineThrows(f) /\ ~FramePersistThrows(f) /\ ~FrameShutdownReturns(f)
  BY DEF PipelineThrows, Fault, Undisturbed, FramePersistThrows, FrameShutdownReturns, Threw,
         Calm, NothingFails
<1>2. /\ UNCHANGED <<state, sourceRunning, shuttingDown, finished, finalState, commands, current>>
      /\ \A t \in Tasks \ {f} : pc'[t] = pc[t] /\ mail'[t] = mail[t]
      /\ pc'[f] \notin {"failPersist", "failShutdown"}
      /\ mail'[f] \in {mail[f], state}
  BY <1>0, <1>1 DEF Capture, FrameStep, ReceiveIgnored, ReceiveDropped, ReceiveAccepted,
     DropPersisted, PipelineStores, PipelineReturns, PipelineSkips, FramePersisted
<1>3. pc'["run"] = pc["run"] /\ pc'["loop"] = pc["loop"] /\ pc'["shutdown"] = pc["shutdown"]
  BY <1>2
<1>4. state # "threw"
  BY DEF Inv, TypeOK, States
<1>5. BarrierUp' => Drained'
  <2> SUFFICES ASSUME BarrierUp PROVE Drained'
    BY <1>2, SameReceipts
  <2>1. Drained /\ state # "recording"
    BY DEF Calm, ReceiptsHold
  <2>2. ~ReceiveAccepted(f) /\ ~InFlight(f)
    BY <2>1 DEF ReceiveAccepted, Accepting, Drained
  <2>3. ~InFlight(f)'
    BY <1>0, <1>1, <2>2 DEF Capture, FrameStep, ReceiveIgnored, ReceiveDropped, DropPersisted,
       PipelineStores, PipelineReturns, PipelineSkips, FramePersisted, InFlight
  <2> QED BY <1>2, <2>1, <2>3, TasksAreDistinct DEF Drained, InFlight
<1>6. NothingFails' /\ StopShutsDown' /\ HandlesItsKind' /\ LoopStates'
  BY <1>2, <1>3, <1>4 DEF Calm, NothingFails, StopShutsDown, HandlesItsKind, LoopStates
<1>7. ReceiptsHold'
  BY <1>2, <1>3, <1>5, SameReceipts DEF Calm, ReceiptsHold, IsPending
<1> QED BY <1>6, <1>7 DEF Calm

\* The steps of shutdown() keep it: it is the stop command's.
LEMMA ShutdownKeepsCalm ==
    ASSUME Inv, Inv', Undisturbed', Calm, ShutdownStep
    PROVE  Calm'
<1> USE TasksAreDistinct DEF At, Goto, Persist, status, flags, durable, Threads
<1>0. DOMAIN pc = Tasks /\ DOMAIN mail = Tasks
  BY DEF Inv, TypeOK
<1>1. /\ UNCHANGED <<shuttingDown, finalState, commands, current>>
      /\ \A t \in Tasks \ {"shutdown"} : pc'[t] = pc[t] /\ mail'[t] = mail[t]
      /\ pc["shutdown"] \notin {"idle", "done"} /\ pc'["shutdown"] \notin {"failPersist", "failShutdown"}
      /\ finished => finished'
      /\ \/ UNCHANGED state /\ mail'["shutdown"] = mail["shutdown"]
         \/ state' = finalState /\ mail'["shutdown"] = finalState
  BY <1>0 DEF ShutdownStep, ShutdownPersisted, ShutdownCallsStop, ShutdownStopReturns, CallStop,
     StopReturns, ShutdownDrained, ShutdownDone
<1>2. shuttingDown /\ pc["loop"] = "stopShutdown" /\ finalState = "stopped"
      /\ state \in {"stopping", "stopped"} /\ state' \in {"stopping", "stopped"}
  BY <1>1 DEF Inv, ShutdownOnce, Calm, StopShutsDown
<1>3. pc'["run"] = pc["run"] /\ pc'["loop"] = pc["loop"]
  BY <1>1
<1>4. Drained' <=> Drained
  BY <1>1 DEF Drained, InFlight
<1>5. NothingFails'
  BY <1>1, <1>2, <1>3 DEF Calm, NothingFails
<1>6. StopShutsDown' /\ HandlesItsKind'
  BY <1>1, <1>2, <1>3 DEF Calm, StopShutsDown, HandlesItsKind
<1>7. LoopStates'
  BY <1>1, <1>2, <1>3 DEF Calm, LoopStates, Inv, StartsFirst
<1>8. ReceiptsHold'
  BY <1>1, <1>2, <1>3, <1>4, SameReceipts DEF Calm, ReceiptsHold, IsPending
<1> QED BY <1>5, <1>6, <1>7, <1>8 DEF Calm

\* The steps of run() keep it.
LEMMA RunKeepsCalm ==
    ASSUME Inv, Inv', Undisturbed', Calm, faults = 0, RunStep
    PROVE  Calm'
<1> USE TasksAreDistinct DEF At, Goto, Persist, status, flags, durable, Threads
<1>0. DOMAIN pc = Tasks /\ DOMAIN mail = Tasks
  BY DEF Inv, TypeOK
<1>1. ~RunAbandonThrows /\ ~RunStartThrows /\ ~RunRecordingThrows /\ ~RunFailed
  BY DEF RunAbandonThrows, RunStartThrows, Fault, Undisturbed, RunRecordingThrows, Threw,
         RunFailed, Calm, NothingFails
<1>2. /\ UNCHANGED <<shuttingDown, finished, finalState, current>>
      /\ \A t \in Tasks \ {"run", "loop"} : pc'[t] = pc[t] /\ mail'[t] = mail[t]
      /\ mail'["loop"] = mail["loop"] /\ mail'["run"] \in {mail["run"], state, "recording"}
  BY <1>0, <1>1 DEF RunStep, RunAbandon, RunStart, RunStarted, RunRecording, RunReturns, Exit
<1>3. Drained' <=> Drained
  BY <1>2 DEF Drained, InFlight
<1>4. state # "threw" /\ state # "failed"
  BY DEF Inv, TypeOK, States, Calm, LoopStates
<1>5. CASE RunAbandon
  <2>1. UNCHANGED state /\ pc'["run"] = "persistStarting" /\ pc'["loop"] = pc["loop"]
        /\ pc["loop"] = "unstarted"
    BY <1>0, <1>5 DEF RunAbandon, Inv, StartsFirst
  <2>2. DOMAIN commands' = DOMAIN commands
        /\ \A i \in DOMAIN commands : commands'[i].kind = commands[i].kind
             /\ (commands'[i].receipt = "ok" => commands[i].receipt = "ok")
    <3>1. \A i \in DOMAIN commands : commands[i] \in CommandRows
      BY DEF Inv, TypeOK
    <3> QED BY <1>5, <3>1 DEF RunAbandon, CommandRows
  <2>3. BarrierUp' => BarrierUp
    BY <1>2, <2>2 DEF BarrierUp, LiftedAfter
  <2>4. NothingFails' /\ StopShutsDown' /\ LoopStates'
    BY <1>2, <1>4, <2>1 DEF Calm, NothingFails, StopShutsDown, LoopStates
  <2>5. HandlesItsKind'
    BY <2>1 DEF HandlesItsKind
  <2>6. ReceiptsHold'
    BY <1>2, <1>3, <2>1, <2>2, <2>3 DEF Calm, ReceiptsHold
  <2> QED BY <2>4, <2>5, <2>6 DEF Calm
<1>6. CASE RunStart \/ RunReturns \/ Exit
  <2>1. /\ UNCHANGED <<state, commands>> /\ pc'["loop"] = pc["loop"]
        /\ pc'["run"] # "persistFailed"
        /\ pc'["run"] = "persistRecording" => pc["run"] = "persistRecording"
        /\ pc'["run"] = "returned" => pc["run"] = "returned" \/ finished
        /\ pc'["run"] \notin {"failPersist", "failShutdown"}
    <3>1. Threw("run") = FALSE
      BY DEF Threw, Calm, NothingFails
    <3> QED BY <1>0, <1>6, <3>1
            DEF RunStart, RunReturns, Exit, Returned, Calm, NothingFails, Inv, TypeOK
  <2>2. NothingFails' /\ StopShutsDown' /\ LoopStates' /\ HandlesItsKind'
    BY <1>2, <1>4, <2>1 DEF Calm, NothingFails, StopShutsDown, LoopStates, HandlesItsKind
  <2>3. ReceiptsHold'
    BY <1>2, <1>3, <2>1, SameReceipts DEF Calm, ReceiptsHold, IsPending
  <2> QED BY <2>2, <2>3 DEF Calm
<1>7. CASE RunStarted
  <2>1. /\ state' = "recording" /\ UNCHANGED commands /\ pc'["loop"] = pc["loop"]
        /\ pc["loop"] = "unstarted" /\ pc'["run"] = "persistRecording"
    BY <1>0, <1>7 DEF RunStarted, Inv, StartsFirst
  <2>2. ~BarrierUp
    BY <2>1 DEF BarrierUp, Calm, ReceiptsHold, LoopStates, Inv, TypeOK
  <2>3. NothingFails' /\ StopShutsDown' /\ LoopStates'
    BY <1>2, <2>1 DEF Calm, NothingFails, StopShutsDown, LoopStates
  <2>4. HandlesItsKind'
    BY <2>1 DEF HandlesItsKind
  <2>5. ReceiptsHold'
    BY <1>2, <2>1, <2>2, SameReceipts DEF Calm, ReceiptsHold
  <2> QED BY <2>3, <2>4, <2>5 DEF Calm
<1>8. CASE RunRecording
  <2>1. /\ UNCHANGED <<state, commands>> /\ pc["loop"] = "unstarted" /\ pc'["loop"] = "check"
        /\ pc["run"] = "persistRecording" /\ pc'["run"] = "await" /\ ~shuttingDown
        /\ state = "recording" /\ current = 0
    BY <1>0, <1>8 DEF RunRecording, Inv, StartsFirst, Calm, LoopStates, StopShutsDown
  <2>2. NothingFails' /\ StopShutsDown' /\ LoopStates'
    BY <1>2, <2>1 DEF Calm, NothingFails, StopShutsDown, LoopStates
  <2>3. HandlesItsKind'
    BY <2>1 DEF HandlesItsKind
  <2>4. ReceiptsHold'
    BY <1>2, <1>3, <2>1, SameReceipts DEF Calm, ReceiptsHold, Inv, TypeOK
  <2> QED BY <2>2, <2>3, <2>4 DEF Calm
<1> QED BY <1>1, <1>5, <1>6, <1>7, <1>8 DEF RunStep

\* A new command stands at the end, without a receipt.
LEMMA EnqueueKeepsCalm ==
    ASSUME Inv, QueueInv, Calm, NEW kind \in Kinds, EnqueueCommand(kind)
    PROVE  Calm'
<1>1. /\ Len(commands) \in Nat /\ current <= Len(commands) /\ current \in Nat
      /\ DOMAIN commands' = DOMAIN commands \cup {Len(commands) + 1}
      /\ DOMAIN commands = 1 .. Len(commands)
      /\ \A i \in DOMAIN commands : commands'[i] = commands[i]
      /\ commands'[Len(commands) + 1] = Command(kind, "during")
      /\ UNCHANGED <<status, flags, pc, current>>
  BY DEF EnqueueCommand, Inv, TypeOK
<1>2. commands'[Len(commands) + 1].receipt = "pending"
  BY <1>1 DEF Command
<1>3. BarrierUp' => BarrierUp
  BY <1>1, <1>2 DEF BarrierUp, LiftedAfter
<1>4. NothingFails' /\ StopShutsDown' /\ LoopStates'
  BY <1>1 DEF Calm, NothingFails, StopShutsDown, LoopStates, status, flags
<1>5. HandlesItsKind'
  <2>1. Handling => commands'[current] = commands[current]
    BY <1>1 DEF QueueInv
  <2> QED BY <1>1, <2>1 DEF Calm, HandlesItsKind, Handling, status, flags
<1>6. ReceiptsHold'
  BY <1>1, <1>2, <1>3 DEF Calm, ReceiptsHold, Drained, InFlight, status, IsPending
<1> QED BY <1>4, <1>5, <1>6 DEF Calm

\* The steps of commandLoop() and process(_:) that touch no row and fetch nothing.
LEMMA LoopWalks ==
    ASSUME Inv, Inv', Undisturbed', Calm, faults = 0,
           UNCHANGED <<shuttingDown, finished, finalState, commands, current>>,
           \A t \in Tasks \ {"loop"} : pc'[t] = pc[t] /\ mail'[t] = mail[t],
           pc'["loop"] \notin {"failPersist", "completeError", "unstarted"},
           pc["loop"] # "unstarted", mail'["loop"] # "threw", state' # "threw",
           BarrierUp => state' # "recording",
           pc'["loop"] \in {"check", "fetch"} => pc["loop"] \in {"check", "fetch"},
           StopShutsDown', HandlesItsKind', LoopStates'
    PROVE  Calm'
<1>1. Drained' <=> Drained
  BY TasksAreDistinct DEF Drained, InFlight, Threads
<1>2. pc'["run"] = pc["run"]
  BY TasksAreDistinct
<1>3. pc'["loop"] # "failShutdown"
  BY PointsOfTasks, TasksAreDistinct DEF Inv, TypeOK, LoopPoints
<1>4. NothingFails'
  BY <1>2, <1>3 DEF Calm, NothingFails
<1>5. ReceiptsHold'
  BY <1>1, SameReceipts DEF Calm, ReceiptsHold, IsPending
<1> QED BY <1>4, <1>5 DEF Calm

\* While it waits, stops or persists, the loop keeps it.
LEMMA WaitingKeepsCalm ==
    ASSUME Inv, Inv', Undisturbed', Calm, faults = 0,
           \/ LoopCheck \/ LoopIdle \/ LoopPersisted \/ LoopCallsStop \/ LoopStopReturns
           \/ PauseDrained \/ StopShutdownReturns
    PROVE  Calm'
<1> USE TasksAreDistinct DEF At, Goto, Persist, status, flags, durable, Threads
<1>0. DOMAIN pc = Tasks /\ DOMAIN mail = Tasks
  BY DEF Inv, TypeOK
<1>1. state # "threw" /\ ~Threw("loop")
  BY DEF Inv, TypeOK, States, Calm, NothingFails, Threw
<1>2. /\ UNCHANGED <<state, shuttingDown, finished, finalState, commands, current>>
      /\ \A t \in Tasks \ {"loop"} : pc'[t] = pc[t] /\ mail'[t] = mail[t]
      /\ mail'["loop"] \in {mail["loop"], state}
  BY <1>0 DEF LoopCheck, LoopIdle, LoopPersisted, LoopCallsStop, LoopStopReturns, CallStop,
              StopReturns, PauseDrained, StopShutdownReturns
<1>3. pc'["run"] = pc["run"] /\ pc'["shutdown"] = pc["shutdown"]
  BY <1>2
<1>4. BarrierUp => state' # "recording"
  BY <1>2 DEF Calm, ReceiptsHold
<1>5. CASE LoopCheck
  <2>1. pc["loop"] = "check" /\ pc'["loop"] = IF shuttingDown THEN "done" ELSE "fetch"
    BY <1>0, <1>5 DEF LoopCheck
  <2>2. StopShutsDown' /\ HandlesItsKind' /\ LoopStates'
    BY <1>2, <1>3, <2>1 DEF Calm, StopShutsDown, HandlesItsKind, LoopStates
  <2> QED BY <1>1, <1>2, <1>4, <2>1, <2>2, LoopWalks DEF Calm, NothingFails
<1>6. CASE LoopIdle
  <2>1. pc["loop"] = "fetch" /\ pc'["loop"] = "check"
    BY <1>0, <1>6 DEF LoopIdle
  <2>2. StopShutsDown' /\ HandlesItsKind' /\ LoopStates'
    BY <1>2, <1>3, <2>1 DEF Calm, StopShutsDown, HandlesItsKind, LoopStates
  <2> QED BY <1>1, <1>2, <1>4, <2>1, <2>2, LoopWalks DEF Calm, NothingFails
<1>7. CASE LoopPersisted
  <2>1. Written("loop")
    BY <1>1, <1>7 DEF LoopPersisted, Returned
  <2>2. \/ pc["loop"] = "pausePersist" /\ pc'["loop"] = "pauseStop"
        \/ pc["loop"] \in {"pausePersistAgain", "resumePersist"} /\ pc'["loop"] = "complete"
        \/ pc["loop"] = "stopPersist" /\ pc'["loop"] = "stopStop"
    BY <1>0, <1>7, <2>1 DEF LoopPersisted, AfterPersist
  <2>3. StopShutsDown' /\ HandlesItsKind' /\ LoopStates'
    BY <1>2, <1>3, <2>2 DEF Calm, StopShutsDown, HandlesItsKind, LoopStates
  <2> QED BY <1>1, <1>2, <1>4, <2>2, <2>3, LoopWalks DEF Calm, NothingFails
<1>8. CASE LoopCallsStop \/ LoopStopReturns \/ PauseDrained
  <2>1. \/ /\ pc["loop"] \in {"pauseStop", "pauseStopping", "pauseDrain"}
           /\ pc'["loop"] \in {"pauseStopping", "pauseDrain", "pausePersistAgain"}
        \/ /\ pc["loop"] \in {"stopStop", "stopStopping"}
           /\ pc'["loop"] \in {"stopStopping", "stopDrain"}
    BY <1>0, <1>8 DEF LoopCallsStop, LoopStopReturns, CallStop, StopReturns, PauseDrained
  <2>2. StopShutsDown' /\ HandlesItsKind' /\ LoopStates'
    BY <1>2, <1>3, <2>1 DEF Calm, StopShutsDown, HandlesItsKind, LoopStates
  <2> QED BY <1>1, <1>2, <1>4, <2>1, <2>2, LoopWalks DEF Calm, NothingFails
<1>9. CASE StopShutdownReturns
  <2>1. pc["loop"] = "stopShutdown" /\ pc["shutdown"] = "done" /\ pc'["loop"] = "complete"
    BY <1>0, <1>9 DEF StopShutdownReturns
  <2>2. StopShutsDown' /\ HandlesItsKind' /\ LoopStates'
    BY <1>2, <1>3, <2>1 DEF Calm, StopShutsDown, HandlesItsKind, LoopStates
  <2> QED BY <1>1, <1>2, <1>4, <2>1, <2>2, LoopWalks DEF Calm, NothingFails
<1> QED BY <1>5, <1>6, <1>7, <1>8, <1>9

\* A fetched command is later than every receipt; a resume lifts them.
LEMMA FetchKeepsCalm ==
    ASSUME Inv, Inv', QueueInv, Undisturbed', Calm, faults = 0,
           NEW i \in DOMAIN commands, BeginCommand(i)
    PROVE  Calm'
<1> USE TasksAreDistinct DEF At, Goto, Persist, status, flags, durable, Threads
<1>0. DOMAIN pc = Tasks /\ DOMAIN mail = Tasks /\ state # "threw"
      /\ current \in Nat /\ i \in Nat /\ DOMAIN commands \subseteq Nat
  BY DEF Inv, TypeOK, States
<1>1. /\ UNCHANGED <<shuttingDown, finished, finalState, commands>> /\ current' = i
      /\ \A t \in Tasks \ {"loop"} : pc'[t] = pc[t] /\ mail'[t] = mail[t]
      /\ pc["loop"] = "fetch" /\ IsNext(i) /\ ~shuttingDown
      /\ pc'["loop"] \in {"pausePersist", "resumeStart", "stopPersist", "complete"}
      /\ mail'["loop"] \in {mail["loop"], "paused", "stopping"}
  BY <1>0 DEF BeginCommand, BeginPause, BeginResume, BeginStop, BeginNoop, Fetched, Calm,
              StopShutsDown
<1>2. pc'["run"] = pc["run"] /\ pc'["shutdown"] = pc["shutdown"]
  BY <1>1
<1>3. state \in {"recording", "paused"}
  BY <1>1 DEF Calm, LoopStates
<1>4. \/ pc'["loop"] = "pausePersist" /\ commands[i].kind = "pause" /\ state' = "paused"
      \/ pc'["loop"] = "resumeStart" /\ commands[i].kind = "resume" /\ state' = "paused"
      \/ pc'["loop"] = "stopPersist" /\ commands[i].kind = "stop" /\ state' = "stopping"
      \/ pc'["loop"] = "complete" /\ commands[i].kind = "pause" /\ state' = "paused"
      \/ pc'["loop"] = "complete" /\ commands[i].kind = "resume" /\ state' = "recording"
         /\ state = "recording"
  BY <1>0, <1>3 DEF BeginCommand, BeginPause, BeginResume, BeginStop, BeginNoop, Fetched
<1>5. current < i
  BY <1>0, <1>1 DEF Calm, ReceiptsHold, IsNext
<1>6. BarrierUp' => BarrierUp
  BY <1>0, <1>1, <1>5 DEF BarrierUp, LiftedAfter
<1>7. BarrierUp' => state' # "recording" /\ Drained'
  <2>1. Drained' <=> Drained
    BY <1>1 DEF Drained, InFlight
  <2> QED BY <1>4, <1>6, <2>1 DEF Calm, ReceiptsHold
<1>8. NothingFails'
  <2>1. pc'["loop"] \notin {"failPersist", "failShutdown", "completeError"}
    BY <1>1
  <2>2. mail'["loop"] # "threw"
    BY <1>0, <1>1 DEF Calm, NothingFails
  <2> QED BY <1>1, <1>2, <2>1, <2>2 DEF Calm, NothingFails
<1>9. StopShutsDown' /\ HandlesItsKind'
  BY <1>1, <1>2, <1>4 DEF StopShutsDown, HandlesItsKind
<1>10. LoopStates'
  BY <1>1, <1>2, <1>4 DEF Calm, LoopStates, Inv, StartsFirst
<1>11. ReceiptsHold'
  BY <1>0, <1>1, <1>5, <1>7 DEF Calm, ReceiptsHold
<1> QED BY <1>8, <1>9, <1>10, <1>11 DEF Calm

\* A resume sets the state to recording only once its own fetch has lifted every
\* receipt; a stop shuts down once it has drained.
LEMMA ResumeAndStopKeepCalm ==
    ASSUME Inv, Inv', QueueInv, Undisturbed', Calm, faults = 0, ResumeStarted \/ StopDrained
    PROVE  Calm'
<1> USE TasksAreDistinct DEF At, Goto, Persist, status, flags, durable, Threads
<1>0. DOMAIN pc = Tasks /\ DOMAIN mail = Tasks /\ current \in Nat /\ DOMAIN commands \subseteq Nat
  BY DEF Inv, TypeOK
<1>1. CASE ResumeStarted
  <2>1. /\ UNCHANGED <<shuttingDown, finished, finalState, commands, current>>
        /\ \A t \in Tasks \ {"loop"} : pc'[t] = pc[t] /\ mail'[t] = mail[t]
        /\ pc["loop"] = "resumeStart" /\ pc'["loop"] = "resumePersist"
        /\ mail'["loop"] = "recording" /\ state' = "recording" /\ ~shuttingDown
    BY <1>0, <1>1 DEF ResumeStarted, Calm, StopShutsDown
  <2>2. commands[current].kind = "resume" /\ current \in DOMAIN commands
    BY <2>1 DEF Calm, HandlesItsKind, QueueInv, Handling
  <2>3. ~BarrierUp
    <3> SUFFICES ASSUME NEW i \in DOMAIN commands, commands[i].kind \in {"pause", "stop"},
                        commands[i].receipt = "ok"
                 PROVE  LiftedAfter(i)
      BY DEF BarrierUp
    <3>1. i <= current /\ i # current
      BY <2>2 DEF Calm, ReceiptsHold
    <3> QED BY <1>0, <2>2, <3>1 DEF LiftedAfter
  <2>4. pc'["run"] = pc["run"] /\ pc'["shutdown"] = pc["shutdown"]
    BY <2>1
  <2>5. StopShutsDown' /\ HandlesItsKind' /\ LoopStates'
    BY <2>1, <2>2, <2>4 DEF Calm, StopShutsDown, HandlesItsKind, LoopStates, Inv, StartsFirst
  <2> QED BY <2>1, <2>3, <2>5, LoopWalks
<1>2. CASE StopDrained
  <2>1. ~shuttingDown /\ pc["loop"] = "stopDrain" /\ commands[current].kind = "stop"
    BY <1>2 DEF StopDrained, Calm, StopShutsDown, HandlesItsKind
  <2>2. /\ UNCHANGED <<finished, commands, current>>
        /\ shuttingDown' /\ finalState' = "stopped" /\ state' = "stopping"
        /\ mail' = [mail EXCEPT !["shutdown"] = "stopping"]
        /\ pc' = [pc EXCEPT !["loop"] = "stopShutdown", !["shutdown"] = "persistStopping"]
    BY <1>2, <2>1 DEF StopDrained, BeginShutdown
  <2>3. NothingFails'
    BY <1>0, <2>2 DEF Calm, NothingFails
  <2>4. StopShutsDown' /\ HandlesItsKind' /\ LoopStates'
    BY <1>0, <2>1, <2>2 DEF Calm, StopShutsDown, HandlesItsKind, LoopStates, Inv, StartsFirst
  <2>5. Drained' <=> Drained
    BY <1>0, <2>2 DEF Drained, InFlight
  <2>6. ReceiptsHold'
    BY <1>0, <2>1, <2>2, <2>5, SameReceipts DEF Calm, ReceiptsHold
  <2> QED BY <2>3, <2>4, <2>6 DEF Calm
<1> QED BY <1>1, <1>2

\* A receipt for a pause or a stop comes when the daemon has gone quiet.
LEMMA CompleteKeepsCalm ==
    ASSUME Inv, Inv', QueueInv, Undisturbed', Calm, faults = 0, Complete
    PROVE  Calm'
<1> USE TasksAreDistinct DEF At, Goto, Persist, status, flags, durable, Threads
<1>0. DOMAIN pc = Tasks /\ DOMAIN mail = Tasks /\ current \in Nat /\ DOMAIN commands \subseteq Nat
  BY DEF Inv, TypeOK
<1>1. /\ UNCHANGED <<state, mail, shuttingDown, finished, finalState, current>>
      /\ pc["loop"] = "complete" /\ pc' = [pc EXCEPT !["loop"] = "check"]
  BY <1>0 DEF Complete
<1>2. IsNext(current) /\ current \in DOMAIN commands /\ commands[current] \in CommandRows
  BY <1>1 DEF QueueInv, Handling, Inv, TypeOK
<1>3. /\ DOMAIN commands' = DOMAIN commands
      /\ \A i \in DOMAIN commands : commands'[i].kind = commands[i].kind
      /\ \A i \in DOMAIN commands \ {current} : commands'[i] = commands[i]
      /\ commands'[current].receipt = "ok"
  BY <1>2 DEF Complete, Answer, CommandRows
<1>4. \/ commands[current].kind = "pause" /\ state = "paused"
      \/ commands[current].kind = "resume" /\ state = "recording"
      \/ commands[current].kind = "stop" /\ shuttingDown
  BY <1>1 DEF Calm, HandlesItsKind
<1>5. commands[current].kind = "pause" => Drained /\ state # "recording"
  BY <1>1, <1>4 DEF Inv, PauseSettled, Pausing
<1>6. commands[current].kind = "stop" => Drained /\ state # "recording"
  BY <1>1, <1>4 DEF Calm, StopShutsDown, Inv, FinalStatus, Final
<1>7. BarrierUp' => BarrierUp \/ commands[current].kind \in {"pause", "stop"}
  BY <1>1, <1>3 DEF BarrierUp, LiftedAfter
<1>8. Drained' <=> Drained
  BY <1>0, <1>1 DEF Drained, InFlight
<1>9. NothingFails'
  BY <1>0, <1>1 DEF Calm, NothingFails
<1>10. StopShutsDown'
  BY <1>0, <1>1 DEF Calm, StopShutsDown
<1>11. HandlesItsKind' /\ LoopStates'
  <2>1. pc'["loop"] = "check" /\ pc'["run"] = pc["run"]
    BY <1>0, <1>1
  <2>2. HandlesItsKind'
    BY <2>1 DEF HandlesItsKind
  <2> QED BY <1>1, <1>4, <2>1, <2>2 DEF Calm, LoopStates
<1>12. ReceiptsHold'
  <2>1. ASSUME NEW i \in DOMAIN commands, i <= current PROVE commands'[i].receipt # "pending"
    BY <1>0, <1>2, <1>3, <2>1 DEF IsNext, IsPending
  <2>2. BarrierUp' => Drained' /\ state' # "recording"
    BY <1>1, <1>5, <1>6, <1>7, <1>8 DEF Calm, ReceiptsHold
  <2> QED BY <1>0, <1>1, <1>3, <2>1, <2>2 DEF Calm, ReceiptsHold, IsPending
<1> QED BY <1>9, <1>10, <1>11, <1>12 DEF Calm

\* Nothing is disturbed in the first state, and no receipt stands.
LEMMA InitBarrier == Init => BarrierInv
<1> SUFFICES ASSUME Init PROVE Calm
    BY DEF BarrierInv
<1>1. /\ pc["run"] = "abandon" /\ pc["loop"] = "unstarted" /\ pc["shutdown"] = "idle"
      /\ \A t \in Tasks : pc[t] \notin {"failPersist", "failShutdown"} /\ mail[t] = "none"
      /\ \A f \in Frames : pc[f] = "uncaptured"
  BY TasksAreDistinct, InitialPoints DEF Init, InitialPoint
<1>2. \A i \in DOMAIN commands : commands[i].receipt = "pending"
  BY DEF Init, Command
<1>3. ~BarrierUp
  BY <1>2 DEF BarrierUp
<1>4. NothingFails /\ StopShutsDown /\ HandlesItsKind /\ LoopStates
  BY <1>1 DEF Init, NothingFails, StopShutsDown, HandlesItsKind, LoopStates
<1>5. ReceiptsHold
  BY <1>1, <1>2, <1>3 DEF ReceiptsHold
<1> QED BY <1>4, <1>5 DEF Calm

\* Every step keeps the barrier, or disturbs.
LEMMA NextBarrier == Inv /\ Inv' /\ QueueInv /\ BarrierInv /\ [Next]_vars => BarrierInv'
<1> SUFFICES ASSUME Inv, Inv', QueueInv, BarrierInv, [Next]_vars, Undisturbed'
             PROVE  Calm'
    BY DEF BarrierInv
<1>0. TypeOK /\ Undisturbed /\ Calm /\ faults = 0 /\ faults' = 0 /\ ~CanSignal
  BY UndisturbedBefore DEF Inv, Undisturbed, BarrierInv
<1> USE DEF At, Goto, Persist, status, flags, durable
<1>1. ~Fault
  BY <1>0 DEF Fault
<1>2. CASE RunStep \/ ShutdownStep
  BY <1>0, <1>2, RunKeepsCalm, ShutdownKeepsCalm
<1>3. CASE LoopStep
  <2>1. ~LoopFetchThrows /\ ~LoopStopThrows /\ ~ResumeStartThrows /\ ~CompleteThrows
        /\ ~CompleteError
    BY <1>0, <1>1 DEF LoopFetchThrows, LoopStopThrows, ResumeStartThrows, CompleteThrows,
                      CompleteError, Calm, NothingFails
  <2> QED BY <1>0, <1>3, <2>1, WaitingKeepsCalm, FetchKeepsCalm, ResumeAndStopKeepCalm,
             CompleteKeepsCalm DEF LoopStep
<1>4. ASSUME NEW f \in Frames, Capture(f) \/ FrameStep(f) PROVE Calm'
  BY <1>0, <1>4, FrameKeepsCalm
<1>5. ASSUME NEW e \in Failures, EmitFailure(e) \/ ReceiveFailure(e) PROVE Calm'
  <2> USE TasksAreDistinct
  <2>0. DOMAIN pc = Tasks
    BY <1>0 DEF TypeOK
  <2>1. ~ReceiveFailure(e)
    <3>1. pc'[e] \in {"unsent", "queued"}
      BY DEF Undisturbed
    <3> QED BY <2>0, <3>1 DEF ReceiveFailure, Fail
  <2>2. /\ UNCHANGED <<state, mail, shuttingDown, finished, finalState, commands, current>>
        /\ \A t \in Tasks \ {e} : pc'[t] = pc[t]
        /\ pc'[e] = "queued"
    BY <1>5, <2>0, <2>1 DEF EmitFailure
  <2>3. pc'["run"] = pc["run"] /\ pc'["loop"] = pc["loop"] /\ pc'["shutdown"] = pc["shutdown"]
    BY <2>2 DEF Threads
  <2>4. Drained' <=> Drained
    BY <2>2 DEF Drained, InFlight
  <2> QED BY <1>0, <2>2, <2>3, <2>4, SameReceipts
          DEF Calm, NothingFails, StopShutsDown, HandlesItsKind, LoopStates, ReceiptsHold,
              IsPending
<1>6. ASSUME NEW t \in Tasks, StoreWrites(t) \/ StoreThrows(t) PROVE Calm'
  <2>1. ~StoreThrows(t)
    BY <1>1 DEF StoreThrows
  <2>2. /\ UNCHANGED <<state, pc, shuttingDown, finished, finalState, commands, current>>
        /\ \A u \in Tasks : mail'[u] \in {mail[u], "none"}
    BY <1>0, <1>6, <2>1 DEF StoreWrites, TypeOK
  <2>3. Drained' <=> Drained
    BY <2>2 DEF Drained, InFlight
  <2> QED BY <1>0, <2>2, <2>3, SameReceipts
          DEF Calm, NothingFails, StopShutsDown, HandlesItsKind, LoopStates, ReceiptsHold,
              IsPending
<1>7. ASSUME NEW kind \in Kinds, EnqueueCommand(kind) PROVE Calm'
  BY <1>0, <1>7, EnqueueKeepsCalm
<1>8. ~RequestStop /\ \A t \in Tasks : ~FailStep(t)
  BY <1>0 DEF RequestStop, FailStep, FailPersisted, FailOvertaken, Calm, NothingFails
<1>9. CASE SourceStarts \/ UNCHANGED vars
  <2>1. UNCHANGED <<state, mail, pc, shuttingDown, finished, finalState, commands, current>>
    BY <1>9 DEF SourceStarts, vars
  <2>2. Drained' <=> Drained
    BY <2>1 DEF Drained, InFlight
  <2> QED BY <1>0, <2>1, <2>2, SameReceipts
          DEF Calm, NothingFails, StopShutsDown, HandlesItsKind, LoopStates, ReceiptsHold,
              IsPending
<1> QED BY <1>2, <1>3, <1>4, <1>5, <1>6, <1>7, <1>8, <1>9 DEF Next, Terminated

\* A frame is stored only while no undisturbed receipt stands.
LEMMA StepIsBarrierStep ==
    Inv /\ BarrierInv /\ [Next]_vars =>
        [Promise!Next]_<<moments, BarrierUp /\ Undisturbed>>
<1> SUFFICES ASSUME Inv, BarrierInv, [Next]_vars
             PROVE  Promise!Next \/ UNCHANGED <<moments, BarrierUp /\ Undisturbed>>
    OBVIOUS
<1>1. CASE UNCHANGED moments
  BY <1>1 DEF Promise!Next, Promise!Acknowledge, Promise!Lift, BarrierUp, Undisturbed
<1>2. CASE ~UNCHANGED moments
  <2>1. PICK f \in Frames : InFlight(f) /\ PipelineStores(f)
    BY <1>2, OnlyPipelinesStore DEF InFlight, PipelineStores, At
  <2>2. UNCHANGED <<commands, current, faults>> /\ moments' = moments \cup {f}
        /\ \A e \in Failures : pc'[e] = pc[e]
    BY <2>1, TasksAreDistinct DEF PipelineStores, Goto, Inv, TypeOK
  <2>3. ~(BarrierUp /\ Undisturbed)
    BY <2>1 DEF BarrierInv, Calm, ReceiptsHold, Drained
  <2>4. ~(BarrierUp /\ Undisturbed)'
    BY <2>2, <2>3, SameReceipts DEF Undisturbed
  <2> QED BY <2>2, <2>3, <2>4 DEF Promise!Next, Promise!Record
<1> QED BY <1>1, <1>2

\* As long as nothing fails and no signal arrives, a successful receipt for a pause
\* or a stop is a write barrier, for any frames and any commands of any callers.
THEOREM ReceiptsAreBarriers == Spec => ImplementsWriteBarrier
<1>1. Init => Promise!Init
  BY DEF Init, Promise!Init, BarrierUp, Command
<1>2. Inv /\ QueueInv /\ [Next]_vars => QueueInv'
  BY NextQueue
<1>3. Inv /\ Inv' /\ QueueInv /\ BarrierInv /\ [Next]_vars => BarrierInv'
  BY NextBarrier
<1>4. Inv /\ BarrierInv /\ [Next]_vars => [Promise!Next]_<<moments, BarrierUp /\ Undisturbed>>
  BY StepIsBarrierStep
<1> QED BY <1>1, <1>2, <1>3, <1>4, InitQueue, InitBarrier, Invariant, PTL
        DEF Spec, ImplementsWriteBarrier, Promise!Spec

=============================================================================

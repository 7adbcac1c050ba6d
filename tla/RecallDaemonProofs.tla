------------------------- MODULE RecallDaemonProofs -------------------------
(***************************************************************************)
(* Theorems about RecallDaemon, for every set of frames and failures and   *)
(* every bound.  Inv strengthens the properties to an inductive invariant; *)
(* its conjuncts say, for each await, what the actor's other tasks may     *)
(* have done meanwhile.                                                     *)
(***************************************************************************)
EXTENDS RecallDaemon, TLAPS

\* run() has come past the start of the source.
Up == pc["run"] \notin {"abandon", "persistStarting", "start"}

\* The frame's task has got past the guard of receive(_:).
Taken(f) == pc[f] \in {"dropPersist", "pipeline", "stored", "persist",
                       "failPersist", "failShutdown"}

\* The frame has thrown, and its fail() is under way.
Failing(f) == pc[f] \in {"failPersist", "failShutdown"}

\* Frames are taken, and recording or pausing claimed, only once run() is up;
\* the command loop only exists while run() waits.
StartsFirst ==
    /\ state \in {"recording", "paused"} => Up
    /\ \A f \in Frames : Taken(f) => Up
    /\ pc["loop"] # "unstarted" => pc["run"] \in {"await", "returned"}

\* While a frame fails, nothing can make the daemon accept another one.
FailingFrameIsAlone ==
    \A f \in Frames : Failing(f) =>
        /\ state \in {"failed", "stopping", "stopped"}
        /\ pc["loop"] # "resumeStart"
        /\ Drained

\* A resume starts the source from a settled pause.
ResumesFromPause ==
    pc["loop"] = "resumeStart" => state # "recording" /\ Drained

\* A running source is known to the actor, or about to be.
SourceKnown ==
    source = "on" => \/ sourceRunning
                     \/ pc["run"] = "start"
                     \/ pc["loop"] = "resumeStart"

\* A pause that has called stop() has silenced the source.
PauseSilences ==
    pc["loop"] \in {"pauseStopping", "pauseDrain"} => source # "on"

\* shutdown() runs once, and the loop fetches nothing for a daemon in shutdown
\* that believes that it records.
ShutdownOnce ==
    /\ shuttingDown <=> pc["shutdown"] # "idle"
    /\ finished => pc["shutdown"] = "done"
    /\ shuttingDown => state # "paused"
    /\ shuttingDown /\ pc["loop"] = "fetch" => state # "recording"

\* The final status exists only once shutdown() has drained.
Final == pc["shutdown"] \in {"persistFinal", "done"}

FinalStatus ==
    /\ Final => Drained
    /\ state = "stopped" => Final
    /\ row = "stopped" => Final
    /\ \A t \in Tasks : mail[t] = "stopped" => Final

Inv ==
    /\ TypeOK
    /\ OneFrameInFlight
    /\ PauseSettled
    /\ StartsFirst
    /\ FailingFrameIsAlone
    /\ ResumesFromPause
    /\ SourceKnown
    /\ PauseSilences
    /\ ShutdownOnce
    /\ FinalStatus

-----------------------------------------------------------------------------
(* Type correctness                                                        *)

\* The threads, the frames and the failures are different tasks.
LEMMA TasksAreDistinct ==
    /\ "run" \in Tasks /\ "loop" \in Tasks /\ "shutdown" \in Tasks
    /\ Frames \subseteq Tasks /\ Failures \subseteq Tasks
    /\ \A f \in Frames : f \notin Threads /\ f \notin Failures
    /\ \A e \in Failures : e \notin Threads
BY TasksAssumption DEF Tasks, Threads

\* The points of each kind of task.
LEMMA PointsOfTasks ==
    /\ PointsOf("run") = RunPoints
    /\ PointsOf("loop") = LoopPoints
    /\ PointsOf("shutdown") = ShutdownPoints
    /\ \A f \in Frames : PointsOf(f) = FramePoints
    /\ \A e \in Failures : PointsOf(e) = FailurePoints
BY TasksAreDistinct DEF PointsOf, Threads

\* Goto keeps every task at a point of its own.
LEMMA GotoKeepsPoints ==
    ASSUME TypeOK, NEW t \in Tasks, NEW point \in PointsOf(t), Goto(t, point)
    PROVE  /\ DOMAIN pc' = Tasks
           /\ \A u \in Tasks : pc'[u] \in PointsOf(u)
BY DEF TypeOK, Goto

\* An answered row is a row.
LEMMA AnsweredRow ==
    ASSUME NEW r \in CommandRows, NEW receipt \in Receipts
    PROVE  [r EXCEPT !.receipt = receipt] \in CommandRows
BY DEF CommandRows

\* The steps of run() keep the types.
LEMMA RunKeepsTypes == TypeOK /\ RunStep => TypeOK'
<1> SUFFICES ASSUME TypeOK, RunStep PROVE TypeOK'
    OBVIOUS
<1> USE TasksAreDistinct, PointsOfTasks, GotoKeepsPoints, BoundsAssumption
    DEF At, Persist, Fault, flags, status, durable, RunPoints
<1>1. CASE RunAbandon
  <2>1. commands' \in Seq(CommandRows) /\ Len(commands') = Len(commands)
    <3>1. ASSUME NEW i \in DOMAIN commands PROVE commands'[i] \in CommandRows
      <4>1. commands[i] \in CommandRows
        BY DEF TypeOK
      <4>2. [commands[i] EXCEPT !.receipt = "abandoned"] \in CommandRows
        BY <4>1, AnsweredRow DEF Receipts
      <4> QED BY <1>1, <4>1, <4>2 DEF RunAbandon
    <3> QED BY <1>1, <3>1 DEF TypeOK, RunAbandon
  <2> QED BY <1>1, <2>1 DEF TypeOK, RunAbandon
<1>2. CASE RunAbandonThrows
  BY <1>2 DEF TypeOK, RunAbandonThrows
<1>3. CASE RunStart
  BY <1>3 DEF TypeOK, RunStart
<1>4. CASE RunStarted
  BY <1>4 DEF TypeOK, RunStarted, States
<1>5. CASE RunStartThrows
  BY <1>5 DEF TypeOK, RunStartThrows, States
<1>6. CASE RunRecording
  BY <1>6 DEF TypeOK, RunRecording, LoopPoints
<1>7. CASE RunRecordingThrows
  BY <1>7 DEF TypeOK, RunRecordingThrows, States
<1>8. CASE RunFailed
  BY <1>8 DEF TypeOK, RunFailed
<1>9. CASE RunReturns
  BY <1>9 DEF TypeOK, RunReturns
<1>10. CASE Exit
  BY <1>10 DEF TypeOK, Exit
<1> QED BY <1>1, <1>2, <1>3, <1>4, <1>5, <1>6, <1>7, <1>8, <1>9, <1>10 DEF RunStep

\* A receipt leaves the table a table of rows, of the same length.
LEMMA AnswerKeepsTable ==
    ASSUME TypeOK, NEW receipt \in Receipts, Answer(current, receipt)
    PROVE  commands' \in Seq(CommandRows) /\ Len(commands') = Len(commands)
<1> DEFINE table(row1) == [commands EXCEPT ![current] = row1]
<1>1. commands' = table([commands[current] EXCEPT !.receipt = receipt])
  BY DEF Answer
<1>2. ASSUME NEW row1, current \in DOMAIN commands => row1 \in CommandRows
      PROVE  table(row1) \in Seq(CommandRows) /\ Len(table(row1)) = Len(commands)
  <2>1. CASE current \in DOMAIN commands
    BY <1>2, <2>1 DEF TypeOK
  <2>2. CASE current \notin DOMAIN commands
    <3>1. table(row1) = commands
      BY <2>2 DEF TypeOK
    <3> QED BY <3>1 DEF TypeOK
  <2> QED BY <2>1, <2>2
<1>3. current \in DOMAIN commands => commands[current] \in CommandRows
  BY DEF TypeOK
<1> HIDE DEF table
<1> QED BY <1>1, <1>2, <1>3, AnsweredRow

\* fail(_:) keeps the types.
LEMMA FailKeepsTypes ==
    ASSUME TypeOK, NEW t \in Tasks, Fail(t), {"done", "failPersist"} \subseteq PointsOf(t)
    PROVE  /\ state' \in States
           /\ mail' \in [Tasks -> States \cup {"none", "threw"}]
           /\ DOMAIN pc' = Tasks
           /\ \A u \in Tasks : pc'[u] \in PointsOf(u)
BY GotoKeepsPoints DEF TypeOK, Fail, Persist, status, States

\* Calls of source.stop() and their returns keep the types.
LEMMA StopKeepsTypes ==
    ASSUME TypeOK, NEW t \in Tasks, NEW p \in PointsOf(t), NEW q \in PointsOf(t),
           CallStop(t, p, q) \/ StopReturns(t, q)
    PROVE  TypeOK'
BY GotoKeepsPoints DEF TypeOK, CallStop, StopReturns, status, durable

\* shutdown() up to its first await keeps the types.
LEMMA ShutdownKeepsTypes ==
    ASSUME TypeOK, NEW final \in {"stopped", "failed"}, NEW pcs, DOMAIN pcs = Tasks,
           \A u \in Tasks : pcs[u] \in PointsOf(u),
           BeginShutdown(final, pcs), UNCHANGED <<durable, current, source, faults, alive>>
    PROVE  TypeOK'
<1>1. state' \in {"failed", "stopping"}
  BY DEF BeginShutdown
<1>2. \A u \in Tasks : pc'[u] \in PointsOf(u)
  BY PointsOfTasks DEF BeginShutdown, ShutdownPoints
<1> QED BY <1>1, <1>2 DEF TypeOK, BeginShutdown, durable, States

\* The steps of commandLoop() and process(_:) keep the types.
LEMMA LoopKeepsTypes == TypeOK /\ LoopStep => TypeOK'
<1> SUFFICES ASSUME TypeOK, LoopStep PROVE TypeOK'
    OBVIOUS
<1> USE TasksAreDistinct, PointsOfTasks, GotoKeepsPoints, BoundsAssumption
    DEF At, Persist, Fault, flags, status, durable, LoopPoints
<1>1. CASE LoopCheck
  BY <1>1 DEF TypeOK, LoopCheck
<1>2. CASE LoopIdle
  BY <1>2 DEF TypeOK, LoopIdle
<1>3. CASE LoopFetchThrows
  BY <1>3, FailKeepsTypes DEF TypeOK, LoopFetchThrows
<1>4. ASSUME NEW i \in DOMAIN commands, BeginCommand(i) PROVE TypeOK'
  <2>1. i \in 0 .. Len(commands)
    BY DEF TypeOK
  <2>2. CASE BeginPause(i)
    BY <2>1, <2>2 DEF TypeOK, BeginPause, Fetched, States
  <2>3. CASE BeginResume(i)
    BY <2>1, <2>3 DEF TypeOK, BeginResume, Fetched
  <2>4. CASE BeginStop(i)
    BY <2>1, <2>4 DEF TypeOK, BeginStop, Fetched, States
  <2>5. CASE BeginNoop(i)
    BY <2>1, <2>5 DEF TypeOK, BeginNoop, Fetched
  <2> QED BY <1>4, <2>2, <2>3, <2>4, <2>5 DEF BeginCommand
<1>5. CASE LoopPersisted
  BY <1>5 DEF TypeOK, LoopPersisted, AfterPersist
<1>6. CASE LoopCallsStop
  BY <1>6, StopKeepsTypes DEF LoopCallsStop
<1>7. CASE LoopStopReturns
  BY <1>7, StopKeepsTypes DEF LoopStopReturns
<1>8. CASE LoopStopThrows
  BY <1>8 DEF TypeOK, LoopStopThrows
<1>9. CASE PauseDrained
  BY <1>9 DEF TypeOK, PauseDrained
<1>10. CASE ResumeStarted
  BY <1>10 DEF TypeOK, ResumeStarted, States
<1>11. CASE ResumeStartThrows
  BY <1>11 DEF TypeOK, ResumeStartThrows
<1>12. CASE StopDrained
  <2>1. CASE shuttingDown
    BY <1>12, <2>1 DEF TypeOK, StopDrained
  <2>2. CASE ~shuttingDown
    <3>1. \A u \in Tasks : [pc EXCEPT !["loop"] = "stopShutdown"][u] \in PointsOf(u)
      BY DEF TypeOK
    <3> QED BY <1>12, <2>2, <3>1, ShutdownKeepsTypes DEF TypeOK, StopDrained
  <2> QED BY <2>1, <2>2 DEF TypeOK
<1>13. CASE StopShutdownReturns
  BY <1>13 DEF TypeOK, StopShutdownReturns
<1>14. CASE Complete
  BY <1>14, AnswerKeepsTable DEF TypeOK, Complete, Receipts
<1>15. CASE CompleteThrows
  BY <1>15 DEF TypeOK, CompleteThrows
<1>16. CASE CompleteError
  <2>1. commands' \in Seq(CommandRows) /\ Len(commands') = Len(commands)
    BY <1>16, AnswerKeepsTable DEF TypeOK, CompleteError, Receipts
  <2>2. faults' \in 0 .. MaxFaults
    BY <1>16 DEF TypeOK, CompleteError
  <2> QED BY <1>16, <2>1, <2>2, FailKeepsTypes DEF TypeOK, CompleteError
<1> QED BY <1>1, <1>2, <1>3, <1>4, <1>5, <1>6, <1>7, <1>8, <1>9, <1>10, <1>11,
           <1>12, <1>13, <1>14, <1>15, <1>16 DEF LoopStep

\* The steps of a frame's task keep the types.
LEMMA FrameKeepsTypes ==
    ASSUME TypeOK, NEW f \in Frames, Capture(f) \/ FrameStep(f)
    PROVE  TypeOK'
<1> USE TasksAreDistinct, PointsOfTasks, GotoKeepsPoints, BoundsAssumption
    DEF At, Persist, Fault, flags, status, durable, FramePoints
<1>1. CASE Capture(f)
  BY <1>1 DEF TypeOK, Capture
<1>2. CASE ReceiveIgnored(f)
  BY <1>2 DEF TypeOK, ReceiveIgnored
<1>3. CASE ReceiveDropped(f)
  BY <1>3 DEF TypeOK, ReceiveDropped
<1>4. CASE ReceiveAccepted(f)
  BY <1>4 DEF TypeOK, ReceiveAccepted
<1>5. CASE DropPersisted(f)
  BY <1>5 DEF TypeOK, DropPersisted
<1>6. CASE PipelineStores(f)
  BY <1>6 DEF TypeOK, PipelineStores
<1>7. CASE PipelineReturns(f)
  BY <1>7 DEF TypeOK, PipelineReturns
<1>8. CASE PipelineSkips(f)
  BY <1>8 DEF TypeOK, PipelineSkips
<1>9. CASE PipelineThrows(f)
  <2>1. faults' \in 0 .. MaxFaults
    BY <1>9 DEF TypeOK, PipelineThrows
  <2>2. Fail(f) /\ {"done", "failPersist"} \subseteq PointsOf(f)
    BY <1>9 DEF PipelineThrows, FrameFails
  <2> QED BY <1>9, <2>1, <2>2, FailKeepsTypes DEF TypeOK, PipelineThrows, FrameFails
<1>10. CASE FramePersisted(f)
  BY <1>10 DEF TypeOK, FramePersisted
<1>11. CASE FramePersistThrows(f)
  BY <1>11, FailKeepsTypes DEF TypeOK, FramePersistThrows, FrameFails
<1>12. CASE FrameShutdownReturns(f)
  BY <1>12 DEF TypeOK, FrameShutdownReturns
<1> QED BY <1>1, <1>2, <1>3, <1>4, <1>5, <1>6, <1>7, <1>8, <1>9, <1>10, <1>11,
           <1>12 DEF FrameStep

\* fail(_:) after its await keeps the types.
LEMMA FailStepKeepsTypes ==
    ASSUME TypeOK, NEW t \in Tasks, pc[t] = "failPersist", FailStep(t)
    PROVE  TypeOK'
<1> USE TasksAreDistinct, PointsOfTasks, GotoKeepsPoints
    DEF At, flags, status, durable
<1>1. t = "loop" \/ t \in Frames \/ t \in Failures
  BY DEF TypeOK, Tasks, Threads, RunPoints, ShutdownPoints
<1>2. CASE FailPersisted(t)
  <2> DEFINE point == IF t \in Frames THEN "failShutdown" ELSE "done"
  <2>1. point \in PointsOf(t)
    BY <1>1 DEF LoopPoints, FramePoints, FailurePoints
  <2>2. \A u \in Tasks : [pc EXCEPT ![t] = point][u] \in PointsOf(u)
    BY <2>1 DEF TypeOK
  <2> QED BY <1>2, <2>2, ShutdownKeepsTypes DEF TypeOK, FailPersisted
<1>3. CASE FailOvertaken(t)
  <2>1. "done" \in PointsOf(t)
    BY <1>1 DEF LoopPoints, FramePoints, FailurePoints
  <2> QED BY <1>3, <2>1 DEF TypeOK, FailOvertaken
<1> QED BY <1>2, <1>3 DEF FailStep

\* The steps of shutdown() keep the types.
LEMMA ShutdownStepKeepsTypes == TypeOK /\ ShutdownStep => TypeOK'
<1> SUFFICES ASSUME TypeOK, ShutdownStep PROVE TypeOK'
    OBVIOUS
<1> USE TasksAreDistinct, PointsOfTasks, GotoKeepsPoints
    DEF At, Persist, flags, status, durable, ShutdownPoints
<1>1. CASE ShutdownPersisted
  BY <1>1 DEF TypeOK, ShutdownPersisted
<1>2. CASE ShutdownCallsStop
  BY <1>2, StopKeepsTypes DEF ShutdownCallsStop
<1>3. CASE ShutdownStopReturns
  BY <1>3, StopKeepsTypes DEF ShutdownStopReturns
<1>4. CASE ShutdownDrained
  BY <1>4 DEF TypeOK, ShutdownDrained, States
<1>5. CASE ShutdownDone
  BY <1>5 DEF TypeOK, ShutdownDone
<1> QED BY <1>1, <1>2, <1>3, <1>4, <1>5 DEF ShutdownStep

\* Where each kind of task begins.
LEMMA InitialPoints ==
    /\ InitialPoint("run") = "abandon"
    /\ InitialPoint("loop") = "unstarted"
    /\ InitialPoint("shutdown") = "idle"
    /\ \A f \in Frames : InitialPoint(f) = "uncaptured"
    /\ \A e \in Failures : InitialPoint(e) = "unsent"
BY TasksAreDistinct DEF InitialPoint, Threads

\* The initial state is well typed.
LEMMA InitTypes == Init => TypeOK
<1> SUFFICES ASSUME Init PROVE TypeOK
    OBVIOUS
<1>1. commands \in Seq(CommandRows) /\ current \in 0 .. Len(commands)
  <2>1. CASE commands = <<>>
    BY <2>1 DEF Init
  <2>2. ASSUME NEW kind \in Leftover, commands = <<Command(kind, "before")>>
        PROVE  commands \in Seq(CommandRows) /\ current \in 0 .. Len(commands)
    <3>1. Command(kind, "before") \in CommandRows
      BY BoundsAssumption DEF Command, CommandRows, Receipts
    <3> QED BY <2>2, <3>1 DEF Init
  <2> QED BY <2>1, <2>2 DEF Init
<1>2. \A t \in Tasks : pc[t] \in PointsOf(t)
  <2> QED BY TasksAreDistinct, PointsOfTasks, InitialPoints
          DEF Init, Tasks, Threads, RunPoints, LoopPoints, ShutdownPoints, FramePoints,
              FailurePoints
<1>3. mail \in [Tasks -> States \cup {"none", "threw"}] /\ DOMAIN pc = Tasks
  BY DEF Init
<1>4. faults \in 0 .. MaxFaults
  BY BoundsAssumption DEF Init
<1> QED BY <1>1, <1>2, <1>3, <1>4 DEF Init, TypeOK, States

\* Every step keeps the types.
LEMMA NextTypes == TypeOK /\ [Next]_vars => TypeOK'
<1> SUFFICES ASSUME TypeOK, [Next]_vars PROVE TypeOK'
    OBVIOUS
<1> USE DEF At, flags, status, durable
<1>1. CASE RunStep
  BY <1>1, RunKeepsTypes
<1>2. CASE LoopStep
  BY <1>2, LoopKeepsTypes
<1>3. CASE ShutdownStep
  BY <1>3, ShutdownStepKeepsTypes
<1>4. CASE RequestStop
  BY <1>4, ShutdownKeepsTypes DEF TypeOK, RequestStop
<1>5. CASE SourceStarts
  BY <1>5 DEF TypeOK, SourceStarts
<1>6. ASSUME NEW t \in Tasks, StoreWrites(t) PROVE TypeOK'
  BY <1>6 DEF TypeOK, StoreWrites
<1>7. ASSUME NEW t \in Tasks, StoreThrows(t) PROVE TypeOK'
  BY <1>7, BoundsAssumption DEF TypeOK, StoreThrows, Fault
<1>8. ASSUME NEW t \in Tasks, FailStep(t) PROVE TypeOK'
  BY <1>8, FailStepKeepsTypes DEF FailStep, FailPersisted, FailOvertaken
<1>9. ASSUME NEW f \in Frames, Capture(f) \/ FrameStep(f) PROVE TypeOK'
  BY <1>9, FrameKeepsTypes
<1>10. ASSUME NEW e \in Failures, EmitFailure(e) PROVE TypeOK'
  BY <1>10, TasksAreDistinct, PointsOfTasks, GotoKeepsPoints
     DEF TypeOK, EmitFailure, FailurePoints
<1>11. ASSUME NEW e \in Failures, ReceiveFailure(e) PROVE TypeOK'
  BY <1>11, TasksAreDistinct, PointsOfTasks, FailKeepsTypes
     DEF TypeOK, ReceiveFailure, FailurePoints
<1>12. ASSUME NEW kind \in Kinds, EnqueueCommand(kind) PROVE TypeOK'
  <2>1. Command(kind, "during") \in CommandRows
    BY DEF Command, CommandRows, Receipts
  <2>2. commands' \in Seq(CommandRows) /\ Len(commands') = Len(commands) + 1
    BY <1>12, <2>1 DEF TypeOK, EnqueueCommand
  <2> QED BY <1>12, <2>2 DEF TypeOK, EnqueueCommand
<1>13. CASE UNCHANGED vars
  BY <1>13 DEF TypeOK, vars
<1> QED BY <1>1, <1>2, <1>3, <1>4, <1>5, <1>6, <1>7, <1>8, <1>9, <1>10, <1>11,
           <1>12, <1>13 DEF Next, Terminated

\* Every reachable state of the daemon is well typed: each task is suspended at
\* an await of its own function, and each snapshot, row and receipt is one of
\* those that the code writes.
THEOREM TypeCorrect == Spec => []TypeOK
BY InitTypes, NextTypes, PTL DEF Spec

-----------------------------------------------------------------------------
(* The inductive invariant                                                 *)

LEMMA RunKeepsInv == Inv /\ RunStep => Inv'
<1> SUFFICES ASSUME Inv, RunStep PROVE Inv'
    OBVIOUS
<1>0. TypeOK'
  BY RunKeepsTypes DEF Inv
<1> USE <1>0, TasksAreDistinct DEF At, Goto, Persist, Fault, flags, status, durable, Threads, Inv,
      OneFrameInFlight, Drained, InFlight, PauseSettled, Pausing, StartsFirst, Up, Taken,
      FailingFrameIsAlone, Failing, ResumesFromPause, SourceKnown, PauseSilences,
      ShutdownOnce, FinalStatus, Final
<1>1. CASE RunAbandon
  BY <1>1 DEF TypeOK, RunAbandon
<1>2. CASE RunAbandonThrows
  BY <1>2 DEF TypeOK, RunAbandonThrows
<1>3. CASE RunStart
  BY <1>3 DEF TypeOK, RunStart
<1>4. CASE RunStarted
  BY <1>4 DEF TypeOK, RunStarted
<1>5. CASE RunStartThrows
  BY <1>5 DEF TypeOK, RunStartThrows
<1>6. CASE RunRecording
  BY <1>6 DEF TypeOK, RunRecording
<1>7. CASE RunRecordingThrows
  BY <1>7 DEF TypeOK, RunRecordingThrows
<1>8. CASE RunFailed
  BY <1>8 DEF TypeOK, RunFailed
<1>9. CASE RunReturns
  BY <1>9 DEF TypeOK, RunReturns
<1>10. CASE Exit
  BY <1>10 DEF TypeOK, Exit
<1> QED BY <1>1, <1>2, <1>3, <1>4, <1>5, <1>6, <1>7, <1>8, <1>9, <1>10 DEF RunStep

\* The loop's steps keep the invariant.
LEMMA LoopKeepsInv == Inv /\ LoopStep => Inv'
<1> SUFFICES ASSUME Inv, LoopStep PROVE Inv'
    OBVIOUS
<1>0. TypeOK'
  BY LoopKeepsTypes DEF Inv
<1> USE <1>0, TasksAreDistinct
    DEF At, Goto, Persist, Fault, flags, status, durable, Threads, Inv,
        OneFrameInFlight, Drained, InFlight, PauseSettled, Pausing, StartsFirst, Up,
        Taken, FailingFrameIsAlone, Failing, ResumesFromPause, SourceKnown,
        PauseSilences, ShutdownOnce, FinalStatus, Final
<1>1. CASE LoopCheck
  BY <1>1 DEF TypeOK, LoopCheck
<1>2. CASE LoopIdle
  BY <1>2 DEF TypeOK, LoopIdle
<1>3. CASE LoopFetchThrows
  BY <1>3 DEF TypeOK, LoopFetchThrows, Fail
<1>4. CASE (\E i \in DOMAIN commands : BeginCommand(i))
  BY <1>4 DEF TypeOK, BeginCommand, BeginPause, BeginResume, BeginStop, BeginNoop, Fetched
<1>5. CASE LoopPersisted
  BY <1>5 DEF TypeOK, LoopPersisted, AfterPersist
<1>6. CASE LoopCallsStop
  BY <1>6 DEF TypeOK, LoopCallsStop, CallStop
<1>7. CASE LoopStopReturns
  BY <1>7 DEF TypeOK, LoopStopReturns, StopReturns
<1>8. CASE LoopStopThrows
  BY <1>8 DEF TypeOK, LoopStopThrows
<1>9. CASE PauseDrained
  BY <1>9 DEF TypeOK, PauseDrained
<1>10. CASE ResumeStarted
  BY <1>10 DEF TypeOK, ResumeStarted
<1>11. CASE ResumeStartThrows
  BY <1>11 DEF TypeOK, ResumeStartThrows
<1>12. CASE StopDrained
  BY <1>12 DEF TypeOK, StopDrained, BeginShutdown
<1>13. CASE StopShutdownReturns
  BY <1>13 DEF TypeOK, StopShutdownReturns
<1>14. CASE Complete
  BY <1>14 DEF TypeOK, Complete
<1>15. CASE CompleteThrows
  BY <1>15 DEF TypeOK, CompleteThrows
<1>16. CASE CompleteError
  BY <1>16 DEF TypeOK, CompleteError, Fail
<1> QED BY <1>1, <1>2, <1>3, <1>4, <1>5, <1>6, <1>7, <1>8, <1>9, <1>10, <1>11, <1>12, <1>13, <1>14, <1>15, <1>16 DEF LoopStep

\* The steps of a frame's task keep the invariant.
LEMMA FrameKeepsInv ==
    ASSUME Inv, NEW f \in Frames, Capture(f) \/ FrameStep(f)
    PROVE  Inv'
<1>0. TypeOK'
  BY FrameKeepsTypes DEF Inv
<1> USE <1>0, TasksAreDistinct
    DEF At, Goto, Persist, Fault, flags, status, durable, Threads, Inv,
        OneFrameInFlight, Drained, InFlight, PauseSettled, Pausing, StartsFirst, Up,
        Taken, FailingFrameIsAlone, Failing, ResumesFromPause, SourceKnown,
        PauseSilences, ShutdownOnce, FinalStatus, Final
<1>1. CASE Capture(f)
  BY <1>1 DEF TypeOK, Capture
<1>2. CASE ReceiveIgnored(f)
  BY <1>2 DEF TypeOK, ReceiveIgnored
<1>3. CASE ReceiveDropped(f)
  BY <1>3 DEF TypeOK, ReceiveDropped
<1>4. CASE ReceiveAccepted(f)
  <2>1. Up /\ state = "recording" /\ ~shuttingDown /\ ~processingFrame /\ Drained
    BY <1>4 DEF ReceiveAccepted, Accepting
  <2>2. pc' = [pc EXCEPT ![f] = "pipeline"] /\ pc[f] = "queued"
    BY <1>4 DEF ReceiveAccepted
  <2>3. UNCHANGED <<state, mail, row, source, sourceRunning, shuttingDown, finished>>
    BY <1>4 DEF ReceiveAccepted
  <2>4. \A g \in Frames : InFlight(g)' <=> g = f
    BY <2>1, <2>2 DEF TypeOK
  <2>5. OneFrameInFlight'
    BY <1>4, <2>4 DEF ReceiveAccepted
  <2>6. pc'["run"] = pc["run"] /\ pc'["loop"] = pc["loop"]
            /\ pc'["shutdown"] = pc["shutdown"]
    BY <2>2 DEF TypeOK
  <2>7. \A g \in Frames : g # f => pc'[g] = pc[g]
    BY <2>2 DEF TypeOK
  <2>8. ~Failing(f)'
    BY <2>2 DEF TypeOK
  <2>9. PauseSettled' /\ StartsFirst' /\ SourceKnown' /\ PauseSilences'
    BY <2>1, <2>3, <2>6, <2>7
  <2>10. FailingFrameIsAlone' /\ ResumesFromPause'
    BY <2>1, <2>3, <2>6, <2>7, <2>8
  <2>11. ShutdownOnce' /\ FinalStatus'
    BY <2>1, <2>3, <2>6
  <2> QED BY <2>5, <2>9, <2>10, <2>11
<1>5. CASE DropPersisted(f)
  BY <1>5 DEF TypeOK, DropPersisted
<1>6. CASE PipelineStores(f)
  BY <1>6 DEF TypeOK, PipelineStores
<1>7. CASE PipelineReturns(f)
  BY <1>7 DEF TypeOK, PipelineReturns
<1>8. CASE PipelineSkips(f)
  BY <1>8 DEF TypeOK, PipelineSkips
<1>9. CASE PipelineThrows(f)
  BY <1>9 DEF TypeOK, PipelineThrows, FrameFails, Fail
<1>10. CASE FramePersisted(f)
  BY <1>10 DEF TypeOK, FramePersisted
<1>11. CASE FramePersistThrows(f)
  BY <1>11 DEF TypeOK, FramePersistThrows, FrameFails, Fail
<1>12. CASE FrameShutdownReturns(f)
  BY <1>12 DEF TypeOK, FrameShutdownReturns
<1> QED BY <1>1, <1>2, <1>3, <1>4, <1>5, <1>6, <1>7, <1>8, <1>9, <1>10, <1>11, <1>12 DEF FrameStep

\* The steps of shutdown() keep the invariant.
LEMMA ShutdownKeepsInv == Inv /\ ShutdownStep => Inv'
<1> SUFFICES ASSUME Inv, ShutdownStep PROVE Inv'
    OBVIOUS
<1>0. TypeOK'
  BY ShutdownStepKeepsTypes DEF Inv
<1> USE <1>0, TasksAreDistinct
    DEF At, Goto, Persist, Fault, flags, status, durable, Threads, Inv,
        OneFrameInFlight, Drained, InFlight, PauseSettled, Pausing, StartsFirst, Up,
        Taken, FailingFrameIsAlone, Failing, ResumesFromPause, SourceKnown,
        PauseSilences, ShutdownOnce, FinalStatus, Final
<1>1. CASE ShutdownPersisted
  BY <1>1 DEF TypeOK, ShutdownPersisted
<1>2. CASE ShutdownCallsStop
  BY <1>2 DEF TypeOK, ShutdownCallsStop, CallStop
<1>3. CASE ShutdownStopReturns
  BY <1>3 DEF TypeOK, ShutdownStopReturns, StopReturns
<1>4. CASE ShutdownDrained
  BY <1>4 DEF TypeOK, ShutdownDrained
<1>5. CASE ShutdownDone
  BY <1>5 DEF TypeOK, ShutdownDone
<1> QED BY <1>1, <1>2, <1>3, <1>4, <1>5 DEF ShutdownStep

\* fail(_:) after its await keeps the invariant.
LEMMA FailStepKeepsInv ==
    ASSUME Inv, NEW t \in Tasks, FailStep(t)
    PROVE  Inv'
<1>0. TypeOK'
  BY FailStepKeepsTypes DEF Inv, FailStep, FailPersisted, FailOvertaken, At
<1>00. t = "loop" \/ t \in Frames \/ t \in Failures
  BY PointsOfTasks DEF Inv, TypeOK, Tasks, Threads, RunPoints, ShutdownPoints, FailStep,
                       FailPersisted, FailOvertaken, At
<1> USE <1>0, TasksAreDistinct
    DEF At, Goto, Persist, Fault, flags, status, durable, Threads, Inv,
        OneFrameInFlight, Drained, InFlight, PauseSettled, Pausing, StartsFirst, Up,
        Taken, FailingFrameIsAlone, Failing, ResumesFromPause, SourceKnown,
        PauseSilences, ShutdownOnce, FinalStatus, Final
<1>1. CASE FailPersisted(t)
  BY <1>00, <1>1 DEF TypeOK, FailPersisted, BeginShutdown, Returned, Written, Threw
<1>2. CASE FailOvertaken(t)
  BY <1>00, <1>2 DEF TypeOK, FailOvertaken
<1> QED BY <1>1, <1>2 DEF FailStep

\* The invariant holds initially.
LEMMA InitInv == Init => Inv
<1> SUFFICES ASSUME Init PROVE Inv
    OBVIOUS
<1>1. TypeOK
  BY InitTypes
<1>2. /\ pc["run"] = "abandon" /\ pc["loop"] = "unstarted" /\ pc["shutdown"] = "idle"
      /\ \A f \in Frames : pc[f] = "uncaptured"
      /\ \A t \in Tasks : mail[t] = "none"
  BY TasksAreDistinct, InitialPoints DEF Init
<1> QED BY <1>1, <1>2
     DEF Init, Inv, OneFrameInFlight, Drained, InFlight, PauseSettled, StartsFirst,
         Taken, FailingFrameIsAlone, Failing, ResumesFromPause, SourceKnown,
         PauseSilences, ShutdownOnce, FinalStatus

\* Every step keeps the invariant.
LEMMA NextInv == Inv /\ [Next]_vars => Inv'
<1> SUFFICES ASSUME Inv, [Next]_vars PROVE Inv'
    OBVIOUS
<1>0. TypeOK'
  BY NextTypes DEF Inv
<1> USE <1>0, TasksAreDistinct
    DEF At, Goto, Persist, Fault, flags, status, durable, Threads, Inv,
        OneFrameInFlight, Drained, InFlight, PauseSettled, Pausing, StartsFirst, Up,
        Taken, FailingFrameIsAlone, Failing, ResumesFromPause, SourceKnown,
        PauseSilences, ShutdownOnce, FinalStatus, Final
<1>1. CASE RunStep
  BY <1>1, RunKeepsInv
<1>2. CASE LoopStep
  BY <1>2, LoopKeepsInv
<1>3. CASE ShutdownStep
  BY <1>3, ShutdownKeepsInv
<1>4. CASE RequestStop
  BY <1>4 DEF TypeOK, RequestStop, BeginShutdown
<1>5. CASE SourceStarts
  BY <1>5 DEF TypeOK, SourceStarts
<1>6. ASSUME NEW t \in Tasks, StoreWrites(t) PROVE Inv'
  BY <1>6 DEF TypeOK, StoreWrites
<1>7. ASSUME NEW t \in Tasks, StoreThrows(t) PROVE Inv'
  BY <1>7 DEF TypeOK, StoreThrows
<1>8. ASSUME NEW t \in Tasks, FailStep(t) PROVE Inv'
  BY <1>8, FailStepKeepsInv
<1>9. ASSUME NEW f \in Frames, Capture(f) \/ FrameStep(f) PROVE Inv'
  BY <1>9, FrameKeepsInv
<1>10. ASSUME NEW e \in Failures, EmitFailure(e) PROVE Inv'
  BY <1>10 DEF TypeOK, EmitFailure
<1>11. ASSUME NEW e \in Failures, ReceiveFailure(e) PROVE Inv'
  BY <1>11 DEF TypeOK, ReceiveFailure, Fail
<1>12. ASSUME NEW kind \in Kinds, EnqueueCommand(kind) PROVE Inv'
  BY <1>12 DEF TypeOK, EnqueueCommand
<1>13. CASE UNCHANGED vars
  BY <1>13 DEF vars
<1> QED BY <1>1, <1>2, <1>3, <1>4, <1>5, <1>6, <1>7, <1>8, <1>9, <1>10, <1>11,
           <1>12, <1>13 DEF Next, Terminated

\* The invariant is inductive, hence holds of every reachable state.
THEOREM Invariant == Spec => []Inv
BY InitInv, NextInv, PTL DEF Spec

\* The daemon never has two frames inside the pipeline, and processingFrame says
\* exactly whether it has one.
THEOREM InFlightMarkerIsExact == Spec => []OneFrameInFlight
BY Invariant, PTL DEF Inv

\* A pause that has been carried out stays settled until a resume begins.
THEOREM PauseHolds == Spec => []PauseSettled
BY Invariant, PTL DEF Inv

\* Only the pipeline adds to the moments.
LEMMA OnlyPipelinesStore ==
    ASSUME [Next]_vars, \A f \in Frames : ~PipelineStores(f)
    PROVE  UNCHANGED moments
<1>1. ASSUME NEW f \in Frames, PipelineStores(f) PROVE FALSE
  BY <1>1
<1> USE DEF durable, vars
<1>2. CASE RunStep
  BY <1>2 DEF RunStep, RunAbandon, RunAbandonThrows, RunStart, RunStarted,
     RunStartThrows, RunRecording, RunRecordingThrows, RunFailed, RunReturns, Exit
<1>3. CASE LoopStep
  BY <1>3 DEF LoopStep, LoopCheck, LoopIdle, LoopFetchThrows, BeginCommand, BeginPause,
     BeginResume, BeginStop, BeginNoop, Fetched, LoopPersisted, LoopCallsStop, CallStop,
     LoopStopReturns, StopReturns, LoopStopThrows, PauseDrained, ResumeStarted,
     ResumeStartThrows, StopDrained, StopShutdownReturns, Complete, CompleteThrows,
     CompleteError
<1>4. CASE ShutdownStep
  BY <1>4 DEF ShutdownStep, ShutdownPersisted, ShutdownCallsStop, CallStop,
     ShutdownStopReturns, StopReturns, ShutdownDrained, ShutdownDone
<1>5. ASSUME NEW f \in Frames, Capture(f) \/ FrameStep(f) PROVE UNCHANGED moments
  BY <1>1, <1>5 DEF FrameStep, Capture, ReceiveIgnored, ReceiveDropped, ReceiveAccepted,
     DropPersisted, PipelineReturns, PipelineSkips, PipelineThrows, FramePersisted,
     FramePersistThrows, FrameFails, FrameShutdownReturns
<1>6. ASSUME NEW t \in Tasks, StoreWrites(t) \/ StoreThrows(t) \/ FailStep(t)
      PROVE  UNCHANGED moments
  BY <1>6 DEF StoreWrites, StoreThrows, FailStep, FailPersisted, FailOvertaken
<1> QED BY <1>2, <1>3, <1>4, <1>5, <1>6
        DEF Next, Terminated, RequestStop, SourceStarts, EmitFailure, ReceiveFailure,
            EnqueueCommand

\* After shutdown() has finished, or the row reads "stopped", nothing is stored.
THEOREM StoppedStoresNothing == Spec => StoppedMeansStopped
<1>1. Inv /\ [Next]_vars => [finished \/ row = "stopped" => UNCHANGED moments]_vars
  <2>1. Drained => \A f \in Frames : ~PipelineStores(f)
    BY DEF PipelineStores, At, Drained, InFlight
  <2> QED BY <2>1, OnlyPipelinesStore DEF Inv, ShutdownOnce, FinalStatus, Final
<1> QED BY <1>1, Invariant, PTL DEF Spec, StoppedMeansStopped

=============================================================================

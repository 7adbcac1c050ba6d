------------------------- MODULE DaemonLifecycleProofs -------------------------
(***************************************************************************)
(* The invariants of DaemonLifecycle for any number of daemons, senders,   *)
(* faults and crashes.                                                     *)
(***************************************************************************)
EXTENDS DaemonLifecycle, SequenceTheorems, TLAPS

USE ProcessesAssumption, LimitsAssumption

Commands == [from : Senders, kind : Kinds, by : Seq(Daemons), receipt : Receipts]

Holding == {"check", "poll", "givingUp", "await"}

(* The lock is with the one process between Lock and Leave; run() has begun in *)
(* those that have polled, and only they write the row.                        *)
Ownership ==
    /\ \A d \in Daemons : lock = d <=> main[d] \in Holding
    /\ \A d \in Daemons : main[d] \in {"idle", "check"} => run[d] = "unstarted"
    /\ \A d \in Daemons : main[d] \in {"poll", "givingUp", "await"} => run[d] # "unstarted"
    /\ \A d \in Daemons : shut[d] # "no" => run[d] # "unstarted"
    /\ \A d \in Daemons :
          run[d] \in {"unstarted", "abandon", "starting", "start"} => loop[d] = "unstarted"
    /\ row.pid \in Daemons => run[row.pid] # "unstarted"
    /\ ~lingers => \A d \in Daemons : main[d] # "leaving"

InHands(d) == loop[d] \in {"process", "stopping", "answer"}

Untouched(i) == commands[i].by = <<>>

(* A command that has been begun and has no receipt is in the hands of the one  *)
(* daemon that runs its loop, or of none.                                       *)
Custody ==
    /\ \A d \in Daemons : InHands(d) => hand[d] \in DOMAIN commands
    /\ ~lingers => \A d \in Daemons : Exists(d) =>
         /\ run[d] \in {"starting", "start"} =>
               \A i \in DOMAIN commands : Pending(i) => Untouched(i)
         /\ loop[d] \in {"check", "fetch"} =>
               \A i \in DOMAIN commands : Pending(i) => Untouched(i)
         /\ InHands(d) =>
               /\ Pending(hand[d])
               /\ \A i \in DOMAIN commands : Pending(i) /\ i # hand[d] => Untouched(i)

Inv == TypeOK /\ Ownership /\ Custody /\ BegunOnce

LEMMA InitInv == Init => Inv
BY DEF Init, Inv, TypeOK, Ownership, Holding, Custody, BegunOnce, InHands, Exists, Receipts,
       Kinds

-----------------------------------------------------------------------------
(* Types                                                                   *)

LEMMA WriteTypes ==
    ASSUME NEW d \in Daemons, NEW state \in {"starting", "recording", "paused",
                                             "stopping", "stopped", "failed"},
           Write(d, state)
    PROVE  row' \in [pid : Daemons, state : {"starting", "recording", "paused",
                                             "stopping", "stopped", "failed"}]
BY DEF Write

LEMMA LeaveTypes ==
    ASSUME NEW d \in Daemons, TypeOK, Leave(d)
    PROVE  /\ lock' \in Daemons \cup {"none"}
           /\ main' \in [Daemons -> {"idle", "check", "poll", "givingUp", "await",
                                     "leaving", "ended"}]
BY DEF TypeOK, Leave, MainGoto

LEMMA ShutdownTypes ==
    ASSUME NEW d \in Daemons, NEW final \in {"stopped", "failed"}, TypeOK,
           BeginShutdown(d, final)
    PROVE  /\ shut' \in [Daemons -> {"no", "stopped", "failed", "done"}]
           /\ row' \in [pid : Daemons, state : {"starting", "recording", "paused",
                                                "stopping", "stopped", "failed"}]
BY DEF TypeOK, BeginShutdown, Write

LEMMA MainTypes ==
    ASSUME NEW d \in Daemons, TypeOK, Main(d), lingers' = lingers PROVE TypeOK'
<1>1. CASE Lock(d) \/ LockIsHeld(d) \/ Exit(d)
  BY <1>1 DEF TypeOK, Lock, LockIsHeld, Exit, MainGoto, daemon, budget
<1>5. CASE StartRun(d)
  BY <1>5 DEF TypeOK, StartRun, MainGoto, RunGoto, budget
<1>6. CASE Crash(d)
  BY <1>6 DEF TypeOK, Crash, MainGoto, daemon
<1>2. CASE RowIsLive(d) \/ GiveUp(d) \/ ReadThrows(d) \/ MainReturns(d)
  <2>1. /\ lock' \in Daemons \cup {"none"}
        /\ main' \in [Daemons -> {"idle", "check", "poll", "givingUp", "await",
                                  "leaving", "ended"}]
    BY <1>2, LeaveTypes DEF RowIsLive, GiveUp, ReadThrows, MainReturns
  <2> QED BY <1>2, <2>1 DEF TypeOK, RowIsLive, GiveUp, ReadThrows, MainReturns, Fault,
              daemon, budget
<1>3. CASE PollSeesRecording(d) \/ PollSeesFailed(d)
  <2>1. row.state = "recording" => row.pid \in Daemons
    BY DEF TypeOK
  <2> QED BY <1>3, <2>1 DEF TypeOK, PollSeesRecording, PollSeesFailed, MainGoto, daemon,
              budget
<1>4. CASE PollGivesUp(d)
  <2>1. /\ shut' \in [Daemons -> {"no", "stopped", "failed", "done"}]
        /\ row' \in [pid : Daemons, state : {"starting", "recording", "paused",
                                             "stopping", "stopped", "failed"}]
    BY <1>4, ShutdownTypes DEF PollGivesUp
  <2> QED BY <1>4, <2>1 DEF TypeOK, PollGivesUp, MainGoto, daemon, budget
<1> QED BY <1>1, <1>2, <1>3, <1>4, <1>5, <1>6 DEF Main

LEMMA RunTypes ==
    ASSUME NEW d \in Daemons, TypeOK, Run(d), lingers' = lingers PROVE TypeOK'
<1>1. CASE RunAbandon(d)
  <2> DEFINE next(i) == IF Pending(i) THEN [commands[i] EXCEPT !.receipt = "abandoned"]
                                      ELSE commands[i]
  <2>1. /\ commands \in Seq(Commands)
        /\ commands' = [i \in 1 .. Len(commands) |-> next(i)]
    BY <1>1 DEF TypeOK, RunAbandon, Commands
  <2>2. ASSUME NEW i \in 1 .. Len(commands) PROVE next(i) \in Commands
    <3>1. commands[i] \in Commands
      BY <2>1, ElementOfSeq
    <3> QED BY <3>1 DEF Commands, Receipts
  <2> HIDE DEF next
  <2>3. commands' \in Seq(Commands) /\ Len(commands') = Len(commands)
    BY <2>1, <2>2
  <2> QED BY <1>1, <2>3 DEF TypeOK, RunAbandon, RunGoto, budget, Commands
<1>2. CASE RunWritesStatus(d)
  <2>1. row' \in [pid : Daemons, state : {"starting", "recording", "paused",
                                          "stopping", "stopped", "failed"}]
    BY <1>2 DEF RunWritesStatus, Write, TypeOK
  <2> QED BY <1>2, <2>1 DEF TypeOK, RunWritesStatus, RunGoto, budget
<1>3. CASE RunThrows(d) \/ RunReturns(d)
  <2>1. run' = [run EXCEPT ![d] = "returned"]
    BY <1>3 DEF RunThrows, RunReturns, RunGoto
  <2>2. faults' \in 0 .. MaxFaults /\ crashes' \in 0 .. MaxCrashes
    BY <1>3 DEF RunThrows, RunReturns, Fault, TypeOK, budget
  <2> QED BY <1>3, <2>1, <2>2 DEF TypeOK, RunThrows, RunReturns
<1>4. CASE RunRecords(d)
  <2>1. row' \in [pid : Daemons, state : {"starting", "recording", "paused",
                                          "stopping", "stopped", "failed"}]
    BY <1>4, WriteTypes DEF RunRecords
  <2> QED BY <1>4, <2>1 DEF TypeOK, RunRecords, RunGoto, LoopGoto, budget
<1>5. CASE RunFails(d)
  <2>1. row' \in [pid : Daemons, state : {"starting", "recording", "paused",
                                          "stopping", "stopped", "failed"}]
    BY <1>5, WriteTypes DEF RunFails
  <2> QED BY <1>5, <2>1 DEF TypeOK, RunFails, RunGoto, budget
<1> QED BY <1>1, <1>2, <1>3, <1>4, <1>5 DEF Run

LEMMA ShutdownStepTypes ==
    ASSUME NEW d \in Daemons, TypeOK, StopOrFail(d) \/ FinishShutdown(d), lingers' = lingers
    PROVE  TypeOK'
<1>1. CASE StopOrFail(d)
  <2>1. /\ shut' \in [Daemons -> {"no", "stopped", "failed", "done"}]
        /\ row' \in [pid : Daemons, state : {"starting", "recording", "paused",
                                             "stopping", "stopped", "failed"}]
    BY <1>1, ShutdownTypes DEF StopOrFail
  <2> QED BY <1>1, <2>1 DEF TypeOK, StopOrFail, budget
<1>2. CASE FinishShutdown(d)
  BY <1>2 DEF TypeOK, FinishShutdown, Write, budget
<1> QED BY <1>1, <1>2

LEMMA AnswerTypes ==
    ASSUME NEW d \in Daemons, NEW receipt \in Receipts, TypeOK, Custody, InHands(d),
           Answer(d, receipt)
    PROVE  /\ commands' \in Seq(Commands)
           /\ Len(commands') = Len(commands)
           /\ hand[d] \in 1 .. Len(commands)
           /\ commands'[hand[d]] = [commands[hand[d]] EXCEPT !.receipt = receipt]
           /\ \A i \in 1 .. Len(commands) : i # hand[d] => commands'[i] = commands[i]
<1>1. commands \in Seq(Commands) /\ hand[d] \in 1 .. Len(commands)
  BY DEF TypeOK, Custody, Commands
<1>2. [commands[hand[d]] EXCEPT !.receipt = receipt] \in Commands
  <2>1. commands[hand[d]] \in Commands
    BY <1>1, ElementOfSeq
  <2> QED BY <2>1 DEF Commands
<1>3. commands' = [commands EXCEPT ![hand[d]] = [commands[hand[d]] EXCEPT !.receipt = receipt]]
  BY DEF Answer
<1> QED BY <1>1, <1>2, <1>3

LEMMA LoopTypes ==
    ASSUME NEW d \in Daemons, TypeOK, Custody, Loop(d), lingers' = lingers PROVE TypeOK'
<1>1. CASE LoopChecks(d) \/ LoopFindsNothing(d) \/ LoopStopped(d)
  BY <1>1 DEF TypeOK, LoopChecks, LoopFindsNothing, LoopStopped, LoopGoto, budget
<1>2. CASE LoopFetches(d)
  <2>1. PICK i \in DOMAIN commands :
           /\ hand' = [hand EXCEPT ![d] = i]
           /\ commands' = [commands EXCEPT ![i].by = Append(@, d)]
    BY <1>2 DEF LoopFetches
  <2>2. commands \in Seq(Commands) /\ i \in 1 .. Len(commands)
    BY DEF TypeOK, Commands
  <2>3. [commands[i] EXCEPT !.by = Append(commands[i].by, d)] \in Commands
    <3>1. commands[i] \in Commands
      BY <2>2, ElementOfSeq
    <3>2. Append(commands[i].by, d) \in Seq(Daemons)
      BY <3>1 DEF Commands
    <3> QED BY <3>1, <3>2 DEF Commands
  <2>4. commands' \in Seq(Commands) /\ Len(commands') = Len(commands)
    BY <2>1, <2>2, <2>3
  <2> QED BY <1>2, <2>1, <2>2, <2>4 DEF TypeOK, LoopFetches, LoopGoto, budget, Commands
<1>3. CASE LoopPausesOrResumes(d)
  BY <1>3 DEF TypeOK, LoopPausesOrResumes, LoopGoto, Write, budget
<1>4. CASE LoopStops(d)
  <2>1. CASE shut[d] = "no"
    <3>1. /\ shut' \in [Daemons -> {"no", "stopped", "failed", "done"}]
          /\ row' \in [pid : Daemons, state : {"starting", "recording", "paused",
                                               "stopping", "stopped", "failed"}]
      BY <1>4, <2>1, ShutdownTypes DEF LoopStops
    <3> QED BY <1>4, <2>1, <3>1 DEF TypeOK, LoopStops, LoopGoto, budget
  <2>2. CASE shut[d] # "no"
    <3>1. row' \in [pid : Daemons, state : {"starting", "recording", "paused",
                                            "stopping", "stopped", "failed"}]
      BY <1>4, <2>2, WriteTypes DEF LoopStops
    <3> QED BY <1>4, <2>2, <3>1 DEF TypeOK, LoopStops, LoopGoto, budget
  <2> QED BY <2>1, <2>2
<1>5. CASE LoopAnswers(d)
  <2>1. commands' \in Seq(Commands) /\ Len(commands') = Len(commands)
    BY <1>5, AnswerTypes DEF LoopAnswers, InHands, Receipts
  <2> QED BY <1>5, <2>1 DEF TypeOK, LoopAnswers, LoopGoto, budget, Commands
<1>6. CASE LoopThrows(d)
  <2>1. commands' \in Seq(Commands) /\ Len(commands') = Len(commands)
    BY <1>6, AnswerTypes DEF LoopThrows, InHands, Receipts, TypeOK, Commands
  <2>2. \/ /\ shut' \in [Daemons -> {"no", "stopped", "failed", "done"}]
           /\ row' \in [pid : Daemons, state : {"starting", "recording", "paused",
                                                "stopping", "stopped", "failed"}]
        \/ UNCHANGED <<row, shut>>
    BY <1>6, ShutdownTypes DEF LoopThrows
  <2> QED BY <1>6, <2>1, <2>2 DEF TypeOK, LoopThrows, LoopGoto, Fault, Commands
<1> QED BY <1>1, <1>2, <1>3, <1>4, <1>5, <1>6 DEF Loop

LEMMA SendTypes ==
    ASSUME NEW s \in Senders, TypeOK, Send(s), lingers' = lingers PROVE TypeOK'
<1>1. CASE SeeDaemon(s) \/ SeeNoDaemon(s) \/ TimeOut(s)
  BY <1>1 DEF TypeOK, SeeDaemon, SeeNoDaemon, TimeOut, SenderGoto, daemon, budget
<1>2. CASE Enqueue(s)
  <2>1. PICK kind \in Kinds :
           commands' = Append(commands, [from |-> s, kind |-> kind, by |-> <<>>,
                                         receipt |-> "pending"])
    BY <1>2 DEF Enqueue
  <2>2. commands \in Seq(Commands)
    BY DEF TypeOK, Commands
  <2>3. [from |-> s, kind |-> kind, by |-> <<>>, receipt |-> "pending"] \in Commands
    BY DEF Commands, Receipts
  <2>4. commands' \in Seq(Commands) /\ Len(commands') = Len(commands) + 1
    BY <2>1, <2>2, <2>3
  <2> QED BY <1>2, <2>2, <2>4 DEF TypeOK, Enqueue, SenderGoto, daemon, budget, Commands
<1>3. CASE SeeReceipt(s)
  <2>1. PICK i \in DOMAIN commands : pc' = [pc EXCEPT ![s] = commands[i].receipt]
    BY <1>3 DEF SeeReceipt, SenderGoto
  <2>2. commands \in Seq(Commands) /\ i \in 1 .. Len(commands)
    BY DEF TypeOK, Commands
  <2>3. commands[i] \in Commands
    BY <2>2, ElementOfSeq
  <2>4. commands[i].receipt \in Receipts
    BY <2>3 DEF Commands
  <2> QED BY <1>3, <2>1, <2>4 DEF TypeOK, SeeReceipt, daemon, budget
<1> QED BY <1>1, <1>2, <1>3 DEF Send

LEMMA NextTypes == TypeOK /\ Custody /\ [Next]_vars => TypeOK'
<1> SUFFICES ASSUME TypeOK, Custody, [Next]_vars PROVE TypeOK'
  OBVIOUS
<1>1. CASE UNCHANGED vars
  BY <1>1 DEF TypeOK, vars, daemon, budget
<1>2. ASSUME NEW d \in Daemons, Daemon(d), UNCHANGED lingers PROVE TypeOK'
  BY <1>2, MainTypes, RunTypes, ShutdownStepTypes, LoopTypes DEF Daemon
<1>3. ASSUME NEW s \in Senders, Send(s), UNCHANGED lingers PROVE TypeOK'
  BY <1>3, SendTypes
<1> QED BY <1>1, <1>2, <1>3 DEF Next, Terminated

-----------------------------------------------------------------------------
(* Who holds the lock, and who writes the row                              *)

LEMMA MainOwns ==
    ASSUME NEW d \in Daemons, TypeOK, Ownership, Main(d), lingers' = lingers
    PROVE  Ownership'
<1> USE DEF Ownership, Holding, MainGoto
<1>1. CASE Lock(d) \/ LockIsHeld(d)
  BY <1>1 DEF TypeOK, Lock, LockIsHeld, daemon
<1>2. CASE RowIsLive(d) \/ GiveUp(d) \/ ReadThrows(d) \/ MainReturns(d)
  <2>1. /\ UNCHANGED <<row, run, shut, loop>>
        /\ Leave(d) /\ main[d] \in {"check", "poll", "givingUp", "await"}
    BY <1>2 DEF RowIsLive, GiveUp, ReadThrows, MainReturns, daemon
  <2>2. /\ lock = d /\ lock' = "none"
        /\ main'[d] = IF lingers THEN "leaving" ELSE "ended"
        /\ \A e \in Daemons : e # d => main'[e] = main[e]
    BY <2>1 DEF Leave, TypeOK
  <2>3. \A e \in Daemons : e # d => main[e] \notin Holding
    BY <2>2
  <2> QED BY <2>1, <2>2, <2>3
<1>3. CASE StartRun(d)
  BY <1>3 DEF TypeOK, StartRun, RunGoto
<1>4. CASE PollSeesRecording(d) \/ PollSeesFailed(d)
  BY <1>4 DEF TypeOK, PollSeesRecording, PollSeesFailed, daemon
<1>5. CASE PollGivesUp(d)
  BY <1>5 DEF TypeOK, PollGivesUp, BeginShutdown, Write
<1>6. CASE Exit(d) \/ Crash(d)
  BY <1>6 DEF TypeOK, Exit, Crash, daemon
<1> QED BY <1>1, <1>2, <1>3, <1>4, <1>5, <1>6 DEF Main

LEMMA RunOwns ==
    ASSUME NEW d \in Daemons, TypeOK, Ownership, Run(d), lingers' = lingers
    PROVE  Ownership'
<1> USE DEF Ownership, RunGoto
<1>1. CASE RunAbandon(d) \/ RunThrows(d) \/ RunReturns(d)
  BY <1>1 DEF TypeOK, RunAbandon, RunThrows, RunReturns
<1>2. CASE RunWritesStatus(d)
  BY <1>2 DEF TypeOK, RunWritesStatus, Write
<1>3. CASE RunRecords(d) \/ RunFails(d)
  BY <1>3 DEF TypeOK, RunRecords, RunFails, LoopGoto, Write
<1> QED BY <1>1, <1>2, <1>3 DEF Run

LEMMA ShutdownOwns ==
    ASSUME NEW d \in Daemons, TypeOK, Ownership, StopOrFail(d) \/ FinishShutdown(d),
           lingers' = lingers
    PROVE  Ownership'
<1>1. CASE StopOrFail(d)
  BY <1>1 DEF Ownership, TypeOK, StopOrFail, BeginShutdown, Write
<1>2. CASE FinishShutdown(d)
  BY <1>2 DEF Ownership, TypeOK, FinishShutdown, Write
<1> QED BY <1>1, <1>2

LEMMA LoopOwns ==
    ASSUME NEW d \in Daemons, TypeOK, Ownership, Loop(d), lingers' = lingers
    PROVE  Ownership'
<1> USE DEF Ownership, LoopGoto
<1>1. CASE LoopChecks(d) \/ LoopFetches(d) \/ LoopFindsNothing(d) \/ LoopStopped(d)
           \/ LoopAnswers(d)
  BY <1>1 DEF TypeOK, LoopChecks, LoopFetches, LoopFindsNothing, LoopStopped, LoopAnswers
<1>2. CASE LoopPausesOrResumes(d)
  BY <1>2 DEF TypeOK, LoopPausesOrResumes, InHand, Write
<1>3. CASE LoopStops(d)
  BY <1>3 DEF TypeOK, LoopStops, InHand, BeginShutdown, Write
<1>4. CASE LoopThrows(d)
  BY <1>4 DEF TypeOK, LoopThrows, BeginShutdown, Write
<1> QED BY <1>1, <1>2, <1>3, <1>4 DEF Loop

LEMMA NextOwns == TypeOK /\ Ownership /\ [Next]_vars => Ownership'
<1> SUFFICES ASSUME TypeOK, Ownership, [Next]_vars PROVE Ownership'
  OBVIOUS
<1>1. CASE UNCHANGED vars
  BY <1>1 DEF Ownership, vars, daemon
<1>2. ASSUME NEW d \in Daemons, Daemon(d), UNCHANGED lingers PROVE Ownership'
  BY <1>2, MainOwns, RunOwns, ShutdownOwns, LoopOwns DEF Daemon
<1>3. ASSUME NEW s \in Senders, Send(s), UNCHANGED lingers PROVE Ownership'
  BY <1>3 DEF Ownership, Send, SeeDaemon, SeeNoDaemon, Enqueue, SeeReceipt, TimeOut, daemon
<1> QED BY <1>1, <1>2, <1>3 DEF Next, Terminated

-----------------------------------------------------------------------------
(* Who has which command                                                   *)

\* Of the processes that have reached run(), one exists, unless others linger.
LEMMA OneDaemonRuns ==
    ASSUME TypeOK, Ownership, ~lingers, NEW d \in Daemons, Exists(d), run[d] # "unstarted"
    PROVE  lock = d
BY DEF TypeOK, Ownership, Exists, Holding

\* A step that leaves the commands alone keeps custody, if no loop gets further
\* towards a command by it.
LEMMA CustodyStays ==
    ASSUME Custody, BegunOnce, UNCHANGED <<commands, hand, lingers>>,
           \A d \in Daemons :
              /\ Exists(d)' => Exists(d) \/ (loop'[d] = "unstarted" /\ run'[d] = "unstarted")
              /\ InHands(d)' => InHands(d)
              /\ run'[d] \in {"starting", "start"} => run[d] \in {"starting", "start"}
              /\ loop'[d] \in {"check", "fetch"} =>
                    loop[d] \in {"check", "fetch"} \/ run[d] \in {"starting", "start"}
    PROVE  Custody' /\ BegunOnce'
<1>1. BegunOnce'
  BY DEF BegunOnce
<1>2. \A i : (Pending(i) <=> Pending(i)') /\ (Untouched(i) <=> Untouched(i)')
  BY DEF Pending, Untouched
<1>3. \A d \in Daemons : InHands(d)' => hand'[d] \in DOMAIN commands'
  BY DEF Custody
<1>4. ASSUME ~lingers', NEW d \in Daemons, Exists(d)'
      PROVE  /\ run'[d] \in {"starting", "start"} \/ loop'[d] \in {"check", "fetch"} =>
                   \A i \in DOMAIN commands : Pending(i) => Untouched(i)
             /\ InHands(d)' =>
                   /\ Pending(hand[d])
                   /\ \A i \in DOMAIN commands : Pending(i) /\ i # hand[d] => Untouched(i)
  <2>1. CASE Exists(d)
    BY <1>4, <2>1 DEF Custody
  <2>2. CASE ~Exists(d)
    BY <1>4, <2>2 DEF InHands
  <2> QED BY <2>1, <2>2
<1>5. QED  BY <1>1, <1>2, <1>3, <1>4 DEF Custody

LEMMA MainCustody ==
    ASSUME NEW d \in Daemons, TypeOK, Ownership, Custody, BegunOnce, Main(d),
           lingers' = lingers
    PROVE  Custody' /\ BegunOnce'
<1>1. UNCHANGED <<commands, hand, loop>>
  BY DEF Main, Lock, LockIsHeld, RowIsLive, StartRun, PollSeesRecording, PollSeesFailed,
         PollGivesUp, GiveUp, ReadThrows, MainReturns, Exit, Crash, daemon
<1>2. \A e \in Daemons : run'[e] = run[e] \/ run'[e] = "abandon"
  BY DEF Main, Lock, LockIsHeld, RowIsLive, StartRun, PollSeesRecording, PollSeesFailed,
         PollGivesUp, GiveUp, ReadThrows, MainReturns, Exit, Crash, daemon, RunGoto, TypeOK
<1>3. \A e \in Daemons :
         Exists(e)' => Exists(e) \/ (loop[e] = "unstarted" /\ run'[e] = "unstarted")
  <2>1. CASE Lock(d)
    BY <2>1 DEF Lock, MainGoto, Exists, TypeOK, Ownership, daemon
  <2>2. CASE ~Lock(d)
    BY <2>2 DEF Main, LockIsHeld, RowIsLive, StartRun, PollSeesRecording, PollSeesFailed,
         PollGivesUp, GiveUp, ReadThrows, MainReturns, Exit, Crash, Leave, MainGoto, Exists,
         TypeOK
  <2> QED BY <2>1, <2>2
<1>4. QED  BY <1>1, <1>2, <1>3, CustodyStays DEF InHands

LEMMA RunCustody ==
    ASSUME NEW d \in Daemons, TypeOK, Ownership, Custody, BegunOnce, Run(d),
           lingers' = lingers
    PROVE  Custody' /\ BegunOnce'
<1>1. CASE RunAbandon(d)
  <2>1. /\ UNCHANGED <<hand, loop, main>>
        /\ DOMAIN commands' = DOMAIN commands
        /\ \A i \in DOMAIN commands : ~Pending(i)' /\ commands'[i].by = commands[i].by
    <3>1. commands \in Seq(Commands)
      BY DEF TypeOK, Commands
    <3>2. \A i \in DOMAIN commands : commands[i] \in Commands
      BY <3>1, ElementOfSeq
    <3> QED BY <1>1, <3>2 DEF RunAbandon, Pending, Commands
  <2>2. Exists(d) /\ run[d] = "abandon" /\ loop[d] = "unstarted"
    BY <1>1 DEF RunAbandon, Ownership
  <2>3. ASSUME ~lingers, NEW e \in Daemons, Exists(e), InHands(e) PROVE FALSE
    <3>1. run[e] # "unstarted" /\ e # d
      BY <2>2, <2>3 DEF Ownership, InHands, TypeOK
    <3> QED BY <2>2, <2>3, <3>1, OneDaemonRuns
  <2>4. Custody'
    BY <2>1, <2>3 DEF Custody, InHands, Exists
  <2> QED BY <2>1, <2>4 DEF BegunOnce
<1>2. CASE ~RunAbandon(d)
  <2>1. UNCHANGED <<commands, hand, main>>
    BY <1>2 DEF Run, RunWritesStatus, RunThrows, RunRecords, RunFails, RunReturns
  <2>2. \A e \in Daemons :
           /\ run'[e] \in {"starting", "start"} => run[e] \in {"starting", "start"}
           /\ loop'[e] = loop[e] \/ (loop'[e] = "check" /\ run[e] = "start")
    BY <1>2 DEF Run, RunWritesStatus, RunThrows, RunRecords, RunFails, RunReturns, RunGoto,
                LoopGoto, TypeOK
  <2> QED BY <2>1, <2>2, CustodyStays DEF InHands, Exists
<1> QED BY <1>1, <1>2

LEMMA ShutdownCustody ==
    ASSUME NEW d \in Daemons, Custody, BegunOnce, StopOrFail(d) \/ FinishShutdown(d),
           lingers' = lingers
    PROVE  Custody' /\ BegunOnce'
<1>1. UNCHANGED <<commands, hand, loop, run, main>>
  BY DEF StopOrFail, FinishShutdown
<1> QED BY <1>1, CustodyStays DEF InHands, Exists

\* What the other daemons have in hand does not matter when one of them acts.
LEMMA OthersAreGone ==
    ASSUME NEW d \in Daemons, NEW e \in Daemons, e # d, TypeOK, Ownership, ~lingers,
           Exists(d), Exists(e), loop[d] # "unstarted"
    PROVE  run[e] = "unstarted" /\ loop[e] = "unstarted"
<1>1. run[d] # "unstarted"
  BY DEF Ownership
<1>2. run[e] = "unstarted"
  BY <1>1, OneDaemonRuns
<1> QED BY <1>2 DEF Ownership

LEMMA LoopCustody ==
    ASSUME NEW d \in Daemons, TypeOK, Ownership, Custody, BegunOnce, Loop(d),
           lingers' = lingers
    PROVE  Custody' /\ BegunOnce'
<1>0. /\ UNCHANGED <<main, run>>
      /\ Exists(d) /\ loop[d] # "unstarted"
      /\ \A e \in Daemons : Exists(e) <=> Exists(e)'
  BY DEF Loop, LoopChecks, LoopFetches, LoopFindsNothing, LoopPausesOrResumes, LoopStops,
         LoopStopped, LoopAnswers, LoopThrows, InHand, Exists
<1>1. ASSUME UNCHANGED <<commands, hand>>,
             InHands(d)' => InHands(d),
             loop'[d] \in {"check", "fetch"} => loop[d] \in {"check", "fetch"},
             \A e \in Daemons : e # d => loop'[e] = loop[e]
      PROVE  Custody' /\ BegunOnce'
  BY <1>0, <1>1, CustodyStays DEF InHands
<1>2. CASE LoopChecks(d) \/ LoopFindsNothing(d)
  BY <1>1, <1>2 DEF LoopChecks, LoopFindsNothing, LoopGoto, InHands, TypeOK
<1>3. CASE LoopPausesOrResumes(d) \/ LoopStops(d) \/ LoopStopped(d)
  BY <1>1, <1>3 DEF LoopPausesOrResumes, LoopStops, LoopStopped, InHand, LoopGoto, InHands,
                    TypeOK
<1>4. CASE LoopFetches(d)
  <2>1. PICK i \in DOMAIN commands :
           /\ Pending(i)
           /\ hand' = [hand EXCEPT ![d] = i]
           /\ commands' = [commands EXCEPT ![i].by = Append(@, d)]
    BY <1>4 DEF LoopFetches
  <2>2. commands \in Seq(Commands) /\ i \in 1 .. Len(commands)
    BY DEF TypeOK, Commands
  <2>3. commands[i] \in Commands
    BY <2>2, ElementOfSeq
  <2>4. /\ hand'[d] = i
        /\ \A e \in Daemons : e # d => hand'[e] = hand[e] /\ loop'[e] = loop[e]
        /\ loop[d] = "fetch" /\ loop'[d] = "process"
        /\ DOMAIN commands' = DOMAIN commands
        /\ \A j \in DOMAIN commands : j # i => commands'[j] = commands[j]
        /\ commands'[i].receipt = commands[i].receipt
        /\ commands'[i].by = Append(commands[i].by, d)
    <3> DEFINE next == [commands[i] EXCEPT !.by = Append(commands[i].by, d)]
    <3>1. next.receipt = commands[i].receipt /\ next.by = Append(commands[i].by, d)
      BY <2>3 DEF Commands
    <3>2. commands' = [commands EXCEPT ![i] = next]
      BY <2>1
    <3> HIDE DEF next
    <3>3. /\ DOMAIN commands' = DOMAIN commands /\ commands'[i] = next
          /\ \A j \in DOMAIN commands : j # i => commands'[j] = commands[j]
      BY <2>2, <3>2
    <3>4. /\ hand'[d] = i
          /\ \A e \in Daemons : e # d => hand'[e] = hand[e] /\ loop'[e] = loop[e]
          /\ loop[d] = "fetch" /\ loop'[d] = "process"
      <4>1. loop' = [loop EXCEPT ![d] = "process"] /\ loop[d] = "fetch"
        BY <1>4 DEF LoopFetches, LoopGoto
      <4>2. DOMAIN loop = Daemons /\ DOMAIN hand = Daemons
        BY DEF TypeOK
      <4> QED BY <2>1, <4>1, <4>2
    <3> QED BY <3>1, <3>3, <3>4
  <2>5. ASSUME ~lingers
        PROVE  \A j \in DOMAIN commands : Pending(j) => Untouched(j)
    BY <1>0, <2>4, <2>5 DEF Custody
  <2>6. BegunOnce'
    BY <2>1, <2>4, <2>5 DEF BegunOnce, Untouched
  <2>7. \A e \in Daemons : InHands(e)' => hand'[e] \in DOMAIN commands'
    BY <2>4 DEF Custody, InHands
  <2>8. ASSUME ~lingers, NEW e \in Daemons, Exists(e), e # d
        PROVE  run'[e] = "unstarted" /\ loop'[e] = "unstarted"
    BY <1>0, <2>4, <2>8, OthersAreGone
  <2>9. ASSUME ~lingers
        PROVE  /\ Pending(hand[d])'
               /\ \A j \in DOMAIN commands : Pending(j)' /\ j # i => Untouched(j)'
    BY <2>1, <2>4, <2>5, <2>9 DEF Pending, Untouched
  <2>10. run[d] \notin {"starting", "start"}
    BY <1>0 DEF Ownership
  <2>11. Custody'
    BY <1>0, <2>4, <2>7, <2>8, <2>9, <2>10 DEF Custody, InHands
  <2> QED BY <2>6, <2>11
<1>5. ASSUME NEW receipt \in Receipts \ {"pending"}, InHands(d), Answer(d, receipt),
             UNCHANGED hand, ~InHands(d)',
             \A e \in Daemons : e # d => loop'[e] = loop[e]
      PROVE  Custody' /\ BegunOnce'
  <2>1. /\ DOMAIN commands' = DOMAIN commands
        /\ hand[d] \in DOMAIN commands
        /\ commands'[hand[d]] = [commands[hand[d]] EXCEPT !.receipt = receipt]
        /\ \A i \in DOMAIN commands : i # hand[d] => commands'[i] = commands[i]
    <3>1. commands \in Seq(Commands)
      BY DEF TypeOK, Commands
    <3> QED BY <1>5, <3>1, AnswerTypes
  <2>2. commands[hand[d]] \in Commands
    <3>1. commands \in Seq(Commands)
      BY DEF TypeOK, Commands
    <3> QED BY <2>1, <3>1, ElementOfSeq
  <2>3. \A i \in DOMAIN commands :
           /\ commands'[i].by = commands[i].by
           /\ i # hand[d] => (Pending(i)' <=> Pending(i))
           /\ Untouched(i)' <=> Untouched(i)
    BY <2>1, <2>2 DEF Commands, Pending, Untouched
  <2>4. ~Pending(hand[d])'
    BY <1>5, <2>1, <2>2 DEF Commands, Pending
  <2>5. BegunOnce'
    BY <2>1, <2>3 DEF BegunOnce
  <2>6. ASSUME ~lingers PROVE \A i \in DOMAIN commands : Pending(i)' => Untouched(i)'
    BY <1>0, <1>5, <2>3, <2>4, <2>6 DEF Custody
  <2>7. ASSUME ~lingers, NEW e \in Daemons, Exists(e), e # d
        PROVE  run'[e] = "unstarted" /\ loop'[e] = "unstarted"
    BY <1>0, <1>5, <2>7, OthersAreGone
  <2>8. \A e \in Daemons : InHands(e)' => hand'[e] \in DOMAIN commands'
    BY <1>5, <2>1 DEF Custody, InHands
  <2>9. Custody'
    BY <1>0, <1>5, <2>1, <2>6, <2>7, <2>8 DEF Custody, InHands
  <2> QED BY <2>5, <2>9
<1>6. CASE LoopAnswers(d)
  <2>1. "ok" \in Receipts \ {"pending"} /\ InHands(d) /\ Answer(d, "ok") /\ UNCHANGED hand
        /\ ~InHands(d)' /\ \A e \in Daemons : e # d => loop'[e] = loop[e]
    BY <1>6 DEF LoopAnswers, LoopGoto, InHands, Receipts, TypeOK
  <2> QED BY <1>5, <2>1
<1>7. CASE LoopThrows(d)
  <2>1. UNCHANGED hand /\ ~InHands(d)' /\ loop'[d] = "done"
        /\ \A e \in Daemons : e # d => loop'[e] = loop[e]
    BY <1>7 DEF LoopThrows, LoopGoto, InHands, TypeOK
  <2>2. CASE UNCHANGED commands
    BY <1>1, <2>1, <2>2
  <2>3. CASE loop[d] \in {"process", "answer"} /\ Answer(d, "error")
    <3>1. InHands(d) /\ "error" \in Receipts \ {"pending"}
      BY <2>3 DEF InHands, Receipts
    <3> QED BY <1>5, <2>1, <2>3, <3>1
  <2> QED BY <1>7, <2>2, <2>3 DEF LoopThrows
<1> QED BY <1>2, <1>3, <1>4, <1>6, <1>7 DEF Loop

LEMMA SendCustody ==
    ASSUME NEW s \in Senders, TypeOK, Custody, BegunOnce, Send(s), lingers' = lingers
    PROVE  Custody' /\ BegunOnce'
<1>0. UNCHANGED <<hand, loop, run, main>>
  BY DEF Send, SeeDaemon, SeeNoDaemon, Enqueue, SeeReceipt, TimeOut, daemon
<1>1. CASE Enqueue(s)
  <2>1. PICK kind \in Kinds :
           commands' = Append(commands, [from |-> s, kind |-> kind, by |-> <<>>,
                                         receipt |-> "pending"])
    BY <1>1 DEF Enqueue
  <2>2. commands \in Seq(Commands)
    BY DEF TypeOK, Commands
  <2>3. /\ DOMAIN commands = 1 .. Len(commands) /\ Len(commands) \in Nat
        /\ DOMAIN commands' = 1 .. Len(commands) + 1
        /\ \A i \in DOMAIN commands : commands'[i] = commands[i]
        /\ commands'[Len(commands) + 1].by = <<>>
    BY <2>1, <2>2
  <2>4. \A i \in DOMAIN commands' :
           \/ i \in DOMAIN commands /\ (Pending(i)' <=> Pending(i))
                                   /\ (Untouched(i)' <=> Untouched(i))
           \/ Untouched(i)'
    BY <2>3 DEF Pending, Untouched
  <2>5. BegunOnce'
    BY <2>3 DEF BegunOnce
  <2>6. \A d \in Daemons : InHands(d)' =>
           hand'[d] \in DOMAIN commands' /\ (Pending(hand[d]) <=> Pending(hand[d])')
    BY <1>0, <2>3 DEF Custody, InHands, Pending
  <2>7. Custody'
    BY <1>0, <2>4, <2>6 DEF Custody, InHands, Exists
  <2> QED BY <2>5, <2>7
<1>2. CASE ~Enqueue(s)
  <2>1. UNCHANGED commands
    BY <1>2 DEF Send, SeeDaemon, SeeNoDaemon, SeeReceipt, TimeOut
  <2> QED BY <1>0, <2>1, CustodyStays DEF InHands, Exists
<1> QED BY <1>1, <1>2

LEMMA NextInv == Inv /\ [Next]_vars => Inv'
<1> SUFFICES ASSUME Inv, [Next]_vars PROVE Inv'
  OBVIOUS
<1>0. TypeOK /\ Ownership /\ Custody /\ BegunOnce
  BY DEF Inv
<1>1. TypeOK' /\ Ownership'
  BY <1>0, NextTypes, NextOwns
<1>2. Custody' /\ BegunOnce'
  <2>1. CASE UNCHANGED vars
    BY <1>0, <2>1, CustodyStays DEF vars, daemon, InHands, Exists
  <2>2. ASSUME NEW d \in Daemons, Daemon(d), UNCHANGED lingers
        PROVE  Custody' /\ BegunOnce'
    BY <1>0, <2>2, MainCustody, RunCustody, ShutdownCustody, LoopCustody DEF Daemon
  <2>3. ASSUME NEW s \in Senders, Send(s), UNCHANGED lingers
        PROVE  Custody' /\ BegunOnce'
    BY <1>0, <2>3, SendCustody
  <2> QED BY <2>1, <2>2, <2>3 DEF Next, Terminated
<1> QED BY <1>1, <1>2 DEF Inv

-----------------------------------------------------------------------------

THEOREM Invariant == Spec => []Inv
BY InitInv, NextInv, PTL DEF Spec

(* Types; a fetched id is the id of a command. *)
THEOREM TypeCorrect == Spec => []TypeOK
BY Invariant, PTL DEF Inv

(* A command is begun at most once over all lives of the daemon. *)
THEOREM CommandsBeginOnce == Spec => []BegunOnce
BY Invariant, PTL DEF Inv

(* A live row is that of the process that holds the lock, or is on its way out. *)
THEOREM LiveRowIsHolders == Spec => []LiveRowHoldsLock
<1>1. Inv => LiveRowHoldsLock
  BY DEF Inv, TypeOK, Ownership, LiveRowHoldsLock, LiveRow, Exists, Holding
<1> QED BY <1>1, Invariant, PTL

(* Receipts are written once: a loop only answers what it holds, which is       *)
(* pending, and a start only abandons what is pending.                          *)
LEMMA StepKeepsReceipts ==
    ASSUME Inv, [Next]_vars, ~lingers, NEW i \in DOMAIN commands, ~Pending(i)
    PROVE  commands'[i].receipt = commands[i].receipt
<1>0. /\ commands \in Seq(Commands)
      /\ \A d \in Daemons : Exists(d) /\ InHands(d) =>
            hand[d] \in DOMAIN commands /\ Pending(hand[d])
  BY DEF Inv, TypeOK, Commands, Custody
<1>1. CASE UNCHANGED commands
  BY <1>1
<1>2. ASSUME NEW d \in Daemons, RunAbandon(d)
      PROVE  commands'[i].receipt = commands[i].receipt
  BY <1>2 DEF RunAbandon
<1>3. ASSUME NEW d \in Daemons, LoopFetches(d)
      PROVE  commands'[i].receipt = commands[i].receipt
  <2>1. PICK j \in DOMAIN commands : commands' = [commands EXCEPT ![j].by = Append(@, d)]
    BY <1>3 DEF LoopFetches
  <2>2. commands[j] \in Commands
    BY <1>0, ElementOfSeq
  <2> QED BY <2>1, <2>2 DEF Commands
<1>4. ASSUME NEW d \in Daemons, NEW receipt, Exists(d), InHands(d), Answer(d, receipt)
      PROVE  commands'[i].receipt = commands[i].receipt
  <2>1. hand[d] # i
    BY <1>0, <1>4
  <2> QED BY <2>1, <1>4 DEF Answer
<1>5. ASSUME NEW s \in Senders, Enqueue(s)
      PROVE  commands'[i].receipt = commands[i].receipt
  <2>1. PICK new : commands' = Append(commands, new)
    BY <1>5 DEF Enqueue
  <2> QED BY <1>0, <2>1
<1>6. ASSUME NEW d \in Daemons, Daemon(d)
      PROVE  \/ UNCHANGED commands
             \/ RunAbandon(d)
             \/ LoopFetches(d)
             \/ \E receipt : Exists(d) /\ InHands(d) /\ Answer(d, receipt)
  <2>1. CASE Main(d) \/ StopOrFail(d) \/ FinishShutdown(d)
    BY <2>1 DEF Main, Lock, LockIsHeld, RowIsLive, StartRun, PollSeesRecording,
                PollSeesFailed, PollGivesUp, GiveUp, ReadThrows, MainReturns, Exit, Crash,
                StopOrFail, FinishShutdown
  <2>2. CASE Run(d)
    BY <2>2 DEF Run, RunWritesStatus, RunThrows, RunRecords, RunFails, RunReturns
  <2>3. CASE LoopAnswers(d) \/ LoopThrows(d)
    BY <2>3 DEF LoopAnswers, LoopThrows, InHands
  <2>4. CASE Loop(d) /\ ~(LoopAnswers(d) \/ LoopThrows(d))
    BY <2>4 DEF Loop, LoopChecks, LoopFindsNothing, LoopPausesOrResumes, LoopStops,
                LoopStopped
  <2> QED BY <1>6, <2>1, <2>2, <2>3, <2>4 DEF Daemon
<1>7. ASSUME NEW s \in Senders, Send(s), ~Enqueue(s) PROVE UNCHANGED commands
  BY <1>7 DEF Send, SeeDaemon, SeeNoDaemon, SeeReceipt, TimeOut
<1> QED BY <1>1, <1>2, <1>3, <1>4, <1>5, <1>6, <1>7 DEF Next, Terminated, vars

(* What a sender has read of its command stays true.                            *)
THEOREM ReceiptsStay == Spec => ReceiptsAreFinal
<1>1. Inv /\ [Next]_vars =>
        [\A i \in DOMAIN commands :
            ~lingers /\ ~Pending(i) => commands'[i].receipt = commands[i].receipt]_vars
  BY StepKeepsReceipts
<1> QED BY <1>1, Invariant, PTL DEF Spec, ReceiptsAreFinal

=============================================================================

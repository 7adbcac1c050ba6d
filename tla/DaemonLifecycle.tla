--------------------------- MODULE DaemonLifecycle ---------------------------
(***************************************************************************)
(* Several lives of the daemon, and the processes that send it commands    *)
(* (RappRecallCLI.swift): the daemon lock, the check of the runtime row,   *)
(* the start-up poll, crashes, and the command table that outlives them.   *)
(* Of the daemon actor it keeps what other processes see of it: its writes *)
(* to the row and to the command table.  RecallDaemon has the rest.        *)
(***************************************************************************)
EXTENDS Naturals, Sequences

CONSTANTS
    Daemons,    \* processes `rapp-recall daemon`, each with a PID of its own
    Senders,    \* processes `rapp-recall pause|resume|stop --wait`
    MaxFaults,  \* bound: calls of the store that throw
    MaxCrashes  \* bound: daemons that are killed

ASSUME ProcessesAssumption == "none" \notin Daemons
ASSUME LimitsAssumption == MaxFaults \in Nat /\ MaxCrashes \in Nat

Kinds == {"pause", "resume", "stop"}

VARIABLES
    lingers,   \* whether a daemon may act between the release of its lock and its end
    lock,      \* the process that holds .daemon.lock
    row,       \* runtime_state: the PID and the state last written
    commands,  \* runtime_commands; `by` is the daemon that has begun it
    main,      \* where main() of each daemon process stands
    started,   \* PID in the success message each daemon process has printed
    run,       \* where run() of each daemon stands
    shut,      \* shutdown() of each daemon
    loop,      \* where the command loop of each daemon stands
    hand,      \* id of the command the loop has fetched
    pc,        \* where each sender stands
    faults, crashes

daemon == <<run, shut, loop, hand>>
budget == <<faults, crashes>>
vars == <<lingers, lock, row, commands, main, started, daemon, pc, budget>>

Init ==
    /\ lingers \in BOOLEAN
    /\ lock = "none"
    /\ row = [pid |-> "none", state |-> "none"]
    /\ commands = <<>>
    /\ main = [d \in Daemons |-> "idle"]
    /\ started = [d \in Daemons |-> "none"]
    /\ run = [d \in Daemons |-> "unstarted"]
    /\ shut = [d \in Daemons |-> "no"]
    /\ loop = [d \in Daemons |-> "unstarted"]
    /\ hand = [d \in Daemons |-> 0]
    /\ pc = [s \in Senders |-> "idle"]
    /\ faults = 0
    /\ crashes = 0

\* processExists(pid): kill(pid, 0)
Exists(pid) == pid \in Daemons /\ main[pid] \notin {"idle", "ended"}

\* The row claims a running daemon, and its process exists.
LiveRow ==
    /\ row.state \in {"starting", "recording", "paused", "stopping"}
    /\ Exists(row.pid)

Write(d, state) == row' = [pid |-> d, state |-> state]

Fault == faults < MaxFaults /\ faults' = faults + 1 /\ UNCHANGED crashes

MainGoto(d, point) == main' = [main EXCEPT ![d] = point]
RunGoto(d, point) == run' = [run EXCEPT ![d] = point]
LoopGoto(d, point) == loop' = [loop EXCEPT ![d] = point]

-----------------------------------------------------------------------------
(* runDaemon()                                                             *)

\* Faulty: the result of lockf is ignored.
LockIgnored(d) ==
    /\ main[d] = "idle"
    /\ lock' = d
    /\ MainGoto(d, "check")
    /\ UNCHANGED <<row, commands, started, daemon, pc, budget>>

\* DaemonFileLock: lockf(F_TLOCK)
Lock(d) ==
    /\ main[d] = "idle"
    /\ lock = "none"
    /\ lock' = d
    /\ MainGoto(d, "check")
    /\ UNCHANGED <<row, commands, started, daemon, pc, budget>>

\* "Another process holds the Recall daemon lock."
LockIsHeld(d) ==
    /\ main[d] = "idle"
    /\ lock # "none"
    /\ MainGoto(d, "ended")
    /\ UNCHANGED <<lock, row, commands, started, daemon, pc, budget>>

\* defer { daemonLock.release() }; the process has yet to end, and until then its
\* tasks may run beside a successor.
Leave(d) ==
    /\ lock' = IF lock = d THEN "none" ELSE lock
    /\ MainGoto(d, IF lingers THEN "leaving" ELSE "ended")

\* "A Recall daemon is already running"
RowIsLive(d) ==
    /\ main[d] = "check"
    /\ LiveRow
    /\ Leave(d)
    /\ UNCHANGED <<row, commands, started, daemon, pc, budget>>

\* runTask = Task { try await daemon.run() }
StartRun(d) ==
    /\ main[d] = "check"
    /\ ~LiveRow
    /\ RunGoto(d, "abandon")
    /\ MainGoto(d, "poll")
    /\ UNCHANGED <<lock, row, commands, started, shut, loop, hand, pc, budget>>

\* The poll reads a row that says recording: the success message.
PollSeesRecording(d) ==
    /\ main[d] = "poll"
    /\ row.state = "recording"
    /\ started' = [started EXCEPT ![d] = row.pid]
    /\ MainGoto(d, "await")
    /\ UNCHANGED <<lock, row, commands, daemon, pc, budget>>

PollSeesFailed(d) ==
    /\ main[d] = "poll"
    /\ row.state = "failed"
    /\ MainGoto(d, "await")
    /\ UNCHANGED <<lock, row, commands, started, daemon, pc, budget>>

\* shutdown(finalState:), once its guard has passed: the state `stopping`, or
\* `failed`, is written.
BeginShutdown(d, final) ==
    /\ shut[d] = "no"
    /\ shut' = [shut EXCEPT ![d] = final]
    /\ Write(d, IF final = "failed" THEN "failed" ELSE "stopping")

\* Five seconds have passed: await daemon.requestStop(), which returns at once if
\* another shutdown() is under way.
PollGivesUp(d) ==
    /\ main[d] = "poll"
    /\ BeginShutdown(d, "stopped")
    /\ MainGoto(d, "givingUp")
    /\ UNCHANGED <<lock, commands, started, run, loop, hand, pc, budget>>

GiveUp(d) ==
    /\ \/ main[d] = "poll" /\ shut[d] # "no"
       \/ main[d] = "givingUp" /\ shut[d] = "done"
    /\ Leave(d)
    /\ UNCHANGED <<row, commands, started, daemon, pc, budget>>

\* store.runtimeStatus() throws.
ReadThrows(d) ==
    /\ main[d] \in {"check", "poll"}
    /\ Fault
    /\ Leave(d)
    /\ UNCHANGED <<row, commands, started, daemon, pc>>

\* runTask.value is there.
MainReturns(d) ==
    /\ main[d] = "await"
    /\ run[d] = "returned"
    /\ Leave(d)
    /\ UNCHANGED <<row, commands, started, daemon, pc, budget>>

\* main() ends and takes all tasks of the process with it.
Exit(d) ==
    /\ main[d] = "leaving"
    /\ MainGoto(d, "ended")
    /\ UNCHANGED <<lock, row, commands, started, daemon, pc, budget>>

\* The kernel releases the lock of a process that is killed.
Crash(d) ==
    /\ Exists(d)
    /\ crashes < MaxCrashes /\ crashes' = crashes + 1
    /\ lock' = IF lock = d THEN "none" ELSE lock
    /\ MainGoto(d, "ended")
    /\ UNCHANGED <<row, commands, started, daemon, pc, faults>>

Main(d) ==
    \/ Lock(d) \/ LockIsHeld(d) \/ RowIsLive(d) \/ StartRun(d)
    \/ PollSeesRecording(d) \/ PollSeesFailed(d)
    \/ PollGivesUp(d) \/ GiveUp(d) \/ ReadThrows(d)
    \/ MainReturns(d) \/ Exit(d) \/ Crash(d)

-----------------------------------------------------------------------------
(* run()                                                                   *)

Pending(i) == commands[i].receipt = "pending"

\* Faulty: commands of earlier lives stay pending.
RunKeepsPending(d) ==
    /\ Exists(d) /\ run[d] = "abandon"
    /\ RunGoto(d, "starting")
    /\ UNCHANGED <<lock, row, commands, main, started, shut, loop, hand, pc, budget>>

\* Faulty: the UPDATE without its WHERE.
RunAbandonsAll(d) ==
    /\ Exists(d) /\ run[d] = "abandon"
    /\ commands' = [i \in DOMAIN commands |-> [commands[i] EXCEPT !.receipt = "abandoned"]]
    /\ RunGoto(d, "starting")
    /\ UNCHANGED <<lock, row, main, started, shut, loop, hand, pc, budget>>

\* abandonPendingRuntimeCommands
RunAbandon(d) ==
    /\ Exists(d) /\ run[d] = "abandon"
    /\ commands' = [i \in DOMAIN commands |->
                      IF Pending(i) THEN [commands[i] EXCEPT !.receipt = "abandoned"]
                                    ELSE commands[i]]
    /\ RunGoto(d, "starting")
    /\ UNCHANGED <<lock, row, main, started, shut, loop, hand, pc, budget>>

\* persistStatus(): the state is still `starting`, unless a signal came first.
RunWritesStatus(d) ==
    /\ Exists(d) /\ run[d] = "starting"
    /\ Write(d, CASE shut[d] = "no"   -> "starting"
                  [] shut[d] = "done" -> "stopped"
                  [] OTHER            -> "stopping")
    /\ RunGoto(d, "start")
    /\ UNCHANGED <<lock, commands, main, started, shut, loop, hand, pc, budget>>

\* abandonPendingRuntimeCommands or the first persistStatus throws out of run().
RunThrows(d) ==
    /\ Exists(d) /\ run[d] \in {"abandon", "starting"}
    /\ Fault
    /\ RunGoto(d, "returned")
    /\ UNCHANGED <<lock, row, commands, main, started, shut, loop, hand, pc>>

\* source.start has returned; `recording` is written and the command loop begins.
RunRecords(d) ==
    /\ Exists(d) /\ run[d] = "start"
    /\ Write(d, "recording")
    /\ RunGoto(d, "up")
    /\ LoopGoto(d, "check")
    /\ UNCHANGED <<lock, commands, main, started, shut, hand, pc, budget>>

\* source.start, or writing `recording`, throws.
RunFails(d) ==
    /\ Exists(d) /\ run[d] = "start"
    /\ Write(d, "failed")
    /\ RunGoto(d, "failed")
    /\ UNCHANGED <<lock, commands, main, started, shut, loop, hand, pc, budget>>

\* run() rethrows, or shutdown() has resumed it.
RunReturns(d) ==
    /\ Exists(d)
    /\ run[d] = "failed" \/ (run[d] = "up" /\ shut[d] = "done")
    /\ RunGoto(d, "returned")
    /\ UNCHANGED <<lock, row, commands, main, started, shut, loop, hand, pc, budget>>

Run(d) ==
    \/ RunAbandon(d) \/ RunWritesStatus(d) \/ RunThrows(d)
    \/ RunRecords(d) \/ RunFails(d) \/ RunReturns(d)

-----------------------------------------------------------------------------
(* shutdown()                                                              *)

\* A signal, or a frame or a stream that fails once the source is started.
StopOrFail(d) ==
    /\ Exists(d)
    /\ \/ run[d] # "unstarted" /\ BeginShutdown(d, "stopped")
       \/ run[d] \in {"start", "up"} /\ BeginShutdown(d, "failed")
    /\ UNCHANGED <<lock, commands, main, started, run, loop, hand, pc, budget>>

\* After the drain: the final state is written, and run() is resumed.
FinishShutdown(d) ==
    /\ Exists(d) /\ shut[d] \in {"stopped", "failed"}
    /\ Write(d, shut[d])
    /\ shut' = [shut EXCEPT ![d] = "done"]
    /\ UNCHANGED <<lock, commands, main, started, run, loop, hand, pc, budget>>

-----------------------------------------------------------------------------
(* commandLoop() and process(_:)                                           *)

LoopChecks(d) ==
    /\ Exists(d) /\ loop[d] = "check"
    /\ LoopGoto(d, IF shut[d] = "no" THEN "fetch" ELSE "done")
    /\ UNCHANGED <<lock, row, commands, main, started, run, shut, hand, pc, budget>>

\* Faulty: the id of the row after the one that was found.
LoopFetchesOffByOne(d) ==
    /\ Exists(d) /\ loop[d] = "fetch"
    /\ \E i \in DOMAIN commands :
         /\ Pending(i) /\ \A j \in 1 .. i - 1 : ~Pending(j)
         /\ hand' = [hand EXCEPT ![d] = i + 1]
    /\ LoopGoto(d, "process")
    /\ UNCHANGED <<lock, row, commands, main, started, run, shut, pc, budget>>

\* nextRuntimeCommand()
LoopFetches(d) ==
    /\ Exists(d) /\ loop[d] = "fetch"
    /\ \E i \in DOMAIN commands :
         /\ Pending(i) /\ \A j \in 1 .. i - 1 : ~Pending(j)
         /\ hand' = [hand EXCEPT ![d] = i]
         /\ commands' = [commands EXCEPT ![i].by = Append(@, d)]
    /\ LoopGoto(d, "process")
    /\ UNCHANGED <<lock, row, main, started, run, shut, pc, budget>>

LoopFindsNothing(d) ==
    /\ Exists(d) /\ loop[d] = "fetch"
    /\ \A i \in DOMAIN commands : ~Pending(i)
    /\ LoopGoto(d, "check")
    /\ UNCHANGED <<lock, row, commands, main, started, run, shut, hand, pc, budget>>

InHand(d, kind) == loop[d] = "process" /\ commands[hand[d]].kind = kind

\* Whether the state lets a pause or a resume do anything is RecallDaemon's
\* business; a pause does nothing in a shutdown.
LoopPausesOrResumes(d) ==
    /\ Exists(d)
    /\ \/ InHand(d, "pause") /\ shut[d] = "no" /\ Write(d, "paused")
       \/ InHand(d, "resume") /\ Write(d, "recording")
       \/ (InHand(d, "pause") \/ InHand(d, "resume")) /\ UNCHANGED row
    /\ LoopGoto(d, "answer")
    /\ UNCHANGED <<lock, commands, main, started, run, shut, hand, pc, budget>>

\* The stop command waits for its own shutdown(), not for another one's.
LoopStops(d) ==
    /\ Exists(d) /\ InHand(d, "stop")
    /\ IF shut[d] = "no"
         THEN BeginShutdown(d, "stopped") /\ LoopGoto(d, "stopping")
         ELSE Write(d, "stopping") /\ LoopGoto(d, "answer") /\ UNCHANGED shut
    /\ UNCHANGED <<lock, commands, main, started, run, hand, pc, budget>>

LoopStopped(d) ==
    /\ Exists(d) /\ loop[d] = "stopping" /\ shut[d] = "done"
    /\ LoopGoto(d, "answer")
    /\ UNCHANGED <<lock, row, commands, main, started, run, shut, hand, pc, budget>>

\* completeRuntimeCommand: UPDATE ... WHERE id = ?
Answer(d, receipt) == commands' = [commands EXCEPT ![hand[d]].receipt = receipt]

LoopAnswers(d) ==
    /\ Exists(d) /\ loop[d] = "answer"
    /\ Answer(d, "ok")
    /\ LoopGoto(d, "check")
    /\ UNCHANGED <<lock, row, main, started, run, shut, hand, pc, budget>>

\* A call of the store or the source throws: an error receipt if a command is in
\* hand, which may be lost too, and fail().
LoopThrows(d) ==
    /\ Exists(d)
    /\ \/ loop[d] \in {"process", "answer"} /\ Answer(d, "error")
       \/ loop[d] \in {"fetch", "process", "answer"} /\ UNCHANGED commands
    /\ Fault
    /\ IF shut[d] = "no" THEN BeginShutdown(d, "failed") ELSE UNCHANGED <<row, shut>>
    /\ LoopGoto(d, "done")
    /\ UNCHANGED <<lock, main, started, run, hand, pc>>

Loop(d) ==
    \/ LoopChecks(d) \/ LoopFetches(d) \/ LoopFindsNothing(d)
    \/ LoopPausesOrResumes(d) \/ LoopStops(d) \/ LoopStopped(d)
    \/ LoopAnswers(d) \/ LoopThrows(d)

-----------------------------------------------------------------------------
(* send(_:)                                                                *)

SenderGoto(s, point) == pc' = [pc EXCEPT ![s] = point]

SeeDaemon(s) ==
    /\ pc[s] = "idle"
    /\ LiveRow
    /\ SenderGoto(s, "enqueue")
    /\ UNCHANGED <<lock, row, commands, main, started, daemon, budget>>

\* "No live Recall daemon is available."
SeeNoDaemon(s) ==
    /\ pc[s] = "idle"
    /\ ~LiveRow
    /\ SenderGoto(s, "unavailable")
    /\ UNCHANGED <<lock, row, commands, main, started, daemon, budget>>

\* enqueueRuntimeCommand(kind)
Enqueue(s) ==
    /\ pc[s] = "enqueue"
    /\ \E kind \in Kinds :
         commands' = Append(commands,
                       [from |-> s, kind |-> kind, by |-> <<>>, receipt |-> "pending"])
    /\ SenderGoto(s, "wait")
    /\ UNCHANGED <<lock, row, main, started, daemon, budget>>

\* runtimeCommandReceipt(id) is processed: success, or its error.
SeeReceipt(s) ==
    /\ pc[s] = "wait"
    /\ \E i \in DOMAIN commands :
         /\ commands[i].from = s /\ ~Pending(i)
         /\ SenderGoto(s, commands[i].receipt)
    /\ UNCHANGED <<lock, row, commands, main, started, daemon, budget>>

\* The deadline passes; a sender without --wait does not wait at all.
TimeOut(s) ==
    /\ pc[s] = "wait"
    /\ SenderGoto(s, "timeout")
    /\ UNCHANGED <<lock, row, commands, main, started, daemon, budget>>

Send(s) == SeeDaemon(s) \/ SeeNoDaemon(s) \/ Enqueue(s) \/ SeeReceipt(s) \/ TimeOut(s)

-----------------------------------------------------------------------------
Terminated ==
    /\ \A d \in Daemons : main[d] = "ended"
    /\ \A s \in Senders : pc[s] \notin {"idle", "enqueue", "wait"}
    /\ UNCHANGED vars

Daemon(d) == Main(d) \/ Run(d) \/ StopOrFail(d) \/ FinishShutdown(d) \/ Loop(d)

Next ==
    \/ /\ (\E d \in Daemons : Daemon(d)) \/ (\E s \in Senders : Send(s))
       /\ UNCHANGED lingers
    \/ Terminated

Spec == Init /\ [][Next]_vars

-----------------------------------------------------------------------------
Receipts == {"pending", "ok", "error", "abandoned"}

\* Types; the row is never written for a process other than a daemon, and a
\* fetched id is the id of a command.
TypeOK ==
    /\ lingers \in BOOLEAN
    /\ lock \in Daemons \cup {"none"}
    /\ row \in [pid : Daemons, state : {"starting", "recording", "paused",
                                        "stopping", "stopped", "failed"}]
              \cup {[pid |-> "none", state |-> "none"]}
    /\ commands \in Seq([from : Senders, kind : Kinds, by : Seq(Daemons),
                         receipt : Receipts])
    /\ main \in [Daemons -> {"idle", "check", "poll", "givingUp", "await",
                             "leaving", "ended"}]
    /\ started \in [Daemons -> Daemons \cup {"none"}]
    /\ run \in [Daemons -> {"unstarted", "abandon", "starting", "start", "up",
                            "failed", "returned"}]
    /\ shut \in [Daemons -> {"no", "stopped", "failed", "done"}]
    /\ loop \in [Daemons -> {"unstarted", "check", "fetch", "process", "stopping",
                             "answer", "done"}]
    /\ hand \in [Daemons -> 0 .. Len(commands)]
    /\ pc \in [Senders -> {"idle", "enqueue", "wait", "unavailable", "timeout"}
                           \cup Receipts]
    /\ faults \in 0 .. MaxFaults
    /\ crashes \in 0 .. MaxCrashes

\* What `status` and `send` conclude from the row and the PID is right: the process
\* holds the daemon lock, or has just let go of it on its way out.
LiveRowHoldsLock == LiveRow => lock = row.pid \/ main[row.pid] = "leaving"

\* No command is begun twice, by whatever succession of daemons and crashes, as
\* long as processes end as soon as they release the lock.
BegunOnce == ~lingers => \A i \in DOMAIN commands : Len(commands[i].by) <= 1

\* Then a receipt, once written, is final too: what its sender reads is what stays.
ReceiptsAreFinal ==
    [][\A i \in DOMAIN commands :
         ~lingers /\ ~Pending(i) => commands'[i].receipt = commands[i].receipt]_vars

\* "Capture permission denied: visible stopped/error state; no success fallback."
\* (docs/architecture.md:86): a daemon whose source does not start has not printed
\* its success message.
NoSuccessFallback == \A d \in Daemons : run[d] = "failed" => started[d] = "none"

=============================================================================

---------------------------- MODULE InlineRunner ----------------------------
(***************************************************************************)
(* The single-threaded server: InlineRunner (src/runners/inline.rs) with   *)
(* one worker of RequestLoop, run by main as                               *)
(* join!(server_future, runner_future) (src/main.rs).                      *)
(*                                                                         *)
(* handle has no mutex and no closed flag: it sends the request over the   *)
(* channel at once, also while a shutdown is under way, and leaves it to   *)
(* the worker to turn late requests away.  One thread polls the server,    *)
(* the handle tasks and the worker in turn; only shutdown runs elsewhere,  *)
(* on the thread of the ctrl-c handler.                                    *)
(***************************************************************************)
EXTENDS RequestLoop

CONSTANT HasTimeout

ASSUME InlineAssumption ==
    /\ \E w \in Workers : Workers = {w}
    /\ ~MayPanic            \* the panic of the only thread ends the process
    /\ HasTimeout \in BOOLEAN

VARIABLES
    hpc,           \* where the handle task of each request is
    reply,         \* the HTTP status the client gets
    spc,           \* where the shutdown future is
    expired,       \* shutdown_started.elapsed() >= timeout
    server,        \* the hyper server
    late           \* history: the requests sent behind Shutdown

inlineVars == <<hpc, reply, spc, expired, server, late>>
vars == <<loopVars, inlineVars>>

Worker == CHOOSE w \in Workers : TRUE

(* The one thread polls its futures: it is not lost inside JavaScript.      *)
Polls == phase[Worker] # "stuck"

InlineTypeOK ==
    /\ hpc \in [Requests -> {"idle", "awaiting", "returned", "gone"}]
    /\ reply \in [Requests -> {"none", "ok", "500", "503"}]
    /\ spc \in {"idle", "waiting", "done"}
    /\ expired \in BOOLEAN
    /\ server \in {"serving", "stopping", "exited"}
    /\ late \in SUBSET Requests

Init ==
    /\ LoopInit
    /\ hpc = [r \in Requests |-> "idle"]
    /\ reply = [r \in Requests |-> "none"]
    /\ spc = "idle"
    /\ expired = FALSE
    /\ server = "serving"
    /\ late = {}

(* join! polls runner_future for the first time.                            *)
Start == Spawn(Worker) /\ UNCHANGED inlineVars

-----------------------------------------------------------------------------
(* Runner::handle: nothing is awaited before the send.                      *)

HandleSend(r) ==
    /\ Polls
    /\ server = "serving"
    /\ hpc[r] = "idle"
    /\ Send(Worker, r)
    /\ hpc' = [hpc EXCEPT ![r] = "awaiting"]
    /\ late' = IF "Shutdown" \in sent[Worker] THEN late \cup {r} ELSE late
    /\ UNCHANGED <<reply, spc, expired, server>>

(* send(..)? failed: runner_future has completed.                           *)
HandleClosed(r) ==
    /\ server = "serving"
    /\ hpc[r] = "idle"
    /\ phase[Worker] = "finished"
    /\ hpc' = [hpc EXCEPT ![r] = "returned"]
    /\ reply' = [reply EXCEPT ![r] = "500"]
    /\ UNCHANGED <<loopVars, spc, expired, server, late>>

Return(r) ==
    /\ Polls
    /\ hpc[r] = "awaiting"
    /\ resp[r] \in Answers
    /\ hpc' = [hpc EXCEPT ![r] = "returned"]
    /\ reply' = [reply EXCEPT ![r] = Status(resp[r])]
    /\ UNCHANGED <<loopVars, spc, expired, server, late>>

ClientGone(r) ==
    /\ Polls
    /\ hpc[r] = "awaiting"
    /\ hpc' = [hpc EXCEPT ![r] = "gone"]
    /\ UNCHANGED <<loopVars, reply, spc, expired, server, late>>

-----------------------------------------------------------------------------
(* Runner::shutdown, on the ctrl-c thread.                                  *)

CtrlC ==
    /\ spc = "idle"
    /\ Open(Worker)
    /\ SendControl({Worker}, "Shutdown")
    /\ spc' = "waiting"
    /\ UNCHANGED <<hpc, reply, expired, server, late>>

TimeoutReached ==
    /\ HasTimeout
    /\ spc = "waiting" /\ ~expired
    /\ expired' = TRUE
    /\ UNCHANGED <<loopVars, hpc, reply, spc, server, late>>

(* `finished' was set when handle_requests returned.                        *)
ShutdownClean ==
    /\ spc = "waiting"
    /\ phase[Worker] = "finished"
    /\ spc' = "done" /\ server' = "stopping"
    /\ UNCHANGED <<loopVars, hpc, reply, expired, late>>

(* Mutant of ShutdownForced: the clock is restarted by every poll.          *)
ShutdownRestarts ==
    /\ spc = "waiting"
    /\ phase[Worker] # "finished" /\ expired
    /\ expired' = FALSE
    /\ UNCHANGED <<loopVars, hpc, reply, spc, server, late>>

ShutdownForced ==
    /\ spc = "waiting"
    /\ phase[Worker] # "finished" /\ expired
    /\ SendControl({Worker}, "Terminate")
    /\ spc' = "done" /\ server' = "stopping"
    /\ UNCHANGED <<hpc, reply, expired, late>>

(* Mutant of Exit: the runner's future ends the process.                    *)
ExitWithRunner ==
    /\ server = "stopping"
    /\ phase[Worker] = "finished"
    /\ server' = "exited"
    /\ UNCHANGED <<loopVars, hpc, reply, spc, expired, late>>

(* join!: the server has no connection left and runner_future is done.      *)
Exit ==
    /\ server = "stopping"
    /\ phase[Worker] = "finished"
    /\ \A r \in Requests : hpc[r] # "awaiting"
    /\ server' = "exited"
    /\ UNCHANGED <<loopVars, hpc, reply, spc, expired, late>>

-----------------------------------------------------------------------------
Handle(r) == HandleSend(r) \/ HandleClosed(r) \/ Return(r) \/ ClientGone(r)

Shutdown == CtrlC \/ TimeoutReached \/ ShutdownClean \/ ShutdownForced \/ Exit

Work == WorkerStep(Worker) /\ UNCHANGED inlineVars

Alive == server # "exited"

(* The process has ended.                                                   *)
Ended == ~Alive /\ UNCHANGED vars

(* JavaScript that never returns goes on running, perhaps alone.            *)
Spins == ~Polls /\ UNCHANGED vars

Next ==
    \/ /\ Alive
       /\ \/ Start
          \/ \E r \in Requests : Handle(r)
          \/ Shutdown
          \/ Work
    \/ Ended
    \/ Spins

Spec == Init /\ [][Next]_vars

(* As for SingleRunner: the tasks of the one thread take turns as long as   *)
(* each of them returns to the executor, the clock advances, and user code  *)
(* owes nothing: it may initialise for ever or not return from a call, and  *)
(* then keeps the server and the handle tasks from running as well.         *)
Fairness ==
    LET Fair(A) == Alive /\ A /\ UNCHANGED inlineVars
    IN  /\ WF_vars(Alive /\ Start)
        /\ \A r \in Requests : WF_vars(Alive /\ Return(r))
        /\ WF_vars(Alive /\ TimeoutReached)
        /\ WF_vars(Alive /\ (ShutdownClean \/ ShutdownForced))
        /\ WF_vars(Alive /\ Exit)
        /\ SF_vars(Fair(Receive(Worker)))
        /\ \A r \in Requests : SF_vars(Fair(Finish(Worker, r)))
        /\ WF_vars(Fair(LoopExit(Worker)))
        /\ WF_vars(Fair(DrainEnd(Worker)))

FairSpec == Spec /\ Fairness

-----------------------------------------------------------------------------
(* Properties.                                                              *)

(* The FIFO channel alone, without a mutex, separates the requests sent     *)
(* before ctrl-c from the late ones, and the worker outlives every early    *)
(* request: if shutdown did not time out, none of them is left waiting,     *)
(* dropped, cut off or told that it came too late, and a late one never     *)
(* runs user code.                                                          *)
CleanShutdownServesEarly ==
    phase[Worker] = "finished" /\ "Terminate" \notin sent[Worker] =>
        /\ truncated = {}
        /\ \A r \in Requests \ late :
              resp[r] \notin {"waiting", "shuttingDown", "dropped", "lateError"}
        /\ \A r \in late : resp[r] \notin {"done", "requestError", "unresolvable"}

(* The runner and its worker implement RequestService.                      *)
Service == INSTANCE RequestService WITH
    client <- [r \in Requests |->
                  CASE hpc[r] = "awaiting" -> "waiting"
                    [] hpc[r] = "returned" -> reply[r]
                    [] OTHER -> hpc[r]],
    stage <- CASE server = "exited" -> "exited"
               [] server = "stopping" -> "stopped"
               [] OTHER -> IF spc = "idle" THEN "open" ELSE "closing"

(* Without a mutex or a closed flag, clients see the same service as that   *)
(* of SingleRunner: the worker alone tells early requests from late ones.   *)
ImplementsService == Service!ServiceSpec

(* ctrl-c ends the process, unless the script never finishes initialising   *)
(* or a call into JavaScript never returns: promises that never settle,     *)
(* a busy event loop and endless bodies do not keep the one thread alive.   *)
CtrlCExits ==
    spc = "waiting" ~>
        (server = "exited" \/ [](phase[Worker] \in {"init", "stuck"}))

=============================================================================

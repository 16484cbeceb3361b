---------------------------- MODULE SingleRunner ----------------------------
(***************************************************************************)
(* The multi-threaded server: SharedSingleRunner (src/runners/single.rs)   *)
(* in front of the workers of RequestLoop, with the hyper server and the   *)
(* ctrl-c handler that drive it (src/server.rs, src/main.rs).              *)
(*                                                                         *)
(* Every HTTP request is a task running Runner::handle.  It takes the      *)
(* runner's mutex, loads the threads' in-flight counters one by one,       *)
(* chooses or spawns a thread, counts itself in, sends the request and     *)
(* releases the mutex; then it awaits the oneshot and counts itself out    *)
(* without the mutex.  Its future is dropped if the client disconnects.    *)
(* ctrl-c runs shutdown once: it closes the runner, tells every thread to  *)
(* shut down, and polls once a second until they finished or the timeout   *)
(* passed, holding the mutex while it sleeps.                              *)
(***************************************************************************)
EXTENDS RequestLoop, Integers

CONSTANTS
    MaxThreads,    \* SingleRunner.max_threads
    HasTimeout     \* FALSE: --shutdown-timeout 0

ASSUME RunnerAssumption ==
    /\ MaxThreads \in Nat \ {0}
    /\ Workers = 1..MaxThreads
    /\ HasTimeout \in BOOLEAN
    /\ Requests \cap {"free", "shutdown"} = {}

VARIABLES
    lock,          \* the mutex: "free", the request or "shutdown" holding it
    nthreads,      \* threads.len(); thread i is worker i
    inFlight,      \* in_flight_requests of each thread
    shutDown,      \* SingleRunner.shut_down
    counts,        \* request_counts of the lock holder, as far as loaded
    chosen,        \* the thread find_or_spawn_thread returned
    hpc,           \* where the handle task of each request is
    reply,         \* the HTTP status the client gets
    spc,           \* where the shutdown future is
    expired,       \* shutdown_started.elapsed() >= timeout
    server         \* the hyper server

runnerVars == <<lock, nthreads, inFlight, shutDown, counts, chosen, hpc, reply,
                spc, expired, server>>
vars == <<loopVars, runnerVars>>

HandlePCs == {"idle", "locking", "counting", "sending", "awaiting", "returned",
              "gone"}

RunnerTypeOK ==
    /\ lock \in Requests \cup {"free", "shutdown"}
    /\ nthreads \in 0..MaxThreads
    /\ inFlight \in [Workers -> Nat]
    /\ shutDown \in BOOLEAN
    /\ counts \in Seq(Nat)
    /\ chosen \in Workers \cup {NoWorker}
    /\ hpc \in [Requests -> HandlePCs]
    /\ reply \in [Requests -> {"none", "ok", "500", "503"}]
    /\ spc \in {"idle", "locking", "waiting", "sleeping", "done"}
    /\ expired \in BOOLEAN
    /\ server \in {"serving", "stopping", "exited"}

Init ==
    /\ LoopInit
    /\ lock = "free"
    /\ nthreads = 0
    /\ inFlight = [w \in Workers |-> 0]
    /\ shutDown = FALSE
    /\ counts = <<>>
    /\ chosen = NoWorker
    /\ hpc = [r \in Requests |-> "idle"]
    /\ reply = [r \in Requests |-> "none"]
    /\ spc = "idle"
    /\ expired = FALSE
    /\ server = "serving"

-----------------------------------------------------------------------------
(* Runner::handle.                                                          *)

(* hyper calls the service: handle -> handle_inner -> runner.handle.        *)
Arrive(r) ==
    /\ server = "serving"
    /\ hpc[r] = "idle"
    /\ hpc' = [hpc EXCEPT ![r] = "locking"]
    /\ UNCHANGED <<loopVars, lock, nthreads, inFlight, shutDown, counts, chosen,
                   reply, spc, expired, server>>

Lock(r) ==
    /\ hpc[r] = "locking"
    /\ lock = "free"
    /\ ~shutDown
    /\ lock' = r
    /\ hpc' = [hpc EXCEPT ![r] = "counting"]
    /\ UNCHANGED <<loopVars, nthreads, inFlight, shutDown, counts, chosen, reply,
                   spc, expired, server>>

(* find_or_spawn_thread returned None: 503, and the guard is dropped.       *)
Refuse(r) ==
    /\ hpc[r] = "locking"
    /\ lock = "free"
    /\ shutDown
    /\ hpc' = [hpc EXCEPT ![r] = "returned"]
    /\ reply' = [reply EXCEPT ![r] = "503"]
    /\ UNCHANGED <<loopVars, lock, nthreads, inFlight, shutDown, counts, chosen,
                   spc, expired, server>>

(* One in_flight_requests.load(SeqCst); guards of other requests may be     *)
(* dropped between two loads.                                               *)
LoadCount(r) ==
    /\ hpc[r] = "counting"
    /\ Len(counts) < nthreads
    /\ counts' = Append(counts, inFlight[Len(counts) + 1])
    /\ UNCHANGED <<loopVars, lock, nthreads, inFlight, shutDown, chosen, hpc,
                   reply, spc, expired, server>>

Loaded(r) == hpc[r] = "counting" /\ Len(counts) = nthreads

(* Mutant of Idle: off by one.                                              *)
IdleOffByOne == {w \in 1..nthreads : counts[w] <= 1}

Idle == {w \in 1..nthreads : counts[w] <= 0}

(* Step 1: the first idle thread.                                           *)
UseIdle(r) ==
    /\ Loaded(r)
    /\ \E w \in Idle : /\ \A v \in Idle : w <= v
                       /\ chosen' = w
    /\ hpc' = [hpc EXCEPT ![r] = "sending"]
    /\ UNCHANGED <<loopVars, lock, nthreads, inFlight, shutDown, counts, reply,
                   spc, expired, server>>

(* Step 2: spawn_thread.                                                    *)
SpawnThread(r) ==
    /\ Loaded(r)
    /\ Idle = {}
    /\ nthreads < MaxThreads
    /\ Spawn(nthreads + 1)
    /\ nthreads' = nthreads + 1
    /\ chosen' = nthreads + 1
    /\ hpc' = [hpc EXCEPT ![r] = "sending"]
    /\ UNCHANGED <<lock, inFlight, shutDown, counts, reply, spc, expired, server>>

(* Step 3: the first thread with the least requests (min_by_key).           *)
UseLeastBusy(r) ==
    /\ Loaded(r)
    /\ Idle = {}
    /\ nthreads = MaxThreads
    /\ \E w \in 1..nthreads :
          /\ \A v \in 1..nthreads : \/ counts[w] < counts[v]
                                    \/ counts[w] = counts[v] /\ w <= v
          /\ chosen' = w
    /\ hpc' = [hpc EXCEPT ![r] = "sending"]
    /\ UNCHANGED <<loopVars, lock, nthreads, inFlight, shutDown, counts, reply,
                   spc, expired, server>>

(* IncrementGuard::new, channel.send, drop(this).                           *)
SendRequest(r) ==
    /\ hpc[r] = "sending"
    /\ Send(chosen, r)
    /\ inFlight' = [inFlight EXCEPT ![chosen] = @ + 1]
    /\ hpc' = [hpc EXCEPT ![r] = "awaiting"]
    /\ lock' = "free" /\ counts' = <<>> /\ chosen' = NoWorker
    /\ UNCHANGED <<nthreads, shutDown, reply, spc, expired, server>>

(* send(..)? on a closed channel: both guards are dropped, 500.             *)
SendFailed(r) ==
    /\ hpc[r] = "sending"
    /\ ~Open(chosen)
    /\ hpc' = [hpc EXCEPT ![r] = "returned"]
    /\ reply' = [reply EXCEPT ![r] = "500"]
    /\ lock' = "free" /\ counts' = <<>> /\ chosen' = NoWorker
    /\ UNCHANGED <<loopVars, nthreads, inFlight, shutDown, spc, expired, server>>

(* rx.await completed, drop(increment_guard).                               *)
Return(r) ==
    /\ hpc[r] = "awaiting"
    /\ resp[r] \in Answers
    /\ inFlight' = [inFlight EXCEPT ![home[r]] = @ - 1]
    /\ reply' = [reply EXCEPT ![r] = Status(resp[r])]
    /\ hpc' = [hpc EXCEPT ![r] = "returned"]
    /\ UNCHANGED <<loopVars, lock, nthreads, shutDown, counts, chosen, spc,
                   expired, server>>

(* Mutant of ClientGone: the counter is not kept by a drop guard.           *)
ClientGoneUncounted(r) ==
    /\ hpc[r] \in {"locking", "awaiting"}
    /\ hpc' = [hpc EXCEPT ![r] = "gone"]
    /\ UNCHANGED <<loopVars, lock, nthreads, inFlight, shutDown, counts, chosen,
                   reply, spc, expired, server>>

(* The client disconnects and hyper drops the future at one of its awaits.  *)
ClientGone(r) ==
    /\ hpc[r] \in {"locking", "awaiting"}
    /\ hpc' = [hpc EXCEPT ![r] = "gone"]
    /\ inFlight' = IF hpc[r] = "awaiting"
                   THEN [inFlight EXCEPT ![home[r]] = @ - 1] ELSE inFlight
    /\ UNCHANGED <<loopVars, lock, nthreads, shutDown, counts, chosen, reply,
                   spc, expired, server>>

-----------------------------------------------------------------------------
(* Runner::shutdown, run once by the ctrl-c handler.                        *)

CtrlC ==
    /\ spc = "idle"
    /\ spc' = "locking"
    /\ UNCHANGED <<loopVars, lock, nthreads, inFlight, shutDown, counts, chosen,
                   hpc, reply, expired, server>>

(* Mutant of Running: one finished thread is taken for all of them.         *)
RunningUntilOne ==
    IF \E w \in 1..nthreads : phase[w] = "finished" THEN {} ELSE 1..nthreads

(* Threads whose JoinHandle is not finished.                                *)
Running == {w \in 1..nthreads : phase[w] # "finished"}

(* Mutant of BeginShutdown: it does not wait for the mutex.                 *)
BeginShutdownUnlocked ==
    /\ spc = "locking"
    /\ shutDown' = TRUE
    /\ SendControl(Running, "Shutdown")
    /\ spc' = "waiting"
    /\ UNCHANGED <<lock, nthreads, inFlight, counts, chosen, hpc, reply, expired,
                   server>>

BeginShutdown ==
    /\ spc = "locking"
    /\ lock = "free"
    /\ shutDown' = TRUE
    /\ SendControl(Running, "Shutdown")
    /\ spc' = "waiting"
    /\ UNCHANGED <<lock, nthreads, inFlight, counts, chosen, hpc, reply, expired,
                   server>>

TimeoutReached ==
    /\ HasTimeout
    /\ spc \in {"waiting", "sleeping"}
    /\ ~expired
    /\ expired' = TRUE
    /\ UNCHANGED <<loopVars, lock, nthreads, inFlight, shutDown, counts, chosen,
                   hpc, reply, spc, server>>

(* Some thread runs and there is time left: sleep with the guard alive.     *)
Sleep ==
    /\ spc = "waiting"
    /\ lock = "free"
    /\ Running # {} /\ ~expired
    /\ lock' = "shutdown"
    /\ spc' = "sleeping"
    /\ UNCHANGED <<loopVars, nthreads, inFlight, shutDown, counts, chosen, hpc,
                   reply, expired, server>>

(* Mutant of WakeUp: the guard lives on while the loop locks again.         *)
WakeUpLocked ==
    /\ spc = "sleeping"
    /\ spc' = "waiting"
    /\ UNCHANGED <<loopVars, lock, nthreads, inFlight, shutDown, counts, chosen,
                   hpc, reply, expired, server>>

WakeUp ==
    /\ spc = "sleeping"
    /\ lock' = "free"
    /\ spc' = "waiting"
    /\ UNCHANGED <<loopVars, nthreads, inFlight, shutDown, counts, chosen, hpc,
                   reply, expired, server>>

(* The two exits of the loop; `tx.send(())' then stops the server.          *)
ShutdownClean ==
    /\ spc = "waiting"
    /\ lock = "free"
    /\ Running = {}
    /\ spc' = "done" /\ server' = "stopping"
    /\ UNCHANGED <<loopVars, lock, nthreads, inFlight, shutDown, counts, chosen,
                   hpc, reply, expired>>

(* Mutant of ShutdownForced: Shutdown is repeated in place of Terminate.    *)
ShutdownRepeated ==
    /\ spc = "waiting"
    /\ lock = "free"
    /\ Running # {} /\ expired
    /\ SendControl(Running, "Shutdown")
    /\ spc' = "done" /\ server' = "stopping"
    /\ UNCHANGED <<lock, nthreads, inFlight, shutDown, counts, chosen, hpc, reply,
                   expired>>

ShutdownForced ==
    /\ spc = "waiting"
    /\ lock = "free"
    /\ Running # {} /\ expired
    /\ SendControl(Running, "Terminate")
    /\ spc' = "done" /\ server' = "stopping"
    /\ UNCHANGED <<lock, nthreads, inFlight, shutDown, counts, chosen, hpc, reply,
                   expired>>

(* Mutant of ServerExit: requests that wait for the mutex are forgotten.    *)
ServerExitEarly ==
    /\ server = "stopping"
    /\ \A r \in Requests : hpc[r] \notin {"counting", "sending", "awaiting"}
    /\ server' = "exited"
    /\ UNCHANGED <<loopVars, lock, nthreads, inFlight, shutDown, counts, chosen,
                   hpc, reply, spc, expired>>

(* with_graceful_shutdown completes when no connection is being served;     *)
(* main returns and the process ends, whatever its threads are doing.       *)
ServerExit ==
    /\ server = "stopping"
    /\ \A r \in Requests :
          /\ hpc[r] \in {"idle", "returned", "gone"}
          /\ hpc[r] = "returned" => \A w \in Workers : r \notin continuations[w]
    /\ server' = "exited"
    /\ UNCHANGED <<loopVars, lock, nthreads, inFlight, shutDown, counts, chosen,
                   hpc, reply, spc, expired>>

-----------------------------------------------------------------------------
Choose(r) == UseIdle(r) \/ SpawnThread(r) \/ UseLeastBusy(r)

Handle(r) ==
    \/ Arrive(r) \/ Lock(r) \/ Refuse(r) \/ LoadCount(r) \/ Choose(r)
    \/ SendRequest(r) \/ SendFailed(r) \/ Return(r) \/ ClientGone(r)

Shutdown ==
    \/ CtrlC \/ BeginShutdown \/ TimeoutReached \/ Sleep \/ WakeUp
    \/ ShutdownClean \/ ShutdownForced \/ ServerExit

Work(w) == WorkerStep(w) /\ UNCHANGED runnerVars

Alive == server # "exited"

(* The process has ended.                                                   *)
Ended == ~Alive /\ UNCHANGED vars

(* JavaScript that never returns goes on running, perhaps alone.            *)
Spins == (\E w \in Workers : phase[w] = "stuck") /\ UNCHANGED vars

Next ==
    \/ /\ Alive
       /\ \/ \E r \in Requests : Handle(r)
          \/ Shutdown
          \/ \E w \in Workers : Work(w)
    \/ Ended
    \/ Spins

Spec == Init /\ [][Next]_vars

(* Tasks and threads run (weak fairness); the tokio mutex is a FIFO, so who *)
(* waits for it gets it although it is released only in between (strong);   *)
(* the clock advances.  Arrivals, disconnections, ctrl-c, panics and user   *)
(* code owe nothing: a worker whose JavaScript does not return is "stuck",  *)
(* and WorkerFairness then asks nothing of it.                              *)
HandleFairness(r) ==
    /\ SF_vars(Alive /\ (Lock(r) \/ Refuse(r)))
    /\ WF_vars(Alive /\ (LoadCount(r) \/ Choose(r)))
    /\ WF_vars(Alive /\ (SendRequest(r) \/ SendFailed(r)))
    /\ WF_vars(Alive /\ Return(r))

ShutdownFairness ==
    /\ SF_vars(Alive /\ BeginShutdown)
    /\ SF_vars(Alive /\ (Sleep \/ ShutdownClean \/ ShutdownForced))
    /\ WF_vars(Alive /\ WakeUp)
    /\ WF_vars(Alive /\ TimeoutReached)
    /\ WF_vars(Alive /\ ServerExit)

WorkerFairness(w) ==
    LET Fair(A) == Alive /\ A /\ UNCHANGED runnerVars
    IN  /\ SF_vars(Fair(Receive(w)))
        /\ \A r \in Requests : SF_vars(Fair(Finish(w, r)))
        /\ WF_vars(Fair(LoopExit(w)))
        /\ WF_vars(Fair(DrainEnd(w)))

FairSpec ==
    /\ Spec
    /\ \A r \in Requests : HandleFairness(r)
    /\ ShutdownFairness
    /\ \A w \in Workers : WorkerFairness(w)

-----------------------------------------------------------------------------
(* Properties.                                                              *)

(* The runner uses its workers as RequestLoop allows: a thread is spawned    *)
(* before anything is sent to it, a request is sent once, Shutdown once per *)
(* thread and Terminate once and only after Shutdown.                       *)
UsesLoopProperly == LoopSpec

(* in_flight_requests of a thread is the number of handle tasks awaiting an *)
(* answer from it, whatever way they leave: answered, sender dropped, send  *)
(* failed, or future dropped by hyper.                                      *)
InFlightExact ==
    \A w \in Workers :
        inFlight[w] = Cardinality({r \in Requests : hpc[r] = "awaiting" /\ home[r] = w})

(* A request is sent to a thread that still has requests in flight only     *)
(* when no further thread may be spawned: the counters loaded one by one    *)
(* may be stale when the choice is made, but only in the safe direction.    *)
BusyOnlyWhenFull ==
    [][\A r \in Requests, w \in Workers :
          home[r] # w /\ home'[r] = w /\ inFlight[w] > 0 => nthreads = MaxThreads]_vars

(* The mutex orders handle against shutdown: no request follows Shutdown    *)
(* into a channel, so request_loop's "New request received after shutdown   *)
(* requested" is never sent, and a thread leaving its loop or its error     *)
(* loop drops no request.                                                   *)
NothingBehindShutdown ==
    /\ \A w \in Workers :
          /\ \A i, j \in 1..Len(chan[w]) :
                i < j /\ chan[w][i] \in Control => chan[w][j] \in Control
          /\ shutdownRequested[w] => Queued(w) = {}
    /\ \A r \in Requests : resp[r] # "lateError"

(* A shutdown that does not time out cuts nobody off: no 503 for a request  *)
(* a thread had accepted, no response body broken off (but by a panic), and *)
(* when it reports completion every accepted request has been answered.     *)
CleanShutdownServesAll ==
    (\A w \in Workers : "Terminate" \notin sent[w]) =>
        /\ MayPanic \/ truncated = {}
        /\ \A r \in Requests :
              /\ resp[r] # "shuttingDown"
              /\ spc = "done" => resp[r] # "waiting"

(* The runner, its workers and the mutex implement RequestService.          *)
Service == INSTANCE RequestService WITH
    client <- [r \in Requests |->
                  CASE hpc[r] = "idle" -> "idle"
                    [] hpc[r] = "returned" -> reply[r]
                    [] hpc[r] = "gone" -> "gone"
                    [] OTHER -> "waiting"],
    stage <- CASE server = "exited" -> "exited"
               [] server = "stopping" -> "stopped"
               [] OTHER -> IF spc = "idle" THEN "open" ELSE "closing"

(* Clients see the service that RequestService promises, although handle    *)
(* counts, spawns and sends in several steps, counters and flags are read   *)
(* in one step and used in another, threads may panic and shutdown runs     *)
(* concurrently: in particular, "Server is shutting down" is said only      *)
(* after ctrl-c and the process does not end under a waiting client.        *)
ImplementsService == Service!ServiceSpec

(* A request waiting for the mutex gets it, although shutdown sleeps with   *)
(* the mutex in its hands: "so incoming requests can receive an error       *)
(* response".                                                               *)
LockReached ==
    \A r \in Requests : hpc[r] = "locking" ~> hpc[r] # "locking"

(* A client of w that hyper's graceful shutdown waits for.                  *)
KeepsClient(w) ==
    \E r \in Requests : \/ hpc[r] = "awaiting" /\ home[r] = w
                        \/ hpc[r] = "returned" /\ r \in continuations[w]

(* ctrl-c ends the process, unless from some moment on there is always a    *)
(* client kept by a thread that initialises for ever or is inside           *)
(* JavaScript that never returns: promises that never settle, event loops   *)
(* that are always busy, endless bodies, panics, and clients that come and  *)
(* go cannot keep it alive, nor can a hanging thread without a client.      *)
CtrlCExits ==
    spc = "locking" ~>
        \/ server = "exited"
        \/ [](\E w \in Workers : phase[w] \in {"init", "stuck"} /\ KeepsClient(w))

=============================================================================

------------------------- MODULE SingleRunnerProofs -------------------------
(***************************************************************************)
(* Proofs about SingleRunner, for any number of threads and any requests,  *)
(* from what RequestLoopProofs shows of the workers.                       *)
(***************************************************************************)
EXTENDS SingleRunner, RequestLoopProofs, FiniteSetTheorems

(* The mutex has one holder: the handle task that counts or sends, or       *)
(* shutdown while it sleeps.  The loads and the choice belong to it.        *)
LockHeld ==
    /\ \A r \in Requests : lock = r <=> hpc[r] \in {"counting", "sending"}
    /\ lock = "shutdown" <=> spc = "sleeping"
    /\ lock \notin Requests => counts = <<>>
    /\ Len(counts) <= nthreads
    /\ \A r \in Requests : hpc[r] = "sending" => chosen \in 1..nthreads

(* Threads are spawned in order, and requests are sent to them only.        *)
ThreadsSpawned ==
    /\ \A w \in Workers : phase[w] = "unborn" <=> w > nthreads
    /\ \A r \in Requests : home[r] = NoWorker \/ home[r] \in 1..nthreads

(* A request is sent between `sending' and `awaiting'.                      *)
SentWhenAwaiting ==
    \A r \in Requests :
        /\ hpc[r] \in {"idle", "locking", "counting", "sending"} => resp[r] = "unsent"
        /\ hpc[r] = "awaiting" => home[r] \in Workers

(* shutdown: the flag is set under the mutex, so that nobody sends after    *)
(* it, and every thread that then runs is told.                             *)
ToldToShutDown ==
    /\ shutDown <=> spc \notin {"idle", "locking"}
    /\ shutDown => lock \notin Requests
    /\ server = "serving" <=> spc # "done"
    /\ \A w \in Workers :
          /\ ~shutDown => sent[w] = {}
          /\ spc # "done" => sent[w] \subseteq {"Shutdown"}
          /\ shutDown /\ phase[w] \notin {"unborn", "finished"} => "Shutdown" \in sent[w]

(* Loaded counters may be stale, but only too high: the holder of the mutex *)
(* is the only one who may increment them.                                  *)
StaleButSafe ==
    /\ \A i \in 1..Len(counts) : inFlight[i] <= counts[i]
    /\ \A r \in Requests :
          hpc[r] = "sending" => inFlight[chosen] = 0 \/ nthreads = MaxThreads

(* shutdown reports completion when all threads have finished, or after it  *)
(* told one to terminate.                                                   *)
DoneOrTold ==
    spc = "done" => \/ \A w \in 1..nthreads : phase[w] = "finished"
                    \/ \E w \in Workers : "Terminate" \in sent[w]

(* in_flight_requests counts a finite set, whatever requests there are.     *)
Awaiting(w) == {r \in Requests : hpc[r] = "awaiting" /\ home[r] = w}

CountsAwaiting ==
    \A w \in Workers :
        IsFiniteSet(Awaiting(w)) /\ inFlight[w] = Cardinality(Awaiting(w))

RunnerInv ==
    /\ LoopInv /\ HeldOnlyByLive /\ CutOffByTerminate
    /\ RunnerTypeOK /\ LockHeld /\ ThreadsSpawned /\ SentWhenAwaiting /\ ToldToShutDown
    /\ CountsAwaiting /\ StaleButSafe /\ DoneOrTold

-----------------------------------------------------------------------------

LEMMA NoCounts == <<>> \in Seq(Nat) /\ Len(<<>>) = 0
OBVIOUS

LEMMA RunnerInit == Init => RunnerInv
<1> SUFFICES ASSUME Init PROVE RunnerInv
  OBVIOUS
<1>1. LoopInit /\ LoopInv
  BY InitInv DEF Init
<1>2. HeldOnlyByLive /\ CutOffByTerminate
  BY <1>1 DEF LoopInit, HeldOnlyByLive, CutOffByTerminate, Open
<1>3. RunnerTypeOK
  <2>1. nthreads \in 0..MaxThreads /\ inFlight \in [Workers -> Nat]
    BY RunnerAssumption DEF Init
  <2>2. counts \in Seq(Nat)
    BY NoCounts DEF Init
  <2> QED
    BY <2>1, <2>2 DEF Init, RunnerTypeOK, HandlePCs
<1>4. LockHeld
  BY NoCounts, RunnerAssumption DEF Init, LockHeld
<1>5. ThreadsSpawned
  BY <1>1, RunnerAssumption DEF Init, LoopInit, ThreadsSpawned
<1>5a. SentWhenAwaiting
  BY <1>1 DEF Init, LoopInit, SentWhenAwaiting
<1>5b. ToldToShutDown
  BY <1>1, RunnerAssumption DEF Init, LoopInit, ToldToShutDown
<1>6. CountsAwaiting
  <2>1. \A w \in Workers : Awaiting(w) = {}
    BY DEF Init, Awaiting
  <2> QED
    BY <2>1, FS_EmptySet DEF Init, CountsAwaiting
<1>7. StaleButSafe /\ DoneOrTold
  BY DEF Init, StaleButSafe, DoneOrTold
<1> QED
  BY <1>1, <1>2, <1>3, <1>4, <1>5, <1>5a, <1>5b, <1>6, <1>7 DEF RunnerInv

(* Every step of the runner is a step that RequestLoop allows.              *)
LEMMA RunnerUsesLoop ==
    ASSUME RunnerInv, [Next]_vars
    PROVE  [LoopNext]_loopVars
<1>0. RunnerTypeOK /\ LockHeld /\ ThreadsSpawned /\ ToldToShutDown
  BY DEF RunnerInv
<1>1. ASSUME NEW r \in Requests, Handle(r) PROVE [LoopNext]_loopVars
  <2>1. CASE SpawnThread(r)
    <3>1. nthreads + 1 \in Workers
      BY <1>0, <2>1, RunnerAssumption DEF SpawnThread, RunnerTypeOK
    <3> QED
      BY <2>1, <3>1 DEF SpawnThread, LoopNext, EnvStep
  <2>2. CASE SendRequest(r)
    <3>1. chosen \in Workers
      BY <1>0, <2>2, RunnerAssumption DEF SendRequest, LockHeld, RunnerTypeOK
    <3> QED
      BY <2>2, <3>1 DEF SendRequest, LoopNext, EnvStep
  <2> QED
    BY <1>1, <2>1, <2>2 DEF Handle, Choose, Arrive, Lock, Refuse, LoadCount, UseIdle,
                            UseLeastBusy, SendFailed, Return, ClientGone
<1>2. Running \subseteq Workers /\ \A w \in Running : Open(w)
  BY <1>0, RunnerAssumption DEF Running, RunnerTypeOK, ThreadsSpawned, Open
<1>3. CASE BeginShutdown
  <2>1. \A w \in Running : phase[w] # "unborn" /\ sent[w] = {}
    BY <1>0, <1>2, <1>3 DEF BeginShutdown, ToldToShutDown, Open
  <2> QED
    BY <1>2, <1>3, <2>1 DEF BeginShutdown, LoopNext, EnvStep
<1>4. CASE ShutdownForced
  <2>1. \A w \in Running : sent[w] = {"Shutdown"}
    BY <1>0, <1>2, <1>4 DEF ShutdownForced, ToldToShutDown, Open
  <2> QED
    BY <1>2, <1>4, <2>1 DEF ShutdownForced, LoopNext, EnvStep
<1>5. CASE CtrlC \/ TimeoutReached \/ Sleep \/ WakeUp \/ ShutdownClean \/ ServerExit
  BY <1>5 DEF CtrlC, TimeoutReached, Sleep, WakeUp, ShutdownClean, ServerExit
<1>6. ASSUME NEW w \in Workers, Work(w) PROVE [LoopNext]_loopVars
  BY <1>6 DEF Work, LoopNext
<1>7. CASE UNCHANGED vars
  BY <1>7 DEF vars
<1> QED
  BY <1>1, <1>3, <1>4, <1>5, <1>6, <1>7 DEF Next, Shutdown, Ended, Spins

LEMMA RunnerLoopStep ==
    ASSUME RunnerInv, [Next]_vars
    PROVE  LoopInv' /\ HeldOnlyByLive' /\ CutOffByTerminate'
<1>1. [LoopNext]_loopVars /\ LoopInv /\ HeldOnlyByLive /\ CutOffByTerminate
  BY RunnerUsesLoop DEF RunnerInv
<1> QED
  BY <1>1, LoopNextInv, HeldNext, CutOffNext

-----------------------------------------------------------------------------
(* The mutex.                                                               *)

LEMMA LockStep ==
    ASSUME RunnerTypeOK, LockHeld, [Next]_vars
    PROVE  LockHeld'
<1> USE RunnerAssumption
<1>1. ASSUME NEW r \in Requests, Handle(r) PROVE LockHeld'
  <2>1. ASSUME UNCHANGED <<lock, spc, counts, nthreads, chosen>>,
               NEW pc \in {"locking", "returned", "gone"},
               hpc' = [hpc EXCEPT ![r] = pc], hpc[r] \notin {"counting", "sending"}
        PROVE  LockHeld'
    BY <2>1 DEF LockHeld, RunnerTypeOK
  <2>1a. CASE Arrive(r) \/ Refuse(r) \/ Return(r) \/ ClientGone(r)
    BY <2>1, <2>1a DEF Arrive, Refuse, Return, ClientGone
  <2>2. CASE Lock(r)
    BY <2>2 DEF Lock, LockHeld, RunnerTypeOK
  <2>3. CASE LoadCount(r)
    BY <2>3 DEF LoadCount, LockHeld, RunnerTypeOK
  <2>4. CASE UseIdle(r)
    BY <2>4 DEF UseIdle, Idle, Loaded, LockHeld, RunnerTypeOK
  <2>5. CASE SpawnThread(r)
    BY <2>5 DEF SpawnThread, Loaded, LockHeld, RunnerTypeOK
  <2>6. CASE UseLeastBusy(r)
    BY <2>6 DEF UseLeastBusy, Loaded, LockHeld, RunnerTypeOK
  <2>7. CASE SendRequest(r) \/ SendFailed(r)
    <3>1. \A q \in Requests : lock' # q /\ hpc'[q] \notin {"counting", "sending"}
      BY <2>7 DEF SendRequest, SendFailed, LockHeld, RunnerTypeOK
    <3>2. lock' # "shutdown" /\ spc' # "sleeping"
      BY <2>7 DEF SendRequest, SendFailed, LockHeld
    <3>3. counts' = <<>> /\ Len(counts') <= nthreads'
      BY <2>7, NoCounts DEF SendRequest, SendFailed, RunnerTypeOK
    <3> QED
      BY <3>1, <3>2, <3>3 DEF LockHeld
  <2> QED
    BY <1>1, <2>1a, <2>2, <2>3, <2>4, <2>5, <2>6, <2>7 DEF Handle, Choose
<1>2. CASE Shutdown
  BY <1>2 DEF Shutdown, CtrlC, BeginShutdown, TimeoutReached, Sleep, WakeUp,
              ShutdownClean, ShutdownForced, ServerExit, LockHeld, RunnerTypeOK
<1>3. CASE UNCHANGED runnerVars
  BY <1>3 DEF runnerVars, LockHeld
<1> QED
  BY <1>1, <1>2, <1>3 DEF Next, Ended, Spins, vars, Work

LEMMA TypeStep ==
    ASSUME RunnerInv, [Next]_vars, inFlight' \in [Workers -> Nat]
    PROVE  RunnerTypeOK'
<1> USE RunnerAssumption
<1>0. RunnerTypeOK /\ LockHeld
  BY DEF RunnerInv
<1>1. ASSUME NEW r \in Requests, Handle(r) PROVE RunnerTypeOK'
  <2>1. CASE Arrive(r) \/ Lock(r) \/ Refuse(r) \/ ClientGone(r)
    BY <1>0, <2>1 DEF Arrive, Lock, Refuse, ClientGone, RunnerTypeOK, HandlePCs
  <2>2. CASE LoadCount(r)
    <3>1. Len(counts) + 1 \in Workers
      BY <1>0, <2>2 DEF LoadCount, RunnerTypeOK
    <3> QED
      BY <1>0, <2>2, <3>1 DEF LoadCount, RunnerTypeOK
  <2>3. CASE Choose(r)
    <3>1. nthreads' \in 0..MaxThreads /\ chosen' \in Workers
      BY <1>0, <2>3 DEF Choose, UseIdle, Idle, SpawnThread, UseLeastBusy, RunnerTypeOK
    <3> QED
      BY <1>0, <2>3, <3>1 DEF Choose, UseIdle, SpawnThread, UseLeastBusy, RunnerTypeOK, HandlePCs
  <2>4. CASE SendRequest(r) \/ SendFailed(r)
    BY <1>0, <2>4, NoCounts DEF SendRequest, SendFailed, RunnerTypeOK, HandlePCs
  <2>5. CASE Return(r)
    <3>1. Status(resp[r]) \in {"ok", "500", "503"}
      BY DEF Status
    <3> QED
      BY <1>0, <2>5, <3>1 DEF Return, RunnerTypeOK, HandlePCs
  <2> QED
    BY <1>1, <2>1, <2>2, <2>3, <2>4, <2>5 DEF Handle
<1>2. CASE Shutdown
  BY <1>0, <1>2 DEF Shutdown, CtrlC, BeginShutdown, TimeoutReached, Sleep, WakeUp,
                    ShutdownClean, ShutdownForced, ServerExit, RunnerTypeOK
<1>3. CASE UNCHANGED runnerVars
  BY <1>0, <1>3 DEF runnerVars, RunnerTypeOK
<1> QED
  BY <1>1, <1>2, <1>3 DEF Next, Ended, Spins, vars, Work

-----------------------------------------------------------------------------
(* Threads and what was sent to them.                                       *)

LEMMA ThreadsStep ==
    ASSUME RunnerInv, [Next]_vars
    PROVE  ThreadsSpawned' /\ SentWhenAwaiting'
<1> USE RunnerAssumption, LoopAssumption
<1>0. /\ TypeOK /\ LoopInv
      /\ RunnerTypeOK /\ LockHeld /\ ThreadsSpawned /\ SentWhenAwaiting
  BY DEF RunnerInv, LoopInv
<1>1. ASSUME UNCHANGED <<phase, nthreads, home, resp>>, NEW r \in Requests,
             NEW pc \in HandlePCs, hpc' = [hpc EXCEPT ![r] = pc],
             pc = "awaiting" => FALSE,
             pc \in {"idle", "locking", "counting", "sending"} =>
                 hpc[r] \in {"idle", "locking", "counting", "sending"}
      PROVE  ThreadsSpawned' /\ SentWhenAwaiting'
  BY <1>0, <1>1 DEF ThreadsSpawned, SentWhenAwaiting, RunnerTypeOK
<1>2. ASSUME NEW r \in Requests, Handle(r) PROVE ThreadsSpawned' /\ SentWhenAwaiting'
  <2>1. CASE Arrive(r) \/ Lock(r) \/ Refuse(r) \/ Return(r) \/ ClientGone(r) \/ SendFailed(r)
    BY <1>1, <2>1 DEF Arrive, Lock, Refuse, Return, ClientGone, SendFailed, HandlePCs, loopVars
  <2>2. CASE UseIdle(r) \/ UseLeastBusy(r)
    BY <1>1, <2>2 DEF UseIdle, UseLeastBusy, Loaded, HandlePCs, loopVars
  <2>3. CASE LoadCount(r)
    BY <1>0, <2>3 DEF LoadCount, loopVars, ThreadsSpawned, SentWhenAwaiting
  <2>4. CASE SpawnThread(r)
    <3>1. nthreads + 1 \in Workers
      BY <1>0, <2>4 DEF SpawnThread, RunnerTypeOK
    <3>2. ThreadsSpawned'
      BY <1>0, <2>4, <3>1 DEF SpawnThread, Spawn, ThreadsSpawned, RunnerTypeOK, TypeOK
    <3>3. SentWhenAwaiting'
      BY <1>0, <2>4 DEF SpawnThread, Spawn, Loaded, SentWhenAwaiting, RunnerTypeOK
    <3> QED
      BY <3>2, <3>3
  <2>5. CASE SendRequest(r)
    <3>1. chosen \in 1..nthreads /\ chosen \in Workers
      BY <1>0, <2>5 DEF SendRequest, LockHeld, RunnerTypeOK
    <3>2. ThreadsSpawned'
      BY <1>0, <2>5, <3>1 DEF SendRequest, Send, ThreadsSpawned, TypeOK
    <3>3. SentWhenAwaiting'
      BY <1>0, <2>5, <3>1 DEF SendRequest, Send, SentWhenAwaiting, RunnerTypeOK, TypeOK
    <3> QED
      BY <3>2, <3>3
  <2> QED
    BY <1>2, <2>1, <2>2, <2>3, <2>4, <2>5 DEF Handle, Choose
<1>3. CASE Shutdown
  BY <1>0, <1>3 DEF Shutdown, CtrlC, BeginShutdown, TimeoutReached, Sleep, WakeUp,
       ShutdownClean, ShutdownForced, ServerExit, SendControl, loopVars,
       ThreadsSpawned, SentWhenAwaiting
<1>4. ASSUME NEW w \in Workers, Work(w) PROVE ThreadsSpawned' /\ SentWhenAwaiting'
  <2>1. OnlyConcerns(w) /\ UNCHANGED runnerVars
    BY <1>0, <1>4, WorkerFrame DEF Work
  <2>2. ThreadsSpawned'
    BY <1>0, <2>1 DEF OnlyConcerns, runnerVars, ThreadsSpawned, Open
  <2>3. SentWhenAwaiting'
    BY <1>0, <2>1 DEF OnlyConcerns, runnerVars, SentWhenAwaiting
  <2> QED
    BY <2>2, <2>3
<1>5. CASE UNCHANGED vars
  BY <1>0, <1>5 DEF vars, loopVars, runnerVars, ThreadsSpawned, SentWhenAwaiting
<1> QED
  BY <1>2, <1>3, <1>4, <1>5 DEF Next, Ended, Spins

LEMMA ToldStep ==
    ASSUME RunnerInv, [Next]_vars
    PROVE  ToldToShutDown'
<1> USE RunnerAssumption, LoopAssumption
<1>0. /\ TypeOK /\ LoopInv
      /\ RunnerTypeOK /\ LockHeld /\ ThreadsSpawned /\ ToldToShutDown
  BY DEF RunnerInv, LoopInv
<1>1. ASSUME NEW r \in Requests, Handle(r) PROVE ToldToShutDown'
  <2>1. CASE Arrive(r) \/ Refuse(r) \/ LoadCount(r) \/ UseIdle(r) \/ UseLeastBusy(r)
             \/ SendFailed(r) \/ Return(r) \/ ClientGone(r)
    BY <1>0, <2>1 DEF Arrive, Refuse, LoadCount, UseIdle, UseLeastBusy, SendFailed, Return,
                      ClientGone, loopVars, ToldToShutDown
  <2>2. CASE Lock(r)
    BY <1>0, <2>2 DEF Lock, loopVars, ToldToShutDown
  <2>3. CASE SpawnThread(r)
    <3>1. ~shutDown
      BY <1>0, <2>3 DEF SpawnThread, Loaded, LockHeld, ToldToShutDown
    <3> QED
      BY <1>0, <2>3, <3>1 DEF SpawnThread, Spawn, ToldToShutDown
  <2>4. CASE SendRequest(r)
    BY <1>0, <2>4 DEF SendRequest, Send, ToldToShutDown
  <2> QED
    BY <1>1, <2>1, <2>2, <2>3, <2>4 DEF Handle, Choose
<1>2. \A w \in Workers : phase[w] \notin {"unborn", "finished"} => w \in Running
  BY <1>0 DEF ThreadsSpawned, Running, RunnerTypeOK
<1>3. CASE BeginShutdown
  <2>1. \A w \in Workers : sent[w] = {} /\ sent'[w] \subseteq {"Shutdown"}
    BY <1>0, <1>3 DEF BeginShutdown, SendControl, ToldToShutDown
  <2>2. \A w \in Workers : phase'[w] \notin {"unborn", "finished"} => "Shutdown" \in sent'[w]
    BY <1>2, <1>3 DEF BeginShutdown, SendControl
  <2>3. server' = "serving" <=> spc' # "done"
    BY <1>0, <1>3 DEF BeginShutdown, ToldToShutDown
  <2> QED
    BY <1>3, <2>1, <2>2, <2>3 DEF BeginShutdown, ToldToShutDown
<1>4. CASE ShutdownForced
  <2>1. \A w \in Workers : phase'[w] \notin {"unborn", "finished"} => "Shutdown" \in sent'[w]
    BY <1>0, <1>4 DEF ShutdownForced, SendControl, ToldToShutDown
  <2> QED
    BY <1>0, <1>4, <2>1 DEF ShutdownForced, SendControl, ToldToShutDown
<1>5. CASE CtrlC \/ TimeoutReached \/ Sleep \/ WakeUp \/ ShutdownClean \/ ServerExit
  BY <1>0, <1>5 DEF CtrlC, TimeoutReached, Sleep, WakeUp, ShutdownClean, ServerExit, loopVars,
                    ToldToShutDown
<1>6. ASSUME NEW w \in Workers, Work(w) PROVE ToldToShutDown'
  <2>1. OnlyConcerns(w) /\ UNCHANGED runnerVars
    BY <1>0, <1>6, WorkerFrame DEF Work
  <2> QED
    BY <1>0, <2>1 DEF OnlyConcerns, Open, runnerVars, ToldToShutDown
<1>7. CASE UNCHANGED vars
  BY <1>0, <1>7 DEF vars, loopVars, runnerVars, ToldToShutDown
<1> QED
  BY <1>1, <1>3, <1>4, <1>5, <1>6, <1>7 DEF Next, Shutdown, Ended, Spins

-----------------------------------------------------------------------------
(* The in-flight counters.                                                  *)

(* A step that moves no request into or out of `awaiting' and sends none    *)
(* leaves the counters exact.                                               *)
LEMMA CountsKept ==
    ASSUME CountsAwaiting, UNCHANGED inFlight,
           \A r \in Requests : hpc'[r] = "awaiting" <=> hpc[r] = "awaiting",
           \A r \in Requests : hpc[r] = "awaiting" => home'[r] = home[r]
    PROVE  CountsAwaiting'
<1>1. \A w \in Workers : Awaiting(w)' = Awaiting(w)
  BY DEF Awaiting
<1> QED
  BY <1>1 DEF CountsAwaiting

(* drop(increment_guard), by a return or by a dropped future.               *)
LEMMA CountedOut ==
    ASSUME RunnerTypeOK, SentWhenAwaiting, CountsAwaiting,
           NEW r \in Requests, hpc[r] = "awaiting",
           NEW pc, pc # "awaiting", hpc' = [hpc EXCEPT ![r] = pc],
           inFlight' = [inFlight EXCEPT ![home[r]] = @ - 1], UNCHANGED home
    PROVE  /\ CountsAwaiting' /\ inFlight' \in [Workers -> Nat]
           /\ \A w \in Workers : inFlight'[w] <= inFlight[w]
<1>1. home[r] \in Workers /\ r \in Awaiting(home[r])
  BY DEF SentWhenAwaiting, Awaiting
<1>2. \A w \in Workers : Awaiting(w)' = Awaiting(w) \ {r}
  BY DEF Awaiting, RunnerTypeOK
<1>3. \A w \in Workers : w # home[r] => Awaiting(w)' = Awaiting(w)
  BY <1>2 DEF Awaiting
<1>4. /\ IsFiniteSet(Awaiting(home[r]) \ {r})
      /\ Cardinality(Awaiting(home[r]) \ {r}) = Cardinality(Awaiting(home[r])) - 1
      /\ Cardinality(Awaiting(home[r])) \in Nat
      /\ Cardinality(Awaiting(home[r]) \ {r}) \in Nat
  BY <1>1, FS_RemoveElement, FS_CardinalityType DEF CountsAwaiting
<1>5. /\ inFlight[home[r]] = Cardinality(Awaiting(home[r]))
      /\ inFlight'[home[r]] = inFlight[home[r]] - 1
      /\ \A w \in Workers : w # home[r] => inFlight'[w] = inFlight[w]
  BY <1>1 DEF CountsAwaiting, RunnerTypeOK
<1>6. CountsAwaiting'
  BY <1>1, <1>2, <1>3, <1>4, <1>5 DEF CountsAwaiting
<1>7. inFlight' \in [Workers -> Nat]
  BY <1>1, <1>4, <1>5 DEF RunnerTypeOK
<1>8. \A w \in Workers : inFlight'[w] <= inFlight[w]
  BY <1>4, <1>5 DEF RunnerTypeOK
<1> QED
  BY <1>6, <1>7, <1>8

LEMMA CountsStep ==
    ASSUME RunnerInv, [Next]_vars
    PROVE  /\ CountsAwaiting' /\ inFlight' \in [Workers -> Nat]
           /\ \/ \A w \in Workers : inFlight'[w] <= inFlight[w]
              \/ \E r \in Requests : hpc[r] = "sending" /\ hpc'[r] = "awaiting"
<1> USE RunnerAssumption, LoopAssumption
<1>0. /\ TypeOK /\ LoopInv
      /\ RunnerTypeOK /\ LockHeld /\ ThreadsSpawned /\ SentWhenAwaiting /\ CountsAwaiting
  BY DEF RunnerInv, LoopInv
<1>1. ASSUME UNCHANGED inFlight
      PROVE  inFlight' \in [Workers -> Nat] /\ \A w \in Workers : inFlight'[w] <= inFlight[w]
  BY <1>0, <1>1 DEF RunnerTypeOK
<1>2. ASSUME NEW r \in Requests, Handle(r)
      PROVE  /\ CountsAwaiting' /\ inFlight' \in [Workers -> Nat]
             /\ \/ \A w \in Workers : inFlight'[w] <= inFlight[w]
                \/ hpc[r] = "sending" /\ hpc'[r] = "awaiting"
  <2>1. CASE Arrive(r) \/ Lock(r) \/ Refuse(r) \/ LoadCount(r) \/ Choose(r) \/ SendFailed(r)
    <3>1. UNCHANGED <<inFlight, home>>
          /\ \A q \in Requests : hpc'[q] = "awaiting" <=> hpc[q] = "awaiting"
      BY <1>0, <2>1 DEF Arrive, Lock, Refuse, LoadCount, Choose, UseIdle, SpawnThread, Spawn,
                        UseLeastBusy, Loaded, SendFailed, loopVars, RunnerTypeOK
    <3> QED
      BY <1>0, <1>1, <3>1, CountsKept
  <2>2. CASE SendRequest(r)
    <3>1. PICK c \in Workers : c = chosen
      BY <1>0, <2>2 DEF SendRequest, LockHeld, RunnerTypeOK
    <3>2. \A q \in Requests : hpc'[q] = IF q = r THEN "awaiting" ELSE hpc[q]
      BY <1>0, <2>2 DEF SendRequest, RunnerTypeOK
    <3>3. \A q \in Requests : home'[q] = IF q = r THEN c ELSE home[q]
      BY <1>0, <2>2, <3>1 DEF SendRequest, Send, TypeOK
    <3>4. hpc[r] = "sending"
      BY <2>2 DEF SendRequest
    <3>5. r \notin Awaiting(c) /\ Awaiting(c)' = Awaiting(c) \cup {r}
      BY <3>2, <3>3, <3>4 DEF Awaiting
    <3>6. \A w \in Workers : w # c => Awaiting(w)' = Awaiting(w)
      BY <3>2, <3>3, <3>4 DEF Awaiting
    <3>7. /\ IsFiniteSet(Awaiting(c) \cup {r})
          /\ Cardinality(Awaiting(c) \cup {r}) = Cardinality(Awaiting(c)) + 1
      BY <1>0, <3>5, FS_AddElement DEF CountsAwaiting
    <3>8. /\ inFlight'[c] = inFlight[c] + 1
          /\ \A w \in Workers : w # c => inFlight'[w] = inFlight[w]
          /\ inFlight' \in [Workers -> Nat]
      BY <1>0, <2>2, <3>1 DEF SendRequest, RunnerTypeOK
    <3>9. CountsAwaiting'
      <4> SUFFICES ASSUME NEW w \in Workers
                   PROVE  /\ IsFiniteSet(Awaiting(w)')
                          /\ inFlight'[w] = Cardinality(Awaiting(w)')
        BY DEF CountsAwaiting
      <4>1. IsFiniteSet(Awaiting(w)) /\ inFlight[w] = Cardinality(Awaiting(w))
        BY <1>0 DEF CountsAwaiting
      <4>2. CASE w = c
        BY <3>5, <3>7, <3>8, <4>1, <4>2
      <4>3. CASE w # c
        BY <3>6, <3>8, <4>1, <4>3
      <4> QED
        BY <4>2, <4>3
    <3> QED
      BY <3>2, <3>4, <3>8, <3>9
  <2>3. CASE Return(r)
    BY <1>0, <2>3, CountedOut DEF Return, loopVars
  <2>4. CASE ClientGone(r)
    <3>1. CASE hpc[r] = "awaiting"
      BY <1>0, <2>4, <3>1, CountedOut DEF ClientGone, loopVars
    <3>2. CASE hpc[r] # "awaiting"
      <4>1. UNCHANGED <<inFlight, home>>
            /\ \A q \in Requests : hpc'[q] = "awaiting" <=> hpc[q] = "awaiting"
        BY <1>0, <2>4, <3>2 DEF ClientGone, loopVars, RunnerTypeOK
      <4> QED
        BY <1>0, <1>1, <4>1, CountsKept
    <3> QED
      BY <3>1, <3>2
  <2> QED
    BY <1>2, <2>1, <2>2, <2>3, <2>4 DEF Handle
<1>3. CASE UNCHANGED <<inFlight, hpc, home>>
  BY <1>0, <1>1, <1>3, CountsKept
<1>4. CASE Shutdown
  BY <1>3, <1>4 DEF Shutdown, CtrlC, BeginShutdown, TimeoutReached, Sleep, WakeUp,
                    ShutdownClean, ShutdownForced, ServerExit, SendControl, loopVars
<1>5. ASSUME NEW w \in Workers, Work(w) PROVE UNCHANGED <<inFlight, hpc, home>>
  BY <1>0, <1>5, WorkerFrame DEF Work, OnlyConcerns, runnerVars
<1> QED
  BY <1>2, <1>3, <1>4, <1>5 DEF Next, Ended, Spins, vars, loopVars, runnerVars

LEMMA StaleStep ==
    ASSUME RunnerInv, [Next]_vars
    PROVE  StaleButSafe'
<1> USE RunnerAssumption, LoopAssumption
<1>0. RunnerTypeOK /\ LockHeld /\ ThreadsSpawned /\ StaleButSafe
  BY DEF RunnerInv
<1>1. 1..Len(counts) \subseteq Workers
  BY <1>0 DEF LockHeld, RunnerTypeOK
<1>2. /\ inFlight' \in [Workers -> Nat]
      /\ \/ \A w \in Workers : inFlight'[w] <= inFlight[w]
         \/ \E q \in Requests : hpc[q] = "sending" /\ hpc'[q] = "awaiting"
  BY CountsStep
(* Steps that load nothing and choose nothing.                              *)
<1>3. ASSUME \A w \in Workers : inFlight'[w] <= inFlight[w],
             UNCHANGED <<counts, chosen, nthreads>>,
             \A r \in Requests : hpc'[r] = "sending" => hpc[r] = "sending"
      PROVE  StaleButSafe'
  <2>1. \A i \in 1..Len(counts) : inFlight'[i] <= counts[i]
    <3> SUFFICES ASSUME NEW i \in 1..Len(counts) PROVE inFlight'[i] <= counts[i]
      OBVIOUS
    <3>1. i \in Workers
      BY <1>1
    <3>2. inFlight'[i] \in Nat /\ inFlight[i] \in Nat
      BY <1>0, <1>2, <3>1 DEF RunnerTypeOK
    <3>3. counts[i] \in Nat
      BY <1>0 DEF RunnerTypeOK
    <3>4. inFlight'[i] <= inFlight[i]
      BY <1>3, <3>1
    <3>5. inFlight[i] <= counts[i]
      BY <1>0 DEF StaleButSafe
    <3> QED
      BY <3>2, <3>3, <3>4, <3>5
  <2>2. ASSUME NEW r \in Requests, hpc'[r] = "sending", nthreads # MaxThreads
        PROVE  inFlight'[chosen] = 0
    <3>1. chosen \in Workers /\ inFlight[chosen] = 0
      BY <1>0, <1>3, <2>2 DEF LockHeld, StaleButSafe, RunnerTypeOK
    <3> QED
      BY <1>0, <1>2, <1>3, <3>1 DEF RunnerTypeOK
  <2> QED
    BY <1>3, <2>1, <2>2 DEF StaleButSafe
<1>4. ASSUME NEW r \in Requests, Handle(r) PROVE StaleButSafe'
  <2>1. CASE Arrive(r) \/ Lock(r) \/ Refuse(r) \/ Return(r) \/ ClientGone(r)
    <3>1. /\ UNCHANGED <<counts, chosen, nthreads>>
          /\ \A q \in Requests : hpc'[q] = "sending" => hpc[q] = "sending"
          /\ \A q \in Requests : ~ (hpc[q] = "sending" /\ hpc'[q] = "awaiting")
      BY <1>0, <2>1 DEF Arrive, Lock, Refuse, Return, ClientGone, RunnerTypeOK
    <3>2. \A w \in Workers : inFlight'[w] <= inFlight[w]
      BY <1>2, <3>1
    <3> QED
      BY <1>3, <3>1, <3>2
  <2>2. CASE LoadCount(r)
    <3>1. /\ Len(counts) + 1 \in Workers
          /\ counts' = Append(counts, inFlight[Len(counts) + 1])
          /\ UNCHANGED <<inFlight, hpc, chosen, nthreads>>
      BY <1>0, <2>2 DEF LoadCount, RunnerTypeOK
    <3>2. /\ Len(counts') = Len(counts) + 1
          /\ counts'[Len(counts) + 1] = inFlight[Len(counts) + 1]
          /\ \A i \in 1..Len(counts) : counts'[i] = counts[i]
          /\ Len(counts) \in Nat
      BY <1>0, <3>1 DEF RunnerTypeOK
    <3>3. \A i \in 1..Len(counts') : inFlight'[i] <= counts'[i]
      BY <1>0, <3>1, <3>2 DEF StaleButSafe, RunnerTypeOK
    <3> QED
      BY <1>0, <3>1, <3>3 DEF StaleButSafe
  <2>3. CASE Choose(r)
    <3>1. UNCHANGED <<inFlight, counts>>
      BY <2>3 DEF Choose, UseIdle, SpawnThread, UseLeastBusy
    <3>2. inFlight'[chosen'] = 0 \/ nthreads' = MaxThreads
      <4>1. CASE UseIdle(r)
        <5>1. chosen' \in 1..Len(counts) /\ counts[chosen'] <= 0
          BY <4>1 DEF UseIdle, Idle, Loaded
        <5>2. inFlight[chosen'] <= counts[chosen'] /\ inFlight[chosen'] \in Nat
              /\ counts[chosen'] \in Nat
          BY <1>0, <1>1, <5>1 DEF StaleButSafe, RunnerTypeOK
        <5> QED
          BY <3>1, <5>1, <5>2
      <4>2. CASE SpawnThread(r)
        <5>1. chosen' \in Workers /\ chosen' > nthreads
          BY <1>0, <4>2 DEF SpawnThread, RunnerTypeOK
        <5>2. Awaiting(chosen') = {}
          BY <1>0, <5>1 DEF Awaiting, ThreadsSpawned, RunnerTypeOK
        <5>3. inFlight[chosen'] = 0
          BY <5>1, <5>2, FS_EmptySet DEF RunnerInv, CountsAwaiting
        <5> QED
          BY <3>1, <5>3
      <4>3. CASE UseLeastBusy(r)
        BY <4>3 DEF UseLeastBusy
      <4> QED
        BY <2>3, <4>1, <4>2, <4>3 DEF Choose
    <3> QED
      BY <1>0, <3>1, <3>2 DEF StaleButSafe
  <2>4. CASE SendRequest(r) \/ SendFailed(r)
    <3>1. \A q \in Requests : hpc'[q] # "sending"
      BY <1>0, <2>4 DEF SendRequest, SendFailed, LockHeld, RunnerTypeOK
    <3>2. Len(counts') = 0
      BY <2>4, NoCounts DEF SendRequest, SendFailed
    <3> QED
      BY <3>1, <3>2 DEF StaleButSafe
  <2> QED
    BY <1>4, <2>1, <2>2, <2>3, <2>4 DEF Handle
<1>5. ASSUME UNCHANGED <<inFlight, counts, chosen, nthreads, hpc>> PROVE StaleButSafe'
  BY <1>0, <1>5 DEF StaleButSafe
<1>6. CASE Shutdown
  BY <1>5, <1>6 DEF Shutdown, CtrlC, BeginShutdown, TimeoutReached, Sleep, WakeUp,
                    ShutdownClean, ShutdownForced, ServerExit
<1>7. ASSUME NEW w \in Workers, Work(w) PROVE StaleButSafe'
  BY <1>5, <1>7 DEF Work, runnerVars
<1>8. CASE UNCHANGED vars
  BY <1>5, <1>8 DEF vars, runnerVars
<1> QED
  BY <1>4, <1>6, <1>7, <1>8 DEF Next, Ended, Spins

LEMMA DoneStep ==
    ASSUME RunnerInv, [Next]_vars
    PROVE  DoneOrTold'
<1> USE RunnerAssumption, LoopAssumption
<1>0. /\ TypeOK /\ LoopInv
      /\ RunnerTypeOK /\ LockHeld /\ ThreadsSpawned /\ ToldToShutDown /\ DoneOrTold
  BY DEF RunnerInv, LoopInv
<1>1. ASSUME NEW r \in Requests, Handle(r) PROVE DoneOrTold'
  <2>1. CASE SpawnThread(r)
    <3>1. spc' # "done"
      BY <1>0, <2>1 DEF SpawnThread, Loaded, LockHeld, ToldToShutDown
    <3> QED
      BY <3>1 DEF DoneOrTold
  <2>2. CASE ~SpawnThread(r)
    BY <1>0, <1>1, <2>2 DEF Handle, Choose, Arrive, Lock, Refuse, LoadCount, UseIdle,
         UseLeastBusy, SendRequest, Send, SendFailed, Return, ClientGone, loopVars, DoneOrTold
  <2> QED
    BY <2>1, <2>2
<1>2. CASE ShutdownForced
  <2>1. Running \subseteq Workers /\ Running # {}
    BY <1>0, <1>2 DEF ShutdownForced, Running, RunnerTypeOK
  <2>2. \E w \in Workers : "Terminate" \in sent'[w]
    BY <1>2, <2>1 DEF ShutdownForced, SendControl
  <2> QED
    BY <2>2 DEF DoneOrTold
<1>3. CASE ShutdownClean
  BY <1>0, <1>3 DEF ShutdownClean, Running, loopVars, DoneOrTold
<1>4. CASE CtrlC \/ BeginShutdown \/ TimeoutReached \/ Sleep \/ WakeUp \/ ServerExit
  BY <1>0, <1>4 DEF CtrlC, BeginShutdown, TimeoutReached, Sleep, WakeUp, ServerExit,
                    loopVars, DoneOrTold
<1>5. ASSUME NEW w \in Workers, Work(w) PROVE DoneOrTold'
  <2>1. OnlyConcerns(w) /\ UNCHANGED runnerVars
    BY <1>0, <1>5, WorkerFrame DEF Work
  <2> QED
    BY <1>0, <2>1 DEF OnlyConcerns, Open, runnerVars, DoneOrTold, RunnerTypeOK
<1>6. CASE UNCHANGED vars
  BY <1>0, <1>6 DEF vars, loopVars, runnerVars, DoneOrTold
<1> QED
  BY <1>1, <1>2, <1>3, <1>4, <1>5, <1>6 DEF Next, Shutdown, Ended, Spins

LEMMA RunnerNext == RunnerInv /\ [Next]_vars => RunnerInv'
<1> SUFFICES ASSUME RunnerInv, [Next]_vars PROVE RunnerInv'
  OBVIOUS
<1>1. LockHeld'
  BY LockStep DEF RunnerInv
<1>2. CountsAwaiting' /\ inFlight' \in [Workers -> Nat]
  BY CountsStep
<1>3. RunnerTypeOK'
  BY <1>2, TypeStep
<1> QED
  BY <1>1, <1>2, <1>3, RunnerLoopStep, ThreadsStep, ToldStep, StaleStep, DoneStep DEF RunnerInv

(* The runner, its threads and shutdown keep the inductive invariant.       *)
THEOREM RunnerInvariant == Spec => []RunnerInv
BY RunnerInit, RunnerNext, PTL DEF Spec

(* SingleRunner uses its workers as RequestLoop allows: all that is proved  *)
(* of LoopSpec holds of the workers behind the runner.                      *)
THEOREM RunnerUsesLoopProperly == Spec => UsesLoopProperly
<1>1. Init => LoopInit
  BY DEF Init
<1>2. RunnerInv /\ [Next]_vars => [LoopNext]_loopVars
  BY RunnerUsesLoop
<1> QED
  BY <1>1, <1>2, RunnerInvariant, PTL DEF Spec, LoopSpec, UsesLoopProperly

(* in_flight_requests is exact, for any set of requests.                    *)
THEOREM RunnerInFlightExact == Spec => []InFlightExact
<1>1. RunnerInv => InFlightExact
  BY DEF RunnerInv, CountsAwaiting, InFlightExact, Awaiting
<1> QED
  BY <1>1, RunnerInvariant, PTL

-----------------------------------------------------------------------------
(* The mutex orders handle against shutdown.                                *)

(* In a channel the requests come first.                                    *)
RequestsFirst(s) ==
    \A i, j \in 1..Len(s) : i < j /\ s[i] \in Control => s[j] \in Control

LEMMA FirstAfterTail ==
    ASSUME NEW s \in Seq(Requests \cup Control), s # <<>>, RequestsFirst(s)
    PROVE  /\ RequestsFirst(Tail(s))
           /\ Requests \cap Range(Tail(s)) \subseteq Requests \cap Range(s)
           /\ Head(s) \in Control => Requests \cap Range(Tail(s)) = {}
<1>1. /\ Len(s) \in Nat /\ Len(s) > 0 /\ Len(Tail(s)) = Len(s) - 1
      /\ Tail(s) \in Seq(Requests \cup Control)
      /\ \A i \in 1..Len(Tail(s)) : Tail(s)[i] = s[i + 1]
      /\ Head(s) = s[1]
  OBVIOUS
<1>2. RequestsFirst(Tail(s))
  BY <1>1 DEF RequestsFirst
<1>3. Range(Tail(s)) \subseteq Range(s)
  BY TailFacts
<1>4. ASSUME Head(s) \in Control PROVE Requests \cap Range(Tail(s)) = {}
  <2>1. \A i \in 1..Len(Tail(s)) : Tail(s)[i] \in Control
    BY <1>1, <1>4 DEF RequestsFirst
  <2>2. Range(Tail(s)) \subseteq Control
    BY <1>1, <2>1 DEF Range
  <2> QED
    BY <2>2, LoopAssumption
<1> QED
  BY <1>2, <1>3, <1>4

LEMMA FirstAfterAppend ==
    ASSUME NEW s \in Seq(Requests \cup Control), NEW m \in Requests \cup Control,
           RequestsFirst(s), m \in Control \/ Range(s) \cap Control = {}
    PROVE  RequestsFirst(Append(s, m))
<1>1. /\ Len(s) \in Nat /\ Len(Append(s, m)) = Len(s) + 1
      /\ \A i \in 1..Len(s) : Append(s, m)[i] = s[i]
      /\ Append(s, m)[Len(s) + 1] = m
  OBVIOUS
<1>2. CASE m \in Control
  BY <1>1, <1>2 DEF RequestsFirst
<1>3. CASE Range(s) \cap Control = {}
  <2>1. \A i \in 1..Len(s) : s[i] \notin Control
    BY <1>3 DEF Range
  <2> QED
    BY <1>1, <2>1 DEF RequestsFirst
<1> QED
  BY <1>2, <1>3

LEMMA BehindWorkerStep ==
    ASSUME LoopInv, NothingBehindShutdown, NEW w \in Workers, WorkerStep(w)
    PROVE  NothingBehindShutdown'
<1>0. TypeOK /\ OnlyConcerns(w)
  BY WorkerFrame DEF LoopInv
<1>1. /\ \A v \in Workers : RequestsFirst(chan[v]) /\ (shutdownRequested[v] => Queued(v) = {})
      /\ \A r \in Requests : resp[r] # "lateError"
  BY DEF NothingBehindShutdown, RequestsFirst
<1>2. chan[w] \in Seq(Requests \cup Control)
  BY <1>0 DEF TypeOK
<1>3. SUFFICES /\ RequestsFirst(chan'[w])
               /\ shutdownRequested'[w] => Requests \cap Range(chan'[w]) = {}
               /\ \A r \in Requests : resp'[r] # "lateError"
  <2>1. \A v \in Workers : v # w => /\ RequestsFirst(chan'[v])
                                    /\ shutdownRequested'[v] => Requests \cap Range(chan'[v]) = {}
    BY <1>0, <1>1 DEF OnlyConcerns, Queued
  <2>2. \A v \in Workers : /\ RequestsFirst(chan'[v])
                           /\ shutdownRequested'[v] => Requests \cap Range(chan'[v]) = {}
    BY <1>3, <2>1
  <2> QED
    BY <1>3, <2>2 DEF NothingBehindShutdown, RequestsFirst, Queued
<1>4. CASE LeavesChannel(w)
  BY <1>1, <1>4 DEF LeavesChannel, Queued
<1>5. CASE TakesRequest(w)
  <2>1. chan'[w] = Tail(chan[w]) /\ chan[w] # <<>> /\ Head(chan[w]) \in Queued(w)
    BY <1>0, <1>2, <1>5, TailFacts DEF TakesRequest, TypeOK, Queued
  <2>2. ~shutdownRequested[w] /\ ~shutdownRequested'[w]
    BY <1>1, <1>5, <2>1 DEF TakesRequest
  <2>3. \A r \in Requests : resp'[r] # "lateError"
    BY <1>1, <1>5, <2>2 DEF TakesRequest
  <2> QED
    BY <1>1, <1>2, <2>1, <2>2, <2>3, FirstAfterTail
<1>6. CASE RecvShutdown(w)
  <2>1. chan'[w] = Tail(chan[w]) /\ chan[w] # <<>> /\ Head(chan[w]) \in Control
    BY <1>0, <1>6 DEF RecvShutdown, TypeOK, Control
  <2>2. UNCHANGED resp
    BY <1>6 DEF RecvShutdown
  <2> QED
    BY <1>1, <1>2, <2>1, <2>2, FirstAfterTail
<1>7. CASE QuitsLoop(w)
  <2>1. PICK cancel \in {"dropped", "shuttingDown"} : Quit(w, cancel)
    BY <1>7 DEF QuitsLoop, LoopExit, FailedExit, RecvTerminate, Panic
  <2>2. chan'[w] = <<>> /\ \A r \in Requests : resp'[r] # "lateError"
    BY <1>0, <1>1, <2>1 DEF Quit, TypeOK
  <2>3. RequestsFirst(<<>>) /\ Range(<<>>) = {}
    BY EmptyFacts, NoCounts DEF RequestsFirst
  <2> QED
    BY <2>2, <2>3
<1> QED
  BY <1>4, <1>5, <1>6, <1>7, ChannelStep

LEMMA BehindStep ==
    ASSUME RunnerInv, NothingBehindShutdown, [Next]_vars
    PROVE  NothingBehindShutdown'
<1> USE RunnerAssumption, LoopAssumption
<1>0. /\ TypeOK /\ LoopInv /\ ControlSent /\ HeldOnlyByLive
      /\ RunnerTypeOK /\ LockHeld /\ ThreadsSpawned /\ ToldToShutDown
  BY DEF RunnerInv, LoopInv
<1>1. /\ \A v \in Workers : RequestsFirst(chan[v]) /\ (shutdownRequested[v] => Queued(v) = {})
      /\ \A r \in Requests : resp[r] # "lateError"
  BY DEF NothingBehindShutdown, RequestsFirst
<1>2. ASSUME UNCHANGED <<chan, shutdownRequested, resp>> PROVE NothingBehindShutdown'
  BY <1>2 DEF NothingBehindShutdown, Queued
<1>3. ASSUME NEW r \in Requests, SendRequest(r) PROVE NothingBehindShutdown'
  <2>1. PICK c \in Workers : c = chosen
    BY <1>0, <1>3 DEF SendRequest, LockHeld, RunnerTypeOK
  <2>2. ~shutDown
    BY <1>0, <1>3 DEF SendRequest, LockHeld, ToldToShutDown
  <2>3. Range(chan[c]) \cap Control = {} /\ ~shutdownRequested[c]
    BY <1>0, <2>2 DEF ToldToShutDown, ControlSent, HeldOnlyByLive
  <2>4. RequestsFirst(Append(chan[c], r))
    BY <1>0, <1>1, <2>3, FirstAfterAppend DEF TypeOK
  <2>5. /\ UNCHANGED shutdownRequested
        /\ \A v \in Workers : chan'[v] = IF v = c THEN Append(chan[c], r) ELSE chan[v]
        /\ \A q \in Requests : resp'[q] # "lateError"
    BY <1>0, <1>1, <1>3, <2>1 DEF SendRequest, Send, TypeOK
  <2>6. \A v \in Workers : /\ RequestsFirst(chan'[v])
                           /\ shutdownRequested'[v] => Requests \cap Range(chan'[v]) = {}
    BY <1>1, <2>3, <2>4, <2>5 DEF Queued
  <2> QED
    BY <2>5, <2>6 DEF NothingBehindShutdown, RequestsFirst, Queued
<1>4. ASSUME NEW W \in SUBSET Workers, NEW m \in Control, SendControl(W, m)
      PROVE  NothingBehindShutdown'
  <2>1. \A v \in Workers : chan'[v] = chan[v] \/ chan'[v] = Append(chan[v], m)
    BY <1>4 DEF SendControl
  <2>2. ASSUME NEW v \in Workers
        PROVE  RequestsFirst(chan'[v]) /\ Requests \cap Range(chan'[v]) = Queued(v)
    <3>1. chan[v] \in Seq(Requests \cup Control) /\ m \in Requests \cup Control
      BY <1>0, <1>4 DEF TypeOK
    <3>2. RequestsFirst(Append(chan[v], m))
      BY <1>1, <1>4, <3>1, FirstAfterAppend
    <3>3. Range(Append(chan[v], m)) = Range(chan[v]) \cup {m}
      BY <3>1, AppendFacts
    <3>4. m \notin Requests
      BY <1>4
    <3>5. CASE chan'[v] = chan[v]
      BY <1>1, <3>5 DEF Queued
    <3>6. CASE chan'[v] = Append(chan[v], m)
      BY <3>2, <3>3, <3>4, <3>6 DEF Queued
    <3> QED
      BY <2>1, <3>5, <3>6
  <2>4. UNCHANGED <<shutdownRequested, resp>>
    BY <1>4 DEF SendControl
  <2> QED
    BY <1>1, <2>2, <2>4 DEF NothingBehindShutdown, RequestsFirst, Queued
<1>5. ASSUME NEW r \in Requests, Handle(r) PROVE NothingBehindShutdown'
  <2>1. CASE ~SendRequest(r)
    BY <1>2, <1>5, <2>1 DEF Handle, Choose, Arrive, Lock, Refuse, LoadCount, UseIdle,
         SpawnThread, Spawn, UseLeastBusy, SendFailed, Return, ClientGone, loopVars
  <2> QED
    BY <1>3, <2>1
<1>6. Running \subseteq Workers
  BY <1>0 DEF Running, RunnerTypeOK
<1>7. CASE BeginShutdown \/ ShutdownForced
  BY <1>4, <1>6, <1>7 DEF BeginShutdown, ShutdownForced, Control
<1>8. CASE CtrlC \/ TimeoutReached \/ Sleep \/ WakeUp \/ ShutdownClean \/ ServerExit
  BY <1>2, <1>8 DEF CtrlC, TimeoutReached, Sleep, WakeUp, ShutdownClean, ServerExit, loopVars
<1>9. ASSUME NEW w \in Workers, Work(w) PROVE NothingBehindShutdown'
  BY <1>0, <1>9, BehindWorkerStep DEF Work
<1>10. CASE UNCHANGED vars
  BY <1>2, <1>10 DEF vars, loopVars
<1> QED
  BY <1>5, <1>7, <1>8, <1>9, <1>10 DEF Next, Shutdown, Ended, Spins

(* No request follows Shutdown into a channel, so that none is turned away  *)
(* as late or dropped by a thread that leaves its loop.                     *)
THEOREM RunnerNothingBehindShutdown == Spec => []NothingBehindShutdown
<1>1. Init => NothingBehindShutdown
  <2> SUFFICES ASSUME Init PROVE NothingBehindShutdown
    OBVIOUS
  <2>1. \A w \in Workers : chan[w] = <<>> /\ ~shutdownRequested[w]
    BY DEF Init, LoopInit
  <2>2. \A r \in Requests : resp[r] # "lateError"
    BY DEF Init, LoopInit
  <2> QED
    BY <2>1, <2>2, NoCounts DEF NothingBehindShutdown
<1>2. RunnerInv /\ NothingBehindShutdown /\ [Next]_vars => NothingBehindShutdown'
  BY BehindStep
<1> QED
  BY <1>1, <1>2, RunnerInvariant, PTL DEF Spec

-----------------------------------------------------------------------------
(* Loads may be stale when they are used, but a request joins a busy thread *)
(* only when every thread is there.                                         *)
THEOREM RunnerBusyOnlyWhenFull == Spec => BusyOnlyWhenFull
<1> DEFINE Joined == \A r \in Requests, w \in Workers :
                        home[r] # w /\ home'[r] = w /\ inFlight[w] > 0 => nthreads = MaxThreads
<1>1. ASSUME RunnerInv, [Next]_vars PROVE Joined
  <2>0. /\ TypeOK /\ LoopInv /\ RunnerTypeOK /\ LockHeld /\ StaleButSafe
    BY <1>1 DEF RunnerInv, LoopInv
  <2>1. ASSUME UNCHANGED home PROVE Joined
    BY <2>1
  <2>2. ASSUME NEW q \in Requests, SendRequest(q) PROVE Joined
    <3>1. \A r \in Requests : home'[r] = IF r = q THEN chosen ELSE home[r]
      BY <2>0, <2>2 DEF SendRequest, Send, TypeOK
    <3>2. inFlight[chosen] = 0 \/ nthreads = MaxThreads
      BY <2>0, <2>2 DEF SendRequest, StaleButSafe
    <3> QED
      BY <3>1, <3>2
  <2>3. ASSUME NEW q \in Requests, Handle(q) PROVE Joined
    <3>1. CASE ~SendRequest(q)
      BY <2>1, <2>3, <3>1 DEF Handle, Choose, Arrive, Lock, Refuse, LoadCount, UseIdle,
           SpawnThread, Spawn, UseLeastBusy, SendFailed, Return, ClientGone, loopVars
    <3> QED
      BY <2>2, <3>1
  <2>4. CASE Shutdown
    BY <2>1, <2>4 DEF Shutdown, CtrlC, BeginShutdown, TimeoutReached, Sleep, WakeUp,
         ShutdownClean, ShutdownForced, ServerExit, SendControl, loopVars
  <2>5. ASSUME NEW w \in Workers, Work(w) PROVE Joined
    BY <2>0, <2>1, <2>5, WorkerFrame DEF Work, OnlyConcerns
  <2>6. CASE UNCHANGED vars
    BY <2>1, <2>6 DEF vars, loopVars
  <2> QED
    BY <1>1, <2>3, <2>4, <2>5, <2>6 DEF Next, Ended, Spins
<1>2. RunnerInv /\ [Next]_vars => [Joined]_vars
  BY <1>1
<1> QED
  BY <1>2, RunnerInvariant, PTL DEF Spec, BusyOnlyWhenFull

(* A shutdown that never sent Terminate served every request it accepted.   *)
THEOREM RunnerCleanShutdown == Spec => []CleanShutdownServesAll
<1>1. ASSUME RunnerInv PROVE CleanShutdownServesAll
  <2>0. /\ NoLostRequest /\ HeldOnlyByLive /\ CutOffByTerminate
        /\ RunnerTypeOK /\ ThreadsSpawned /\ DoneOrTold
    BY <1>1 DEF RunnerInv, LoopInv
  <2>1. ASSUME \A w \in Workers : "Terminate" \notin sent[w], spc = "done",
               NEW r \in Requests
        PROVE  resp[r] # "waiting"
    <3>1. SUFFICES ASSUME resp[r] = "waiting" PROVE FALSE
      OBVIOUS
    <3>2. home[r] \in Workers /\ r \in requests[home[r]] \cup Queued(home[r])
      BY <2>0, <3>1 DEF NoLostRequest
    <3>3. phase[home[r]] = "finished"
      BY <2>0, <2>1, <3>2, LoopAssumption DEF ThreadsSpawned, DoneOrTold
    <3>4. requests[home[r]] = {} /\ chan[home[r]] = <<>>
      BY <2>0, <3>2, <3>3 DEF HeldOnlyByLive, Open
    <3> QED
      BY <3>2, <3>4, EmptyFacts DEF Queued
  <2> QED
    BY <2>0, <2>1 DEF CutOffByTerminate, CleanShutdownServesAll
<1> QED
  BY <1>1, RunnerInvariant, PTL

-----------------------------------------------------------------------------
(* SingleRunner implements RequestService.                                  *)

Seen(r) == CASE hpc[r] = "idle" -> "idle"
             [] hpc[r] = "returned" -> reply[r]
             [] hpc[r] = "gone" -> "gone"
             [] OTHER -> "waiting"

Stage == CASE server = "exited" -> "exited"
           [] server = "stopping" -> "stopped"
           [] OTHER -> IF spc = "idle" THEN "open" ELSE "closing"

(* A step that moves one client is a step of the service's client array.    *)
LEMMA OneClient ==
    ASSUME NEW q \in Requests, NEW c, Seen(q)' = c,
           \A r \in Requests : r # q => Seen(r)' = Seen(r)
    PROVE  [r \in Requests |-> Seen(r)]' = [[r \in Requests |-> Seen(r)] EXCEPT ![q] = c]
OBVIOUS

(* A client that waits is answered.                                         *)
LEMMA ServiceAnswer ==
    ASSUME NEW q \in Requests, NEW c \in {"ok", "500", "503"},
           Stage # "exited", Stage' = Stage, c = "503" => Stage # "open",
           Seen(q) = "waiting", Seen(q)' = c,
           \A r \in Requests : r # q => Seen(r)' = Seen(r)
    PROVE  Service!Answer(q)
<1>1. [r \in Requests |-> Seen(r)]' = [[r \in Requests |-> Seen(r)] EXCEPT ![q] = c]
  BY OneClient
<1> QED
  BY <1>1 DEF Service!Answer, Service!Become, Seen, Stage

LEMMA ServiceHandle ==
    ASSUME RunnerInv, Alive, NEW q \in Requests, Handle(q)
    PROVE  \/ Service!Accept(q) \/ Service!Answer(q) \/ Service!Disconnect(q)
           \/ UNCHANGED Service!serviceVars
<1>0. /\ RunnerTypeOK /\ LockHeld /\ ToldToShutDown /\ CutOffByTerminate /\ TypeOK
  BY DEF RunnerInv, LoopInv
<1>1. CASE Arrive(q)
  <2>1. Seen(q) = "idle" /\ Seen(q)' = "waiting" /\ \A r \in Requests : r # q => Seen(r)' = Seen(r)
    BY <1>0, <1>1 DEF Arrive, Seen, RunnerTypeOK
  <2>2. Stage \in {"open", "closing"} /\ Stage' = Stage
    BY <1>1 DEF Arrive, Stage
  <2>3. [r \in Requests |-> Seen(r)]' = [[r \in Requests |-> Seen(r)] EXCEPT ![q] = "waiting"]
    BY <2>1, OneClient
  <2> QED
    BY <2>1, <2>2, <2>3 DEF Service!Accept, Service!Become, Seen, Stage
<1>2. CASE Refuse(q) \/ SendFailed(q) \/ Return(q)
  <2>1. PICK c \in {"ok", "500", "503"} :
            /\ reply' = [reply EXCEPT ![q] = c]
            /\ c = "503" => shutDown \/ resp[q] = "shuttingDown"
    <3>1. CASE Refuse(q)
      BY <3>1 DEF Refuse
    <3>2. CASE SendFailed(q)
      BY <3>2 DEF SendFailed
    <3>3. CASE Return(q)
      <4>1. /\ Status(resp[q]) \in {"ok", "500", "503"}
            /\ Status(resp[q]) = "503" => resp[q] = "shuttingDown"
        BY DEF Status
      <4> QED
        BY <3>3, <4>1 DEF Return
    <3> QED
      BY <1>2, <3>1, <3>2, <3>3
  <2>2. /\ hpc' = [hpc EXCEPT ![q] = "returned"]
        /\ hpc[q] \in {"locking", "sending", "awaiting"}
        /\ UNCHANGED <<server, spc>>
    BY <1>2 DEF Refuse, SendFailed, Return
  <2>3. /\ Seen(q) = "waiting" /\ Seen(q)' = c
        /\ \A r \in Requests : r # q => Seen(r)' = Seen(r)
    BY <1>0, <2>1, <2>2 DEF Seen, RunnerTypeOK
  <2>4. ASSUME c = "503" PROVE Stage # "open"
    <3>1. CASE shutDown
      BY <1>0, <3>1 DEF ToldToShutDown, Stage
    <3>2. CASE resp[q] = "shuttingDown"
      <4>1. PICK w \in Workers : "Terminate" \in sent[w]
        BY <1>0, <3>2 DEF CutOffByTerminate
      <4>2. spc = "done"
        BY <1>0, <4>1 DEF ToldToShutDown
      <4> QED
        BY <1>0, <4>2 DEF ToldToShutDown, RunnerTypeOK, Stage
    <3> QED
      BY <2>1, <2>4, <3>1, <3>2
  <2>5. Stage # "exited" /\ Stage' = Stage
    BY <2>2 DEF Alive, Stage
  <2> QED
    BY <2>3, <2>4, <2>5, ServiceAnswer
<1>3. CASE ClientGone(q)
  <2>1. /\ Seen(q) = "waiting" /\ Seen(q)' = "gone"
        /\ \A r \in Requests : r # q => Seen(r)' = Seen(r)
    BY <1>0, <1>3 DEF ClientGone, Seen, RunnerTypeOK
  <2>2. Stage # "exited" /\ Stage' = Stage
    BY <1>3 DEF ClientGone, Alive, Stage
  <2>3. [r \in Requests |-> Seen(r)]' = [[r \in Requests |-> Seen(r)] EXCEPT ![q] = "gone"]
    BY <2>1, OneClient
  <2> QED
    BY <2>1, <2>2, <2>3 DEF Service!Disconnect, Service!Become, Seen, Stage
<1>4. CASE Lock(q) \/ LoadCount(q) \/ Choose(q) \/ SendRequest(q)
  <2>1. UNCHANGED <<reply, server, spc>>
    BY <1>4 DEF Lock, LoadCount, Choose, UseIdle, SpawnThread, UseLeastBusy, SendRequest
  <2>2. \A r \in Requests : \/ hpc'[r] = hpc[r]
                            \/ /\ hpc[r] \notin {"idle", "returned", "gone"}
                               /\ hpc'[r] \notin {"idle", "returned", "gone"}
    BY <1>0, <1>4 DEF Lock, LoadCount, Choose, UseIdle, SpawnThread, UseLeastBusy, Loaded,
                      SendRequest, RunnerTypeOK
  <2>3. \A r \in Requests : Seen(r)' = Seen(r)
    BY <2>1, <2>2 DEF Seen
  <2> QED
    BY <2>1, <2>3 DEF Service!serviceVars, Seen
<1> QED
  BY <1>1, <1>2, <1>3, <1>4 DEF Handle

LEMMA ServiceShutdown ==
    ASSUME RunnerInv, Alive, Shutdown
    PROVE  Service!Close \/ Service!Stop \/ Service!Exit \/ UNCHANGED Service!serviceVars
<1>0. RunnerTypeOK /\ ToldToShutDown
  BY DEF RunnerInv
<1>1. UNCHANGED <<hpc, reply>>
  BY DEF Shutdown, CtrlC, BeginShutdown, TimeoutReached, Sleep, WakeUp, ShutdownClean,
         ShutdownForced, ServerExit
<1>2. CASE CtrlC
  BY <1>0, <1>1, <1>2 DEF CtrlC, ToldToShutDown, Service!Close
<1>3. CASE ShutdownClean \/ ShutdownForced
  BY <1>0, <1>1, <1>3 DEF ShutdownClean, ShutdownForced, ToldToShutDown, Service!Stop
<1>4. CASE ServerExit
  BY <1>0, <1>1, <1>4 DEF ServerExit, RunnerTypeOK, Service!Exit
<1>5. CASE BeginShutdown \/ TimeoutReached \/ Sleep \/ WakeUp
  BY <1>1, <1>5 DEF BeginShutdown, TimeoutReached, Sleep, WakeUp, Service!serviceVars
<1> QED
  BY <1>2, <1>3, <1>4, <1>5 DEF Shutdown

(* Clients of the multi-threaded server see the service of RequestService.  *)
THEOREM RunnerImplementsService == Spec => ImplementsService
<1>1. Init => Service!ServiceInit
  BY DEF Init, Service!ServiceInit
<1>2. ASSUME RunnerInv, [Next]_vars PROVE [Service!ServiceNext]_Service!serviceVars
  <2>1. ASSUME UNCHANGED runnerVars PROVE UNCHANGED Service!serviceVars
    BY <2>1 DEF runnerVars, Service!serviceVars
  <2>2. ASSUME NEW q \in Requests, Alive, Handle(q)
        PROVE  [Service!ServiceNext]_Service!serviceVars
    BY <1>2, <2>2, ServiceHandle DEF Service!ServiceNext
  <2>3. ASSUME Alive, Shutdown PROVE [Service!ServiceNext]_Service!serviceVars
    BY <1>2, <2>3, ServiceShutdown DEF Service!ServiceNext
  <2> QED
    BY <1>2, <2>1, <2>2, <2>3 DEF Next, Work, Ended, Spins, vars
<1> QED
  BY <1>1, <1>2, RunnerInvariant, PTL DEF Spec, ImplementsService, Service!ServiceSpec

=============================================================================

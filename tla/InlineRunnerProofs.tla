------------------------- MODULE InlineRunnerProofs -------------------------
(***************************************************************************)
(* Proofs about InlineRunner, for any requests, from what RequestLoopProofs *)
(* shows of the worker.                                                    *)
(***************************************************************************)
EXTENDS InlineRunner, RequestLoopProofs

(* How far the shutdown is, and what the worker was sent.                   *)
ShutdownProgress ==
    /\ spc = "idle" <=> sent[Worker] = {}
    /\ spc = "waiting" => sent[Worker] = {"Shutdown"}
    /\ sent[Worker] # {} => "Shutdown" \in sent[Worker]
    /\ server = "serving" <=> spc # "done"
    /\ phase[Worker] = "unborn" => spc = "idle"
    /\ phase[Worker] = "finished" => spc # "idle"

(* Shutdown splits a channel: what is in front of it is early, what is      *)
(* behind it is late.                                                       *)
SplitByShutdown(s, L) ==
    \A i, j \in 1..Len(s) :
        i < j => /\ s[i] = "Shutdown" => s[j] \in L \cup Control
                 /\ s[j] = "Shutdown" => s[i] \notin L

(* Shutdown is in the channel until the worker has taken it; from then on   *)
(* only late requests come.                                                 *)
EarlyBeforeLate ==
    /\ SplitByShutdown(chan[Worker], late)
    /\ sent[Worker] = {} => late = {}
    /\ "Shutdown" \in sent[Worker] /\ Open(Worker) =>
          shutdownRequested[Worker] \/ "Shutdown" \in Range(chan[Worker])
    /\ shutdownRequested[Worker] => /\ Queued(Worker) \subseteq late
                                    /\ "Shutdown" \notin Range(chan[Worker])
                                    /\ phase[Worker] \notin {"init", "failed"}

(* A late request reaches no handler; an early one is not turned away, and  *)
(* without Terminate it is not dropped.                                     *)
LateTurnedAway ==
    /\ \A r \in late : /\ resp[r] \in {"waiting", "lateError", "dropped"}
                       /\ r \notin requests[Worker]
    /\ \A r \in Requests \ late :
          /\ resp[r] # "lateError"
          /\ "Terminate" \notin sent[Worker] => resp[r] # "dropped"

InlineInv ==
    /\ LoopInv /\ HeldOnlyByLive /\ CutOffByTerminate
    /\ InlineTypeOK /\ ShutdownProgress /\ EarlyBeforeLate /\ LateTurnedAway

-----------------------------------------------------------------------------

LEMMA OneWorker == Worker \in Workers /\ Workers = {Worker}
BY InlineAssumption DEF Worker

LEMMA SplitEmpty == \A L : SplitByShutdown(<<>>, L)
<1>1. Len(<<>>) = 0
  OBVIOUS
<1> QED
  BY <1>1 DEF SplitByShutdown

LEMMA SplitTail ==
    ASSUME NEW s \in Seq(Requests \cup Control), s # <<>>, NEW L, SplitByShutdown(s, L)
    PROVE  /\ SplitByShutdown(Tail(s), L)
           /\ Head(s) = "Shutdown" => Requests \cap Range(Tail(s)) \subseteq L
           /\ Head(s) # "Shutdown" /\ "Shutdown" \in Range(s) =>
                 Head(s) \notin L /\ "Shutdown" \in Range(Tail(s))
<1>1. /\ Len(s) \in Nat /\ Len(s) > 0 /\ Len(Tail(s)) = Len(s) - 1
      /\ DOMAIN s = 1..Len(s) /\ DOMAIN Tail(s) = 1..(Len(s) - 1)
      /\ \A i \in 1..(Len(s) - 1) : Tail(s)[i] = s[i + 1]
      /\ Head(s) = s[1]
  OBVIOUS
<1>2. SplitByShutdown(Tail(s), L)
  BY <1>1 DEF SplitByShutdown
<1>3. ASSUME Head(s) = "Shutdown" PROVE Requests \cap Range(Tail(s)) \subseteq L
  <2>1. \A i \in 1..(Len(s) - 1) : Tail(s)[i] \in L \cup Control
    BY <1>1, <1>3 DEF SplitByShutdown
  <2> QED
    BY <1>1, <2>1, LoopAssumption DEF Range
<1>4. ASSUME Head(s) # "Shutdown", "Shutdown" \in Range(s)
      PROVE  Head(s) \notin L /\ "Shutdown" \in Range(Tail(s))
  <2>1. PICK j \in 1..Len(s) : s[j] = "Shutdown"
    BY <1>1, <1>4 DEF Range
  <2>2. 1 < j /\ j - 1 \in 1..(Len(s) - 1)
    BY <1>1, <1>4, <2>1
  <2>3. Tail(s)[j - 1] = "Shutdown"
    BY <1>1, <2>1, <2>2
  <2>4. Head(s) \notin L
    BY <1>1, <2>1, <2>2 DEF SplitByShutdown
  <2> QED
    BY <1>1, <2>2, <2>3, <2>4 DEF Range
<1> QED
  BY <1>2, <1>3, <1>4

LEMMA SplitAppend ==
    ASSUME NEW s \in Seq(Requests \cup Control), NEW m \in Requests \cup Control,
           NEW L, NEW M, SplitByShutdown(s, L),
           \/ m \in Requests /\ m \notin Range(s) /\ M = L \cup {m}
           \/ m \in Requests /\ "Shutdown" \notin Range(s) /\ M = L
           \/ m = "Shutdown" /\ L = {} /\ M = {}
           \/ m = "Terminate" /\ M = L
    PROVE  SplitByShutdown(Append(s, m), M)
<1>1. /\ Len(s) \in Nat /\ Len(Append(s, m)) = Len(s) + 1
      /\ \A i \in 1..Len(s) : Append(s, m)[i] = s[i]
      /\ Append(s, m)[Len(s) + 1] = m
  OBVIOUS
<1>2. SUFFICES ASSUME NEW i \in 1..(Len(s) + 1), NEW j \in 1..(Len(s) + 1), i < j
               PROVE  /\ Append(s, m)[i] = "Shutdown" => Append(s, m)[j] \in M \cup Control
                      /\ Append(s, m)[j] = "Shutdown" => Append(s, m)[i] \notin M
  BY <1>1 DEF SplitByShutdown
<1>3. i \in 1..Len(s) /\ Append(s, m)[i] = s[i] /\ s[i] \in Range(s)
  BY <1>1, <1>2 DEF Range
<1>4. L \subseteq M
  OBVIOUS
<1>5. CASE j \in 1..Len(s)
  <2>1. /\ s[i] = "Shutdown" => s[j] \in L \cup Control
        /\ s[j] = "Shutdown" => s[i] \notin L
        /\ Append(s, m)[j] = s[j]
    BY <1>1, <1>2, <1>3, <1>5 DEF SplitByShutdown
  <2>2. s[i] \in M => s[i] \in L
    BY <1>3
  <2> QED
    BY <1>3, <1>4, <2>1, <2>2
<1>6. CASE j = Len(s) + 1
  BY <1>1, <1>3, <1>6, LoopAssumption DEF Control
<1> QED
  BY <1>1, <1>5, <1>6

-----------------------------------------------------------------------------

LEMMA InlineInit == Init => InlineInv
<1> SUFFICES ASSUME Init PROVE InlineInv
  OBVIOUS
<1>1. LoopInit /\ LoopInv
  BY InitInv DEF Init
<1>2. HeldOnlyByLive /\ CutOffByTerminate
  BY <1>1 DEF LoopInit, HeldOnlyByLive, CutOffByTerminate, Open
<1>3. InlineTypeOK
  BY DEF Init, InlineTypeOK
<1>4. ShutdownProgress
  BY <1>1, OneWorker DEF Init, LoopInit, ShutdownProgress
<1>5. EarlyBeforeLate
  BY <1>1, OneWorker, SplitEmpty DEF Init, LoopInit, EarlyBeforeLate
<1>6. LateTurnedAway
  BY <1>1 DEF Init, LoopInit, LateTurnedAway
<1> QED
  BY <1>1, <1>2, <1>3, <1>4, <1>5, <1>6 DEF InlineInv

(* Every step of the runner is a step that RequestLoop allows.              *)
LEMMA InlineUsesLoop ==
    ASSUME InlineInv, [Next]_vars
    PROVE  [LoopNext]_loopVars
<1>0. ShutdownProgress /\ Worker \in Workers
  BY OneWorker DEF InlineInv
<1>1. CASE Start
  BY <1>0, <1>1 DEF Start, LoopNext, EnvStep
<1>2. ASSUME NEW r \in Requests, Handle(r) PROVE [LoopNext]_loopVars
  BY <1>0, <1>2 DEF Handle, HandleSend, HandleClosed, Return, ClientGone, LoopNext, EnvStep
<1>3. CASE CtrlC
  <2>1. {Worker} \in SUBSET Workers
        /\ \A w \in {Worker} : phase[w] # "unborn" /\ sent[w] = {}
    BY <1>0, <1>3 DEF CtrlC, ShutdownProgress, Open
  <2> QED
    BY <1>3, <2>1 DEF CtrlC, LoopNext, EnvStep
<1>4. CASE ShutdownForced
  <2>1. {Worker} \in SUBSET Workers /\ \A w \in {Worker} : sent[w] = {"Shutdown"}
    BY <1>0, <1>4 DEF ShutdownForced, ShutdownProgress
  <2> QED
    BY <1>4, <2>1 DEF ShutdownForced, LoopNext, EnvStep
<1>5. CASE TimeoutReached \/ ShutdownClean \/ Exit
  BY <1>5 DEF TimeoutReached, ShutdownClean, Exit
<1>6. CASE Work
  BY <1>0, <1>6 DEF Work, LoopNext
<1>7. CASE UNCHANGED vars
  BY <1>7 DEF vars
<1> QED
  BY <1>1, <1>2, <1>3, <1>4, <1>5, <1>6, <1>7 DEF Next, Shutdown, Ended, Spins

LEMMA InlineLoopStep ==
    ASSUME InlineInv, [Next]_vars
    PROVE  LoopInv' /\ HeldOnlyByLive' /\ CutOffByTerminate'
<1>1. [LoopNext]_loopVars /\ LoopInv /\ HeldOnlyByLive /\ CutOffByTerminate
  BY InlineUsesLoop DEF InlineInv
<1> QED
  BY <1>1, LoopNextInv, HeldNext, CutOffNext

(* Without a panic, the worker finishes only when it was told to.           *)
LEMMA FinishesWhenTold ==
    ASSUME InlineInv, Work, phase'[Worker] = "finished"
    PROVE  sent[Worker] # {}
<1>0. /\ LoopInv /\ TypeOK /\ ControlSent /\ HeldOnlyByLive /\ Worker \in Workers
      /\ WorkerStep(Worker)
  BY OneWorker DEF InlineInv, LoopInv, Work
<1>1. QuitsLoop(Worker)
  <2>1. Open(Worker)
    BY <1>0, WorkerFrame DEF OnlyConcerns
  <2> QED
    BY <1>0, <2>1, ChannelStep DEF LeavesChannel, TakesRequest, RecvShutdown, Open
<1>2. chan[Worker] # <<>> /\ Head(chan[Worker]) \in Control => sent[Worker] # {}
  <2>1. chan[Worker] \in Seq(Requests \cup Control)
    BY <1>0 DEF TypeOK
  <2>2. chan[Worker] # <<>> => Head(chan[Worker]) \in Range(chan[Worker])
    BY <2>1, TailFacts
  <2> QED
    BY <1>0, <2>2 DEF ControlSent
<1>3. ~Panic(Worker)
  BY InlineAssumption DEF Panic
<1>4. CASE LoopExit(Worker)
  BY <1>0, <1>4 DEF LoopExit, ExitReady, HeldOnlyByLive
<1>5. CASE FailedExit(Worker) \/ RecvTerminate(Worker)
  BY <1>2, <1>5 DEF FailedExit, RecvTerminate, Control
<1> QED
  BY <1>1, <1>3, <1>4, <1>5 DEF QuitsLoop

LEMMA ProgressStep ==
    ASSUME InlineInv, [Next]_vars
    PROVE  InlineTypeOK' /\ ShutdownProgress'
<1>0. InlineTypeOK /\ ShutdownProgress /\ LoopInv /\ TypeOK /\ Worker \in Workers
  BY OneWorker DEF InlineInv, LoopInv
<1>1. InlineTypeOK'
  <2>1. ASSUME NEW r \in Requests, Handle(r) PROVE InlineTypeOK'
    <3>1. Status(resp[r]) \in {"ok", "500", "503"}
      BY DEF Status
    <3> QED
      BY <1>0, <2>1, <3>1 DEF Handle, HandleSend, HandleClosed, Return, ClientGone, InlineTypeOK
  <2>2. CASE Shutdown
    BY <1>0, <2>2 DEF Shutdown, CtrlC, TimeoutReached, ShutdownClean, ShutdownForced, Exit,
                      InlineTypeOK
  <2>3. CASE UNCHANGED inlineVars
    BY <1>0, <2>3 DEF inlineVars, InlineTypeOK
  <2> QED
    BY <2>1, <2>2, <2>3 DEF Next, Start, Work, Ended, Spins, vars
<1>2. ShutdownProgress'
  <2>1. ASSUME NEW r \in Requests, Handle(r) PROVE ShutdownProgress'
    BY <1>0, <2>1 DEF Handle, HandleSend, Send, HandleClosed, Return, ClientGone, loopVars,
                      ShutdownProgress
  <2>2. CASE CtrlC
    BY <1>0, <2>2 DEF CtrlC, SendControl, Open, ShutdownProgress
  <2>3. CASE ShutdownForced
    BY <1>0, <2>3 DEF ShutdownForced, SendControl, ShutdownProgress
  <2>4. CASE TimeoutReached \/ ShutdownClean \/ Exit
    BY <1>0, <2>4 DEF TimeoutReached, ShutdownClean, Exit, loopVars, ShutdownProgress
  <2>5. CASE Work
    BY <1>0, <2>5, WorkerFrame, FinishesWhenTold
       DEF Work, OnlyConcerns, inlineVars, ShutdownProgress
  <2>6. CASE Start
    BY <1>0, <2>6 DEF Start, Spawn, inlineVars, TypeOK, ShutdownProgress
  <2>7. CASE UNCHANGED vars
    BY <1>0, <2>7 DEF vars, loopVars, inlineVars, ShutdownProgress
  <2> QED
    BY <2>1, <2>2, <2>3, <2>4, <2>5, <2>6, <2>7 DEF Next, Shutdown, Ended, Spins
<1> QED
  BY <1>1, <1>2

-----------------------------------------------------------------------------
(* A step of the worker.                                                    *)
LEMMA EarlyWorkerStep ==
    ASSUME InlineInv, Work
    PROVE  EarlyBeforeLate' /\ LateTurnedAway'
<1> DEFINE s == chan[Worker]
<1>0. /\ LoopInv /\ TypeOK /\ SenderUsedOnce /\ ControlSent /\ HeldOnlyByLive
      /\ InlineTypeOK /\ ShutdownProgress /\ EarlyBeforeLate /\ LateTurnedAway
      /\ Worker \in Workers
  BY OneWorker DEF InlineInv, LoopInv
<1>1. UNCHANGED <<late, sent>> /\ Open(Worker) /\ WorkerStep(Worker)
  BY <1>0, WorkerFrame DEF Work, OnlyConcerns, inlineVars
<1>2. s \in Seq(Requests \cup Control) /\ IsInjective(s) /\ late \subseteq Requests
  BY <1>0 DEF TypeOK, SenderUsedOnce, InlineTypeOK
<1>3. CASE LeavesChannel(Worker)
  <2>1. EarlyBeforeLate'
    <3>1. UNCHANGED <<chan, sent, late, shutdownRequested>>
      BY <1>1, <1>3 DEF LeavesChannel
    <3>2. phase[Worker] \in {"init", "select", "drain", "stuck", "failed"}
      BY <1>0, <1>1 DEF TypeOK, Phases, Open
    <3>3. shutdownRequested[Worker] => phase'[Worker] \in {"select", "drain", "stuck"}
      BY <1>0, <1>3, <3>2 DEF LeavesChannel, EarlyBeforeLate
    <3> QED
      BY <1>0, <1>1, <3>1, <3>3 DEF EarlyBeforeLate, Queued
  <2>2. LateTurnedAway'
    BY <1>0, <1>1, <1>2, <1>3 DEF LeavesChannel, LateTurnedAway
  <2> QED
    BY <2>1, <2>2
<1>4. CASE TakesRequest(Worker)
  <2>1. /\ s # <<>> /\ Head(s) \in Requests /\ chan'[Worker] = Tail(s)
        /\ UNCHANGED <<phase, shutdownRequested>>
        /\ Head(s) \in Queued(Worker)
        /\ Range(Tail(s)) \subseteq Range(s)
        /\ Head(s) # "Shutdown"
    BY <1>0, <1>2, <1>4, TailFacts, LoopAssumption DEF TakesRequest, TypeOK, Queued, Control
  <2>2. /\ SplitByShutdown(Tail(s), late)
        /\ "Shutdown" \in Range(s) => Head(s) \notin late /\ "Shutdown" \in Range(Tail(s))
    BY <1>0, <1>2, <2>1, SplitTail DEF EarlyBeforeLate
  <2>3. EarlyBeforeLate'
    <3>1. SplitByShutdown(chan[Worker], late)'
      BY <1>1, <2>1, <2>2
    <3>2. sent'[Worker] = {} => late' = {}
      BY <1>0, <1>1 DEF EarlyBeforeLate
    <3>3. "Shutdown" \in sent'[Worker] =>
              shutdownRequested'[Worker] \/ "Shutdown" \in Range(chan'[Worker])
      BY <1>0, <1>1, <2>1, <2>2 DEF EarlyBeforeLate
    <3>4. shutdownRequested'[Worker] => /\ Requests \cap Range(chan'[Worker]) \subseteq late'
                                        /\ "Shutdown" \notin Range(chan'[Worker])
                                        /\ phase'[Worker] \notin {"init", "failed"}
      BY <1>0, <1>1, <2>1 DEF EarlyBeforeLate, Queued
    <3> QED
      BY <3>1, <3>2, <3>3, <3>4 DEF EarlyBeforeLate, Queued
  <2>4. CASE shutdownRequested[Worker] /\ phase[Worker] = "select"
    <3>1. Head(s) \in late
      BY <1>0, <2>1, <2>4 DEF EarlyBeforeLate
    <3>2. UNCHANGED requests /\ resp'[Head(s)] = "lateError"
      BY <1>4, <2>4 DEF TakesRequest
    <3>3. \A r \in Requests : r # Head(s) => resp'[r] = resp[r]
      BY <1>4 DEF TakesRequest
    <3>4. LateTurnedAway'
      BY <1>0, <1>1, <1>2, <3>1, <3>2, <3>3 DEF LateTurnedAway
    <3> QED
      BY <2>3, <3>4
  <2>5. CASE ~shutdownRequested[Worker] \/ phase[Worker] = "failed"
    <3>1. ~shutdownRequested[Worker]
      BY <1>0, <2>5 DEF EarlyBeforeLate
    <3>2. Head(s) \notin late
      BY <1>0, <1>1, <2>2, <3>1 DEF EarlyBeforeLate, ShutdownProgress
    <3>3. /\ requests'[Worker] \subseteq requests[Worker] \cup {Head(s)}
          /\ resp'[Head(s)] \notin {"lateError", "dropped"}
      BY <1>4, <3>1 DEF TakesRequest
    <3>4. \A r \in Requests : r # Head(s) => resp'[r] = resp[r]
      BY <1>4 DEF TakesRequest
    <3>5. LateTurnedAway'
      BY <1>0, <1>1, <1>2, <3>2, <3>3, <3>4 DEF LateTurnedAway
    <3> QED
      BY <2>3, <3>5
  <2> QED
    BY <1>4, <2>4, <2>5 DEF TakesRequest
<1>5. CASE RecvShutdown(Worker)
  <2>1. /\ s # <<>> /\ Head(s) = "Shutdown" /\ chan'[Worker] = Tail(s)
        /\ UNCHANGED <<phase, requests, resp>> /\ phase[Worker] = "select"
        /\ shutdownRequested'[Worker] = TRUE
    BY <1>0, <1>5 DEF RecvShutdown, Selecting, TypeOK
  <2>2. /\ SplitByShutdown(Tail(s), late)
        /\ Requests \cap Range(Tail(s)) \subseteq late
    BY <1>0, <1>2, <2>1, SplitTail DEF EarlyBeforeLate
  <2>3. "Shutdown" \notin Range(Tail(s))
    BY <1>2, <2>1, TailFacts
  <2>4. sent'[Worker] = {} => late' = {}
    BY <1>0, <1>1 DEF EarlyBeforeLate
  <2>5. EarlyBeforeLate'
    BY <1>1, <2>1, <2>2, <2>3, <2>4 DEF EarlyBeforeLate, Queued
  <2>6. LateTurnedAway'
    BY <1>0, <1>1, <2>1 DEF LateTurnedAway
  <2> QED
    BY <2>5, <2>6
<1>6. CASE QuitsLoop(Worker)
  <2>1. PICK cancel \in {"dropped", "shuttingDown"} : Quit(Worker, cancel)
    BY <1>6 DEF QuitsLoop, LoopExit, FailedExit, RecvTerminate, Panic
  <2>2. /\ chan'[Worker] = <<>> /\ phase'[Worker] = "finished" /\ requests'[Worker] = {}
        /\ UNCHANGED shutdownRequested
        /\ \A r \in Requests : resp'[r] = IF r \in requests[Worker] THEN cancel
                                          ELSE IF r \in Queued(Worker) THEN "dropped"
                                          ELSE resp[r]
    BY <1>0, <2>1 DEF Quit, TypeOK
  <2>3. EarlyBeforeLate'
    BY <1>0, <1>1, <2>2, SplitEmpty, EmptyFacts DEF EarlyBeforeLate, Open, Queued
  <2>4. ASSUME "Terminate" \notin sent[Worker]
        PROVE  requests[Worker] = {} /\ Queued(Worker) \subseteq late
    <3>1. ~RecvTerminate(Worker) /\ ~Panic(Worker)
      <4>1. RecvTerminate(Worker) => s # <<>> /\ Head(s) = "Terminate"
        BY DEF RecvTerminate
      <4>2. s # <<>> => Head(s) \in Range(s)
        BY <1>2, TailFacts
      <4> QED
        BY <1>0, <2>4, <4>1, <4>2, InlineAssumption DEF ControlSent, Control, Panic
    <3>2. CASE LoopExit(Worker)
      BY <1>0, <3>2 DEF LoopExit, ExitReady, QueueEmpty, EarlyBeforeLate
    <3>3. CASE FailedExit(Worker)
      <4>1. /\ s # <<>> /\ Head(s) \in Control /\ Head(s) \in Range(s)
            /\ phase[Worker] = "failed"
        BY <1>2, <3>3, TailFacts DEF FailedExit
      <4>2. Head(s) = "Shutdown"
        BY <1>0, <2>4, <4>1 DEF ControlSent, Control
      <4>3. Requests \cap Range(Tail(s)) \subseteq late
        BY <1>0, <1>2, <4>1, <4>2, SplitTail DEF EarlyBeforeLate
      <4>4. Range(s) = {Head(s)} \cup Range(Tail(s))
        BY <1>2, <4>1, TailFacts
      <4>5. requests[Worker] = {}
        BY <1>0, <4>1 DEF HeldOnlyByLive
      <4> QED
        BY <4>2, <4>3, <4>4, <4>5, LoopAssumption DEF Queued, Control
    <3> QED
      BY <1>6, <3>1, <3>2, <3>3 DEF QuitsLoop
  <2>5. LateTurnedAway'
    <3>1. \A r \in late : resp'[r] \in {"waiting", "lateError", "dropped"}
      BY <1>0, <1>2, <2>2 DEF LateTurnedAway
    <3>2. \A r \in Requests \ late :
              /\ resp'[r] # "lateError"
              /\ "Terminate" \notin sent[Worker] => resp'[r] # "dropped"
      BY <1>0, <2>2, <2>4 DEF LateTurnedAway
    <3> QED
      BY <1>1, <2>2, <3>1, <3>2 DEF LateTurnedAway
  <2> QED
    BY <2>3, <2>5
<1> QED
  BY <1>0, <1>1, <1>3, <1>4, <1>5, <1>6, ChannelStep

(* A step of handle or of shutdown.                                         *)
LEMMA EarlyStep ==
    ASSUME InlineInv, [Next]_vars
    PROVE  EarlyBeforeLate' /\ LateTurnedAway'
<1> DEFINE s == chan[Worker]
<1>0. /\ LoopInv /\ TypeOK /\ SenderUsedOnce /\ ControlSent /\ HeldOnlyByLive
      /\ InlineTypeOK /\ ShutdownProgress /\ EarlyBeforeLate /\ LateTurnedAway
      /\ Worker \in Workers
  BY OneWorker DEF InlineInv, LoopInv
<1>1. s \in Seq(Requests \cup Control) /\ late \subseteq Requests
  BY <1>0 DEF TypeOK, InlineTypeOK
<1>2. ASSUME NEW r \in Requests, HandleSend(r) PROVE EarlyBeforeLate' /\ LateTurnedAway'
  <2>1. /\ chan'[Worker] = Append(s, r) /\ resp[r] = "unsent" /\ Open(Worker)
        /\ UNCHANGED <<phase, sent, shutdownRequested, requests>>
        /\ resp' = [resp EXCEPT ![r] = "waiting"]
    BY <1>0, <1>2 DEF HandleSend, Send, TypeOK
  <2>2. r \notin late /\ r \notin Range(s) /\ r \notin requests[Worker]
    BY <1>0, <2>1 DEF LateTurnedAway, SenderUsedOnce, Queued
  <2>3. Range(Append(s, r)) = Range(s) \cup {r}
    BY <1>1, AppendFacts
  <2>4. \A q \in Requests : resp'[q] = IF q = r THEN "waiting" ELSE resp[q]
    BY <1>0, <2>1 DEF TypeOK
  <2>5. r # "Shutdown"
    BY LoopAssumption DEF Control
  <2>6. CASE "Shutdown" \in sent[Worker]
    <3>1. late' = late \cup {r}
      BY <1>2, <2>6 DEF HandleSend
    <3>2. SplitByShutdown(Append(s, r), late \cup {r})
      BY <1>0, <1>1, <2>2, SplitAppend DEF EarlyBeforeLate
    <3>3. EarlyBeforeLate'
      BY <1>0, <2>1, <2>3, <2>5, <2>6, <3>1, <3>2 DEF EarlyBeforeLate, Open, Queued
    <3>4. LateTurnedAway'
      BY <1>0, <1>1, <2>1, <2>2, <2>4, <3>1 DEF LateTurnedAway
    <3> QED
      BY <3>3, <3>4
  <2>7. CASE "Shutdown" \notin sent[Worker]
    <3>1. late' = late /\ late = {}
      BY <1>0, <1>2, <2>7 DEF HandleSend, ShutdownProgress, EarlyBeforeLate
    <3>2. "Shutdown" \notin Range(s) /\ ~shutdownRequested[Worker]
      BY <1>0, <2>7 DEF ControlSent, HeldOnlyByLive, Control
    <3>3. SplitByShutdown(Append(s, r), late)
      BY <1>0, <1>1, <3>2, SplitAppend DEF EarlyBeforeLate
    <3>4. EarlyBeforeLate'
      BY <2>1, <2>7, <3>1, <3>2, <3>3 DEF EarlyBeforeLate
    <3>5. LateTurnedAway'
      BY <1>0, <2>1, <2>4, <3>1 DEF LateTurnedAway
    <3> QED
      BY <3>4, <3>5
  <2> QED
    BY <2>6, <2>7
<1>3. CASE CtrlC
  <2>1. /\ chan'[Worker] = Append(s, "Shutdown") /\ sent'[Worker] = {"Shutdown"}
        /\ sent[Worker] = {} /\ late = {}
        /\ UNCHANGED <<phase, shutdownRequested, requests, resp, late>>
    BY <1>0, <1>3 DEF CtrlC, SendControl, ShutdownProgress, EarlyBeforeLate
  <2>2. ~shutdownRequested[Worker]
    BY <1>0, <2>1 DEF HeldOnlyByLive
  <2>3. SplitByShutdown(Append(s, "Shutdown"), {})
    BY <1>0, <1>1, <2>1, SplitAppend DEF EarlyBeforeLate, Control
  <2>4. "Shutdown" \in Range(Append(s, "Shutdown"))
    BY <1>1, AppendFacts DEF Control
  <2>5. EarlyBeforeLate'
    BY <2>1, <2>2, <2>3, <2>4 DEF EarlyBeforeLate
  <2>6. LateTurnedAway'
    BY <1>0, <2>1 DEF LateTurnedAway
  <2> QED
    BY <2>5, <2>6
<1>4. CASE ShutdownForced
  <2>1. /\ chan'[Worker] \in {s, Append(s, "Terminate")}
        /\ sent'[Worker] = sent[Worker] \cup {"Terminate"} /\ sent[Worker] = {"Shutdown"}
        /\ UNCHANGED <<phase, shutdownRequested, requests, resp, late>>
    BY <1>0, <1>4 DEF ShutdownForced, SendControl, ShutdownProgress
  <2>2. SplitByShutdown(chan'[Worker], late)
    BY <1>0, <1>1, <2>1, SplitAppend DEF EarlyBeforeLate, Control
  <2>3. Range(chan'[Worker]) \in {Range(s), Range(s) \cup {"Terminate"}}
    <3>1. Range(Append(s, "Terminate")) = Range(s) \cup {"Terminate"}
      BY <1>1, AppendFacts DEF Control
    <3> QED
      BY <2>1, <3>1
  <2>4. EarlyBeforeLate'
    BY <1>0, <2>1, <2>2, <2>3, LoopAssumption DEF EarlyBeforeLate, Open, Queued, Control
  <2>5. LateTurnedAway'
    BY <1>0, <2>1 DEF LateTurnedAway
  <2> QED
    BY <2>4, <2>5
<1>5. ASSUME UNCHANGED <<loopVars, late>> PROVE EarlyBeforeLate' /\ LateTurnedAway'
  BY <1>0, <1>5 DEF loopVars, EarlyBeforeLate, LateTurnedAway, Open, Queued
<1>6. CASE Start
  <2>1. /\ phase[Worker] = "unborn" /\ sent[Worker] = {}
        /\ UNCHANGED <<chan, sent, shutdownRequested, requests, resp, late>>
    BY <1>0, <1>6 DEF Start, Spawn, inlineVars, ShutdownProgress
  <2>2. ~shutdownRequested[Worker]
    BY <1>0, <2>1 DEF HeldOnlyByLive
  <2> QED
    BY <1>0, <2>1, <2>2 DEF EarlyBeforeLate, LateTurnedAway, Queued
<1>7. ASSUME NEW r \in Requests, Handle(r) PROVE EarlyBeforeLate' /\ LateTurnedAway'
  BY <1>2, <1>5, <1>7 DEF Handle, HandleClosed, Return, ClientGone
<1>8. CASE TimeoutReached \/ ShutdownClean \/ Exit
  BY <1>5, <1>8 DEF TimeoutReached, ShutdownClean, Exit
<1>9. CASE Work
  BY <1>9, EarlyWorkerStep
<1>10. CASE UNCHANGED vars
  BY <1>5, <1>10 DEF vars, inlineVars
<1> QED
  BY <1>3, <1>4, <1>6, <1>7, <1>8, <1>9, <1>10 DEF Next, Shutdown, Ended, Spins

(* The runner and its worker keep the inductive invariant.                  *)
THEOREM InlineInvariant == Spec => []InlineInv
<1>1. InlineInv /\ [Next]_vars => InlineInv'
  BY InlineLoopStep, ProgressStep, EarlyStep DEF InlineInv
<1> QED
  BY <1>1, InlineInit, PTL DEF Spec

(* InlineRunner uses its worker as RequestLoop allows: all that is proved   *)
(* of LoopSpec holds of the worker behind the runner.                       *)
THEOREM InlineUsesLoopProperly == Spec => LoopSpec
<1>1. Init => LoopInit
  BY DEF Init
<1>2. InlineInv /\ [Next]_vars => [LoopNext]_loopVars
  BY InlineUsesLoop
<1> QED
  BY <1>1, <1>2, InlineInvariant, PTL DEF Spec, LoopSpec

(* A shutdown that never sent Terminate served every request sent before    *)
(* ctrl-c, and ran user code for none that was sent behind it.              *)
THEOREM InlineCleanShutdown == Spec => []CleanShutdownServesEarly
<1>1. ASSUME InlineInv PROVE CleanShutdownServesEarly
  <2>0. /\ NoLostRequest /\ HeldOnlyByLive /\ CutOffByTerminate /\ LateTurnedAway
        /\ InlineTypeOK /\ Workers = {Worker}
    BY <1>1, OneWorker DEF InlineInv, LoopInv
  <2>1. ASSUME phase[Worker] = "finished", NEW r \in Requests PROVE resp[r] # "waiting"
    <3>1. requests[Worker] = {} /\ chan[Worker] = <<>>
      BY <2>0, <2>1 DEF HeldOnlyByLive, Open
    <3>2. Queued(Worker) = {}
      BY <3>1, EmptyFacts DEF Queued
    <3> QED
      BY <2>0, <3>1, <3>2 DEF NoLostRequest
  <2>2. ASSUME "Terminate" \notin sent[Worker]
        PROVE  truncated = {} /\ \A r \in Requests : resp[r] # "shuttingDown"
    BY <2>0, <2>2, InlineAssumption DEF CutOffByTerminate
  <2> QED
    BY <2>0, <2>1, <2>2 DEF LateTurnedAway, CleanShutdownServesEarly
<1> QED
  BY <1>1, InlineInvariant, PTL

-----------------------------------------------------------------------------
(* InlineRunner implements RequestService.                                  *)

Seen(r) == CASE hpc[r] = "awaiting" -> "waiting"
             [] hpc[r] = "returned" -> reply[r]
             [] OTHER -> hpc[r]

Stage == CASE server = "exited" -> "exited"
           [] server = "stopping" -> "stopped"
           [] OTHER -> IF spc = "idle" THEN "open" ELSE "closing"

(* A step that moves one client is a step of the service's client array.    *)
LEMMA OneClient ==
    ASSUME NEW q \in Requests, NEW c, Seen(q)' = c,
           \A r \in Requests : r # q => Seen(r)' = Seen(r)
    PROVE  [r \in Requests |-> Seen(r)]' = [[r \in Requests |-> Seen(r)] EXCEPT ![q] = c]
OBVIOUS

LEMMA ServiceHandle ==
    ASSUME InlineInv, Alive, NEW q \in Requests, Handle(q)
    PROVE  \/ Service!Accept(q) \/ Service!Answer(q) \/ Service!Reject(q)
           \/ Service!Disconnect(q)
<1>0. /\ InlineTypeOK /\ ShutdownProgress /\ CutOffByTerminate /\ Workers = {Worker}
      /\ EarlyBeforeLate
  BY OneWorker DEF InlineInv
<1>1. Stage # "exited" /\ Stage' = Stage
  BY DEF Alive, Stage, Handle, HandleSend, HandleClosed, Return, ClientGone
<1>2. \A r \in Requests : r # q => Seen(r)' = Seen(r)
  BY <1>0 DEF Handle, HandleSend, HandleClosed, Return, ClientGone, Seen, InlineTypeOK
<1>3. CASE HandleSend(q)
  <2>1. Seen(q) = "idle" /\ Seen(q)' = "waiting" /\ Stage \in {"open", "closing"}
    BY <1>0, <1>3 DEF HandleSend, Seen, Stage, InlineTypeOK
  <2>2. [r \in Requests |-> Seen(r)]' = [[r \in Requests |-> Seen(r)] EXCEPT ![q] = "waiting"]
    BY <1>2, <2>1, OneClient
  <2> QED
    BY <1>1, <2>1, <2>2 DEF Service!Accept, Service!Become, Seen, Stage
<1>4. CASE HandleClosed(q)
  <2>1. Seen(q) = "idle" /\ Seen(q)' = "500" /\ Stage = "closing"
    BY <1>0, <1>4 DEF HandleClosed, Seen, Stage, InlineTypeOK, ShutdownProgress
  <2>2. [r \in Requests |-> Seen(r)]' = [[r \in Requests |-> Seen(r)] EXCEPT ![q] = "500"]
    BY <1>2, <2>1, OneClient
  <2> QED
    BY <1>1, <2>1, <2>2 DEF Service!Reject, Service!Become, Seen, Stage
<1>5. CASE Return(q)
  <2>1. PICK c \in {"ok", "500", "503"} :
            /\ c = Status(resp[q])
            /\ c = "503" => resp[q] = "shuttingDown"
    BY DEF Status
  <2>2. Seen(q) = "waiting" /\ Seen(q)' = c
    BY <1>0, <1>5, <2>1 DEF Return, Seen, InlineTypeOK
  <2>3. ASSUME c = "503" PROVE Stage # "open"
    <3>1. "Terminate" \in sent[Worker]
      BY <1>0, <2>1, <2>3 DEF CutOffByTerminate
    <3>2. spc = "done"
      BY <1>0, <3>1 DEF ShutdownProgress, InlineTypeOK
    <3> QED
      BY <1>0, <3>2 DEF ShutdownProgress, InlineTypeOK, Stage
  <2>4. [r \in Requests |-> Seen(r)]' = [[r \in Requests |-> Seen(r)] EXCEPT ![q] = c]
    BY <1>2, <2>2, OneClient
  <2> QED
    BY <1>1, <2>2, <2>3, <2>4 DEF Service!Answer, Service!Become, Seen, Stage
<1>6. CASE ClientGone(q)
  <2>1. Seen(q) = "waiting" /\ Seen(q)' = "gone"
    BY <1>0, <1>6 DEF ClientGone, Seen, InlineTypeOK
  <2>2. [r \in Requests |-> Seen(r)]' = [[r \in Requests |-> Seen(r)] EXCEPT ![q] = "gone"]
    BY <1>2, <2>1, OneClient
  <2> QED
    BY <1>1, <2>1, <2>2 DEF Service!Disconnect, Service!Become, Seen, Stage
<1> QED
  BY <1>3, <1>4, <1>5, <1>6 DEF Handle

LEMMA ServiceShutdown ==
    ASSUME InlineInv, Alive, Shutdown
    PROVE  Service!Close \/ Service!Stop \/ Service!Exit \/ UNCHANGED Service!serviceVars
<1>0. InlineTypeOK /\ ShutdownProgress
  BY DEF InlineInv
<1>1. UNCHANGED <<hpc, reply>>
  BY DEF Shutdown, CtrlC, TimeoutReached, ShutdownClean, ShutdownForced, Exit
<1>2. CASE CtrlC
  BY <1>0, <1>1, <1>2 DEF CtrlC, ShutdownProgress, Service!Close
<1>3. CASE ShutdownClean \/ ShutdownForced
  BY <1>0, <1>1, <1>3 DEF ShutdownClean, ShutdownForced, ShutdownProgress, Service!Stop
<1>4. CASE Exit
  BY <1>0, <1>1, <1>4 DEF Exit, InlineTypeOK, Service!Exit
<1>5. CASE TimeoutReached
  BY <1>1, <1>5 DEF TimeoutReached, Service!serviceVars
<1> QED
  BY <1>2, <1>3, <1>4, <1>5 DEF Shutdown

(* Clients of the single-threaded server see the service of RequestService. *)
THEOREM InlineImplementsService == Spec => ImplementsService
<1>1. Init => Service!ServiceInit
  BY DEF Init, Service!ServiceInit
<1>2. ASSUME InlineInv, [Next]_vars PROVE [Service!ServiceNext]_Service!serviceVars
  <2>1. ASSUME UNCHANGED inlineVars PROVE UNCHANGED Service!serviceVars
    BY <2>1 DEF inlineVars, Service!serviceVars
  <2>2. ASSUME NEW q \in Requests, Alive, Handle(q)
        PROVE  [Service!ServiceNext]_Service!serviceVars
    BY <1>2, <2>2, ServiceHandle DEF Service!ServiceNext
  <2>3. ASSUME Alive, Shutdown PROVE [Service!ServiceNext]_Service!serviceVars
    BY <1>2, <2>3, ServiceShutdown DEF Service!ServiceNext
  <2> QED
    BY <1>2, <2>1, <2>2, <2>3 DEF Next, Start, Work, Ended, Spins, vars
<1> QED
  BY <1>1, <1>2, InlineInvariant, PTL DEF Spec, ImplementsService, Service!ServiceSpec

=============================================================================

---------------------------- MODULE RequestLoop ----------------------------
(***************************************************************************)
(* The worker of the WinterJS server: handle_requests, the RequestQueue it *)
(* keeps and the EventLoopStream it polls                                  *)
(* (src/runners/request_loop.rs, request_queue.rs, event_loop_stream.rs).  *)
(*                                                                         *)
(* A worker is a thread (or, inline, a future) that owns one JavaScript    *)
(* runtime.  It reads control messages from an unbounded FIFO channel,     *)
(* starts a request by calling the user's handler, keeps the promise the   *)
(* handler returned, and answers over the oneshot sender that came with    *)
(* the request.  The module is open: who spawns workers and what is sent   *)
(* to them is left to its environment (the Env actions), which the runners *)
(* restrict.                                                               *)
(*                                                                         *)
(* User code is nondeterminism: whether the script initialises, what a     *)
(* handler returns, which promises an event loop step settles, how long a  *)
(* response body streams, and whether a call into it returns at all: the   *)
(* engine has no interrupt, so JavaScript that loops keeps its thread.     *)
(***************************************************************************)
EXTENDS Naturals, Sequences, FiniteSets, Functions

CONSTANTS
    Workers,       \* worker threads, each with its channel and JS runtime
    Requests,      \* HTTP requests, i.e. calls of Runner::handle
    NoWorker,      \* home of a request that was sent to no worker
    UserCode,      \* what the user's code does: a subset of Behaviours
    MayPanic       \* may a worker thread panic?

Control == {"Shutdown", "Terminate"}

Behaviours == {"failsInit",    \* the script throws, or rejects, at start
               "throws",       \* a handler throws
               "promises",     \* a handler returns a promise
               "streams",      \* a response body is a JavaScript stream
               "errors",       \* step_event_loop returns an unhandled error
               "hangs"}        \* a synchronous stretch of JavaScript never returns

ASSUME LoopAssumption ==
    /\ NoWorker \notin Workers
    /\ Requests \cap Control = {}
    /\ UserCode \subseteq Behaviours
    /\ MayPanic \in BOOLEAN

VARIABLES
    phase,              \* where handle_requests is
    chan,               \* the mpsc channel: Seq of requests and control messages
    sent,               \* control messages sent so far (ctrl-c is handled once)
    shutdownRequested,
    loopBusy,           \* ~rt.event_loop_is_empty()
    requests,           \* RequestQueue.requests
    continuations,      \* RequestQueue.continuations: bodies still streaming
    error,              \* the init error has not been reported yet
    promise,            \* the promise of a queued request, as its PromiseFuture sees it
    resp,               \* the oneshot channel of the request
    home,               \* the worker the request was sent to
    truncated           \* requests whose body future was dropped unfinished

loopVars == <<phase, chan, sent, shutdownRequested, loopBusy, requests,
              continuations, error, promise, resp, home, truncated>>

Phases == {"unborn",    \* no such thread yet
           "init",      \* evaluate_scripts, then run_event_loop
           "select",    \* the loop around select!
           "drain",     \* inside cancel_unfinished(Unresolvable)
           "failed",    \* the error loop of handle_requests
           "stuck",     \* inside JavaScript that never returns
           "finished"}  \* handle_requests returned: the channel is closed

Settled == {"fulfilled", "rejected"}
Promises == {"none", "pending"} \cup Settled

(* What the oneshot receiver gets.  "done", "requestError" and the          *)
(* "scriptError"s are the variants of ResponseData; "scriptErrorNone" is    *)
(* ScriptError(None) and "lateError" the ScriptError sent after a shutdown  *)
(* request; "unresolvable" and "shuttingDown" are the 500 and the 503 that  *)
(* request_cancelled builds; "dropped" is a sender dropped without use.     *)
Answers == {"done", "requestError", "scriptError", "scriptErrorNone",
            "lateError", "unresolvable", "shuttingDown", "dropped"}

(* ResponseData, or the RecvError of a dropped sender, as the client sees   *)
(* it: an Err becomes a 500 in server::handle.                              *)
Status(answer) ==
    CASE answer = "done" -> "ok"
      [] answer = "shuttingDown" -> "503"
      [] OTHER -> "500"

TypeOK ==
    /\ phase \in [Workers -> Phases]
    /\ chan \in [Workers -> Seq(Requests \cup Control)]
    /\ sent \in [Workers -> SUBSET Control]
    /\ shutdownRequested \in [Workers -> BOOLEAN]
    /\ loopBusy \in [Workers -> BOOLEAN]
    /\ requests \in [Workers -> SUBSET Requests]
    /\ continuations \in [Workers -> SUBSET Requests]
    /\ error \in [Workers -> BOOLEAN]
    /\ promise \in [Requests -> Promises]
    /\ resp \in [Requests -> Answers \cup {"unsent", "waiting"}]
    /\ home \in [Requests -> Workers \cup {NoWorker}]
    /\ truncated \in SUBSET Requests

LoopInit ==
    /\ phase = [w \in Workers |-> "unborn"]
    /\ chan = [w \in Workers |-> <<>>]
    /\ sent = [w \in Workers |-> {}]
    /\ shutdownRequested = [w \in Workers |-> FALSE]
    /\ loopBusy = [w \in Workers |-> FALSE]
    /\ requests = [w \in Workers |-> {}]
    /\ continuations = [w \in Workers |-> {}]
    /\ error = [w \in Workers |-> FALSE]
    /\ promise = [r \in Requests |-> "none"]
    /\ resp = [r \in Requests |-> "unsent"]
    /\ home = [r \in Requests |-> NoWorker]
    /\ truncated = {}

(* The requests waiting in w's channel.                                     *)
Queued(w) == Requests \cap Range(chan[w])

(* The body future of a response, if it has one.                            *)
Bodies(r) == IF "streams" \in UserCode THEN {{}, {r}} ELSE {{}}

(* The receiver exists: a send to the channel succeeds.                     *)
Open(w) == phase[w] \notin {"unborn", "finished"}

-----------------------------------------------------------------------------
(* The environment: the runner's side of the channel.                       *)

(* SingleRunner::spawn_thread, InlineRunner::new_request_handler.           *)
Spawn(w) ==
    /\ phase[w] = "unborn"
    /\ phase' = [phase EXCEPT ![w] = "init"]
    /\ UNCHANGED <<chan, sent, shutdownRequested, loopBusy, requests,
                   continuations, error, promise, resp, home, truncated>>

(* channel.send(HandleRequest(data, tx)) with a fresh oneshot pair.         *)
Send(w, r) ==
    /\ Open(w)
    /\ resp[r] = "unsent"
    /\ chan' = [chan EXCEPT ![w] = Append(@, r)]
    /\ resp' = [resp EXCEPT ![r] = "waiting"]
    /\ home' = [home EXCEPT ![r] = w]
    /\ UNCHANGED <<phase, sent, shutdownRequested, loopBusy, requests,
                   continuations, error, promise, truncated>>

(* channel.send(Shutdown | Terminate), to every worker of W that is open.   *)
SendControl(W, m) ==
    /\ chan' = [w \in Workers |-> IF w \in W /\ Open(w) THEN Append(chan[w], m)
                                                        ELSE chan[w]]
    /\ sent' = [w \in Workers |-> IF w \in W THEN sent[w] \cup {m} ELSE sent[w]]
    /\ UNCHANGED <<phase, shutdownRequested, loopBusy, requests,
                   continuations, error, promise, resp, home, truncated>>

-----------------------------------------------------------------------------
(* RequestQueue and the end of handle_requests.                             *)

(* Everything w owns is dropped: the channel with the senders in it, and    *)
(* the body futures; the queued promises are answered with `cancel' first.  *)
Quit(w, cancel) ==
    /\ phase' = [phase EXCEPT ![w] = "finished"]
    /\ chan' = [chan EXCEPT ![w] = <<>>]
    /\ resp' = [r \in Requests |-> IF r \in requests[w] THEN cancel
                                   ELSE IF r \in Queued(w) THEN "dropped"
                                   ELSE resp[r]]
    /\ requests' = [requests EXCEPT ![w] = {}]
    /\ promise' = [r \in Requests |-> IF r \in requests[w] THEN "none"
                                                           ELSE promise[r]]
    /\ continuations' = [continuations EXCEPT ![w] = {}]
    /\ truncated' = truncated \cup continuations[w]
    /\ loopBusy' = [loopBusy EXCEPT ![w] = FALSE]
    /\ UNCHANGED <<sent, shutdownRequested, error, home>>

(* Mutant of QueueEmpty: is_empty forgets the body futures.                 *)
QueueEmptyNoBodies(w) == requests[w] = {}

(* request_queue.is_empty()                                                 *)
QueueEmpty(w) == requests[w] = {} /\ continuations[w] = {}

(* The test at the head of the loop, made after every completed select!.    *)
ExitReady(w) == shutdownRequested[w] /\ ~loopBusy[w] /\ QueueEmpty(w)

Selecting(w) == phase[w] = "select" /\ ~ExitReady(w)

(* Requests whose promise has not settled yet.                              *)
Pending(w) == {r \in requests[w] : promise[r] = "pending"}

(* Mutant of Drained: cancel_unfinished cancels without polling first.      *)
DrainSkipped(w) == TRUE

(* No queued request is ready: the `while poll_next().is_ready()' is over.  *)
Drained(w) == requests[w] = Pending(w)

-----------------------------------------------------------------------------
(* Initialisation and the error loop.                                       *)

(* evaluate_scripts and run_event_loop returned Ok.  The channel is not     *)
(* read before that.                                                        *)
InitDone(w) ==
    /\ phase[w] = "init"
    /\ phase' = [phase EXCEPT ![w] = "select"]
    /\ UNCHANGED <<chan, sent, shutdownRequested, loopBusy, requests,
                   continuations, error, promise, resp, home, truncated>>

(* One of them failed: handle_requests keeps the error in Some(e).          *)
InitFailed(w) ==
    /\ "failsInit" \in UserCode
    /\ phase[w] = "init"
    /\ phase' = [phase EXCEPT ![w] = "failed"]
    /\ error' = [error EXCEPT ![w] = TRUE]
    /\ UNCHANGED <<chan, sent, shutdownRequested, loopBusy, requests,
                   continuations, promise, resp, home, truncated>>

(* Mutant of FailedReply: the loop ends with the error it reports.          *)
FailedReplyOnce(w) ==
    /\ phase[w] = "failed"
    /\ chan[w] # <<>> /\ Head(chan[w]) \notin Control
    /\ error[w]
    /\ chan' = [chan EXCEPT ![w] = Tail(@)]
    /\ resp' = [resp EXCEPT ![Head(chan[w])] = "scriptError"]
    /\ error' = [error EXCEPT ![w] = FALSE]
    /\ UNCHANGED <<phase, sent, shutdownRequested, loopBusy, requests,
                   continuations, promise, home, truncated>>

(* ScriptError(error.take())                                                *)
FailedReply(w) ==
    /\ phase[w] = "failed"
    /\ chan[w] # <<>> /\ Head(chan[w]) \notin Control
    /\ chan' = [chan EXCEPT ![w] = Tail(@)]
    /\ resp' = [resp EXCEPT ![Head(chan[w])] =
                   IF error[w] THEN "scriptError" ELSE "scriptErrorNone"]
    /\ error' = [error EXCEPT ![w] = FALSE]
    /\ UNCHANGED <<phase, sent, shutdownRequested, loopBusy, requests,
                   continuations, promise, home, truncated>>

(* Mutant of FailedExit: the error loop breaks on Terminate only.           *)
FailedExitOnTerminate(w) ==
    /\ phase[w] = "failed"
    /\ chan[w] # <<>> /\ Head(chan[w]) = "Terminate"
    /\ Quit(w, "dropped")

FailedExit(w) ==
    /\ phase[w] = "failed"
    /\ chan[w] # <<>> /\ Head(chan[w]) \in Control
    /\ Quit(w, "dropped")

-----------------------------------------------------------------------------
(* The branches of select!.                                                 *)

LoopExit(w) ==
    /\ phase[w] = "select" /\ ExitReady(w)
    /\ Quit(w, "dropped")

(* Mutant of RecvShutdown: what is left in the channel is forgotten.        *)
RecvShutdownDiscards(w) ==
    /\ Selecting(w)
    /\ chan[w] # <<>> /\ Head(chan[w]) = "Shutdown"
    /\ chan' = [chan EXCEPT ![w] = <<>>]
    /\ shutdownRequested' = [shutdownRequested EXCEPT ![w] = TRUE]
    /\ UNCHANGED <<phase, sent, loopBusy, requests, continuations, error,
                   promise, resp, home, truncated>>

RecvShutdown(w) ==
    /\ Selecting(w)
    /\ chan[w] # <<>> /\ Head(chan[w]) = "Shutdown"
    /\ chan' = [chan EXCEPT ![w] = Tail(@)]
    /\ shutdownRequested' = [shutdownRequested EXCEPT ![w] = TRUE]
    /\ UNCHANGED <<phase, sent, loopBusy, requests, continuations, error,
                   promise, resp, home, truncated>>

(* Mutant of RecvTerminate: the `return Ok(())' is missing.                 *)
RecvTerminateStays(w) ==
    /\ Selecting(w)
    /\ chan[w] # <<>> /\ Head(chan[w]) = "Terminate"
    /\ chan' = [chan EXCEPT ![w] = Tail(@)]
    /\ resp' = [r \in Requests |-> IF r \in requests[w] THEN "shuttingDown"
                                                        ELSE resp[r]]
    /\ requests' = [requests EXCEPT ![w] = {}]
    /\ UNCHANGED <<phase, sent, shutdownRequested, loopBusy, continuations,
                   error, promise, home, truncated>>

(* cancel_all(ServerShuttingDown); return Ok(())                            *)
RecvTerminate(w) ==
    /\ Selecting(w)
    /\ chan[w] # <<>> /\ Head(chan[w]) = "Terminate"
    /\ Quit(w, "shuttingDown")

(* "New request received after shutdown requested"                          *)
RecvLateRequest(w) ==
    /\ Selecting(w)
    /\ chan[w] # <<>> /\ Head(chan[w]) \notin Control
    /\ shutdownRequested[w]
    /\ chan' = [chan EXCEPT ![w] = Tail(@)]
    /\ resp' = [resp EXCEPT ![Head(chan[w])] = "lateError"]
    /\ UNCHANGED <<phase, sent, shutdownRequested, loopBusy, requests,
                   continuations, error, promise, home, truncated>>

(* Mutant of RecvRequest: every message is taken for a request.             *)
RecvAnything(w) ==
    /\ Selecting(w)
    /\ chan[w] # <<>>
    /\ ~shutdownRequested[w]
    /\ chan' = [chan EXCEPT ![w] = Tail(@)]
    /\ UNCHANGED <<phase, sent, shutdownRequested, error, home, truncated>>

(* handle_new_request up to start_handling_request, common to its outcomes. *)
RecvRequest(w) ==
    /\ Selecting(w)
    /\ chan[w] # <<>> /\ Head(chan[w]) \notin Control
    /\ ~shutdownRequested[w]
    /\ chan' = [chan EXCEPT ![w] = Tail(@)]
    /\ UNCHANGED <<phase, sent, shutdownRequested, error, home, truncated>>

(* Err(f): the request could not be built, or the handler threw.            *)
StartFailed(w) ==
    /\ "throws" \in UserCode
    /\ RecvRequest(w)
    /\ resp' = [resp EXCEPT ![Head(chan[w])] = "requestError"]
    /\ \E b \in {loopBusy[w], TRUE} : loopBusy' = [loopBusy EXCEPT ![w] = b]
    /\ UNCHANGED <<requests, continuations, promise>>

(* Left(pending): the promise is queued.  The event loop is then not empty: *)
(* creating the request's body stream queued a job.                         *)
StartPending(w) ==
    /\ "promises" \in UserCode
    /\ RecvRequest(w)
    /\ requests' = [requests EXCEPT ![w] = @ \cup {Head(chan[w])}]
    /\ promise' = [promise EXCEPT ![Head(chan[w])] = "pending"]
    /\ loopBusy' = [loopBusy EXCEPT ![w] = TRUE]
    /\ UNCHANGED <<continuations, resp>>

(* Right(resp): answered at once, perhaps with a body still to be streamed. *)
StartReady(w) ==
    /\ RecvRequest(w)
    /\ \E body \in Bodies(Head(chan[w])) :
          continuations' = [continuations EXCEPT ![w] = @ \cup body]
    /\ resp' = [resp EXCEPT ![Head(chan[w])] = "done"]
    /\ loopBusy' = [loopBusy EXCEPT ![w] = TRUE]
    /\ UNCHANGED <<requests, promise>>

-----------------------------------------------------------------------------
(* request_queue.next(), polled by select! and by cancel_unfinished.        *)

Polling(w) == Selecting(w) \/ phase[w] = "drain"

(* finish_request failed: the promise was rejected, or its value is not a   *)
(* Response.                                                                *)
FinishFailed(w, r) ==
    /\ Polling(w)
    /\ r \in requests[w] /\ promise[r] \in Settled
    /\ requests' = [requests EXCEPT ![w] = @ \ {r}]
    /\ promise' = [promise EXCEPT ![r] = "none"]
    /\ resp' = [resp EXCEPT ![r] = "requestError"]
    /\ \E b \in {loopBusy[w], TRUE} : loopBusy' = [loopBusy EXCEPT ![w] = b]
    /\ UNCHANGED <<phase, chan, sent, shutdownRequested, continuations, error,
                   home, truncated>>

FinishDone(w, r) ==
    /\ Polling(w)
    /\ r \in requests[w] /\ promise[r] = "fulfilled"
    /\ requests' = [requests EXCEPT ![w] = @ \ {r}]
    /\ promise' = [promise EXCEPT ![r] = "none"]
    /\ \E body \in Bodies(r) :
          continuations' = [continuations EXCEPT ![w] = @ \cup body]
    /\ resp' = [resp EXCEPT ![r] = "done"]
    /\ \E b \in {loopBusy[w], TRUE} : loopBusy' = [loopBusy EXCEPT ![w] = b]
    /\ UNCHANGED <<phase, chan, sent, shutdownRequested, error, home, truncated>>

(* finish_request returned another promise: the RequestFuture re-arms.      *)
FinishRearmed(w, r) ==
    /\ Polling(w)
    /\ r \in requests[w] /\ promise[r] = "fulfilled"
    /\ promise' = [promise EXCEPT ![r] = "pending"]
    /\ loopBusy' = [loopBusy EXCEPT ![w] = TRUE]
    /\ UNCHANGED <<phase, chan, sent, shutdownRequested, requests,
                   continuations, error, resp, home, truncated>>

ContinuationDone(w, r) ==
    /\ Polling(w)
    /\ r \in continuations[w]
    /\ continuations' = [continuations EXCEPT ![w] = @ \ {r}]
    /\ UNCHANGED <<phase, chan, sent, shutdownRequested, loopBusy, requests,
                   error, promise, resp, home, truncated>>

(* A body future reads its JavaScript stream, which queues jobs.            *)
ContinuationPolled(w) ==
    /\ Polling(w)
    /\ continuations[w] # {} /\ ~loopBusy[w]
    /\ loopBusy' = [loopBusy EXCEPT ![w] = TRUE]
    /\ UNCHANGED <<phase, chan, sent, shutdownRequested, requests,
                   continuations, error, promise, resp, home, truncated>>

-----------------------------------------------------------------------------
(* EventLoopStream::poll_next.                                              *)

(* step_event_loop on a loop that is not empty settles some promises.       *)
StepEventLoop(w) ==
    /\ Selecting(w)
    /\ loopBusy[w]
    /\ \E f \in [Pending(w) -> {"pending"} \cup Settled] :
          promise' = [r \in Requests |-> IF r \in Pending(w) THEN f[r]
                                                             ELSE promise[r]]
    /\ UNCHANGED <<chan, sent, shutdownRequested, requests, continuations,
                   error, resp, home, truncated>>

(* Ok(()) and still not empty: Poll::Pending.                               *)
StepBusy(w) ==
    /\ StepEventLoop(w)
    /\ UNCHANGED <<phase, loopBusy>>

(* Mutant of StepEmptied: the transition to empty is not noticed.           *)
StepEmptiedUnnoticed(w) ==
    /\ StepEventLoop(w)
    /\ loopBusy' = [loopBusy EXCEPT ![w] = FALSE]
    /\ UNCHANGED phase

(* Ok(()) and now empty: the stream yields, cancel_unfinished starts.       *)
StepEmptied(w) ==
    /\ StepEventLoop(w)
    /\ loopBusy' = [loopBusy EXCEPT ![w] = FALSE]
    /\ phase' = [phase EXCEPT ![w] = "drain"]

(* Err(e): printed and otherwise ignored, whether or not the loop is empty. *)
StepFailed(w) ==
    /\ "errors" \in UserCode
    /\ StepEventLoop(w)
    /\ \E b \in BOOLEAN : loopBusy' = [loopBusy EXCEPT ![w] = b]
    /\ UNCHANGED phase

(* Mutant of DrainEnd: cancel_all does not swap the queue out.              *)
DrainEndKeeps(w) ==
    /\ phase[w] = "drain"
    /\ Drained(w)
    /\ resp' = [r \in Requests |-> IF r \in requests[w] THEN "unresolvable"
                                                        ELSE resp[r]]
    /\ phase' = [phase EXCEPT ![w] = "select"]
    /\ UNCHANGED <<chan, sent, shutdownRequested, loopBusy, requests,
                   continuations, error, promise, home, truncated>>

(* Nothing is ready any more: cancel_all(Unresolvable).                     *)
DrainEnd(w) ==
    /\ phase[w] = "drain"
    /\ Drained(w)
    /\ resp' = [r \in Requests |-> IF r \in requests[w] THEN "unresolvable"
                                                        ELSE resp[r]]
    /\ requests' = [requests EXCEPT ![w] = {}]
    /\ promise' = [r \in Requests |-> IF r \in requests[w] THEN "none"
                                                           ELSE promise[r]]
    /\ phase' = [phase EXCEPT ![w] = "select"]
    /\ UNCHANGED <<chan, sent, shutdownRequested, loopBusy, continuations,
                   error, home, truncated>>

(* A panic unwinds the thread: every sender it holds is dropped.            *)
Panic(w) ==
    /\ MayPanic
    /\ Open(w) /\ phase[w] # "stuck"
    /\ Quit(w, "dropped")

(* The next thing w does may run JavaScript: the script at start, the event *)
(* loop, the handler of a request, a body stream, or the getters of what a  *)
(* promise was settled with.                                                *)
CallsUserCode(w) ==
    \/ phase[w] = "init"
    \/ Selecting(w) /\ loopBusy[w]
    \/ Selecting(w) /\ ~shutdownRequested[w] /\ chan[w] # <<>> /\ Head(chan[w]) \notin Control
    \/ Polling(w) /\ (continuations[w] # {} \/ ~Drained(w))

(* The call does not return, and with it handle_requests never polls        *)
(* anything again.  The request that was being started is left where it is: *)
(* its sender is on a stack instead of in the channel, equally out of reach.*)
Hang(w) ==
    /\ "hangs" \in UserCode
    /\ CallsUserCode(w)
    /\ phase' = [phase EXCEPT ![w] = "stuck"]
    /\ UNCHANGED <<chan, sent, shutdownRequested, loopBusy, requests,
                   continuations, error, promise, resp, home, truncated>>

-----------------------------------------------------------------------------
Receive(w) ==
    \/ RecvShutdown(w) \/ RecvTerminate(w) \/ RecvLateRequest(w)
    \/ StartFailed(w) \/ StartPending(w) \/ StartReady(w)
    \/ FailedReply(w) \/ FailedExit(w)

Finish(w, r) == FinishFailed(w, r) \/ FinishDone(w, r) \/ FinishRearmed(w, r)

WorkerStep(w) ==
    \/ InitDone(w) \/ InitFailed(w)
    \/ LoopExit(w)
    \/ Receive(w)
    \/ \E r \in Requests : Finish(w, r) \/ ContinuationDone(w, r)
    \/ ContinuationPolled(w)
    \/ StepBusy(w) \/ StepEmptied(w) \/ StepFailed(w)
    \/ DrainEnd(w)
    \/ Panic(w) \/ Hang(w)

(* What a runner may do: Terminate only follows Shutdown, each is sent to a *)
(* thread once.                                                             *)
EnvStep ==
    \/ \E w \in Workers : Spawn(w)
    \/ \E w \in Workers, r \in Requests : Send(w, r)
    \/ \E W \in SUBSET Workers :
          /\ \A w \in W : phase[w] # "unborn" /\ sent[w] = {}
          /\ SendControl(W, "Shutdown")
    \/ \E W \in SUBSET Workers :
          /\ \A w \in W : sent[w] = {"Shutdown"}
          /\ SendControl(W, "Terminate")

LoopNext == EnvStep \/ \E w \in Workers : WorkerStep(w)

(* select! polls its ready branches in random order, so a branch that is    *)
(* ready again and again is taken; FuturesUnordered polls the requests that *)
(* were woken in order; cancel_unfinished runs to its end; the head-of-loop *)
(* test is always reached.  User code may initialise, stream or keep the    *)
(* event loop busy for ever, and where it never returns from one call, Hang *)
(* takes the worker to "stuck", in which none of these steps is enabled.    *)
LoopFairness(w) ==
    /\ SF_loopVars(Receive(w))
    /\ \A r \in Requests : SF_loopVars(Finish(w, r))
    /\ WF_loopVars(LoopExit(w))
    /\ WF_loopVars(DrainEnd(w))

LoopSpec == LoopInit /\ [][LoopNext]_loopVars
FairLoopSpec == LoopSpec /\ \A w \in Workers : LoopFairness(w)

(* User code that comes to rest: the script initialises or fails, bodies    *)
(* end, and the event loop runs empty again and again.  Only user code      *)
(* without "hangs" does.                                                    *)
RestingUserCode(w) ==
    /\ WF_loopVars(InitDone(w) \/ InitFailed(w))
    /\ SF_loopVars(StepEmptied(w))
    /\ \A r \in Requests : WF_loopVars(ContinuationDone(w, r))

RestingLoopSpec ==
    FairLoopSpec /\ \A w \in Workers : RestingUserCode(w)

-----------------------------------------------------------------------------
(* Properties.                                                              *)

(* A request's oneshot sender is in exactly one place while it is unused -- *)
(* once in the channel or in one RequestFuture, of the worker the request   *)
(* was sent to -- and nowhere once used: get_resp_tx's expect("resp_tx      *)
(* should be used once only") cannot fail, and a body future runs only for  *)
(* an answered request.                                                     *)
SenderUsedOnce ==
    \A w \in Workers :
        /\ requests[w] \cap Queued(w) = {}
        /\ \A r \in requests[w] \cup Queued(w) : resp[r] = "waiting" /\ home[r] = w
        /\ \A r \in continuations[w] : resp[r] = "done" /\ home[r] = w
        /\ IsInjective(chan[w])

(* A request nobody answered is still held by the worker it was sent to: no *)
(* path of the loop, the error loop, a cancellation or the end of the       *)
(* thread forgets a sender, so handle's rx.await always completes or can    *)
(* still be completed.                                                      *)
NoLostRequest ==
    \A r \in Requests : resp[r] = "waiting" =>
        /\ home[r] \in Workers
        /\ r \in requests[home[r]] \cup Queued(home[r])

(* cancel_unfinished lets every ready promise finish before cancel_all, so  *)
(* only a request whose promise is pending is called unresolvable.          *)
UnresolvableIsPending ==
    [][\A r \in Requests :
          resp[r] # "unresolvable" /\ resp'[r] = "unresolvable"
              => promise[r] = "pending"]_loopVars

(* The event loop yields when it runs empty (EventLoopStream's doc: "a      *)
(* value whenever the event loop is empty"), and what is pending then is    *)
(* cancelled: no request keeps waiting on a promise while nothing is left   *)
(* in the event loop to settle it.                                          *)
NoPendingOnEmptyLoop ==
    \A w \in Workers :
        phase[w] = "select" /\ ~loopBusy[w] => Pending(w) = {}

(* A worker past its initialisation obeys Terminate, however busy user code *)
(* keeps its event loop and whatever it streams, unless one call into       *)
(* JavaScript never returns.                                                *)
TerminateObeyed ==
    \A w \in Workers :
        "Terminate" \in sent[w] /\ phase[w] # "init"
            ~> phase[w] \in {"finished", "stuck"}

(* If user code comes to rest and reports no error to the event loop, every *)
(* request is answered.                                                     *)
EveryRequestAnswered ==
    \A r \in Requests : resp[r] = "waiting" ~> resp[r] # "waiting"

(* If user code comes to rest, Shutdown alone ends the worker.              *)
ShutdownEnds ==
    \A w \in Workers : "Shutdown" \in sent[w] ~> phase[w] = "finished"

=============================================================================

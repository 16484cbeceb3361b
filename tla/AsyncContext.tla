---------------------------- MODULE AsyncContext ----------------------------
(***************************************************************************)
(* node:async_hooks: AsyncLocalStorage, AsyncResource and the stack of     *)
(* context frames that promise hooks, timers and microtasks push and pop   *)
(* (node/async_hooks.ts, src/builtins/core/mod.rs).                        *)
(*                                                                         *)
(* JavaScript runs one job at a time, to its end.  A job is a script, a    *)
(* timer, a microtask or the reaction of a promise, and the calls it makes *)
(* nest.  SpiderMonkey is external: it calls the four hooks, once they are *)
(* registered, when a promise is made, around the one reaction that        *)
(* settles it, and when it settles.                                        *)
(*                                                                         *)
(* `sees' is a ghost: the stores that code was promised when it was        *)
(* called, bound or scheduled.                                             *)
(***************************************************************************)
EXTENDS Naturals, SequencesExt

CONSTANTS
    Keys,           \* AsyncLocalStorage objects, each with its StorageKey
    Stores,         \* values passed to run
    Undefined,
    MaxFrames,      \* bound: frames, the root included
    MaxPromises,    \* bound: promises
    MaxCaptured,    \* bound: AsyncResources, bound functions, timers, microtasks
    MaxDepth        \* bound: nested calls

ASSUME AsyncAssumption ==
    /\ Undefined \notin Stores
    /\ {MaxFrames, MaxPromises, MaxCaptured, MaxDepth} \subseteq Nat \ {0}

VARIABLES
    frames,         \* storage of every AsyncContextFrame; 1 is rootAsyncFrame
    stack,          \* asyncContextStack
    hooksSet,       \* promiseHooksSet
    dead,           \* keys whose AsyncLocalStorage was collected
    calls,          \* the JavaScript calls under way, innermost last
    promises,       \* [ctx, state, on, ran, sees, strayed]; ctx 0 is undefined
    captured        \* what was bound or scheduled: [kind, frame, sees]

vars == <<frames, stack, hooksSet, dead, calls, promises, captured>>

Root == 1
Live == Keys \ dead
(* A store for every live key, as getStore returns it.                      *)
Empty == [k \in Keys |-> Undefined]
StoreIn(f, k) == IF k \in DOMAIN frames[f] THEN frames[f][k] ELSE Undefined

TypeOK ==
    /\ \A f \in DOMAIN frames :
          DOMAIN frames[f] \subseteq Keys /\ Range(frames[f]) \subseteq Stores \cup {Undefined}
    /\ stack \in Seq(DOMAIN frames) /\ hooksSet \in BOOLEAN /\ dead \subseteq Keys
    /\ \A p \in DOMAIN promises : promises[p].ctx \in {0} \cup DOMAIN frames
    /\ \A c \in DOMAIN captured : captured[c].frame \in DOMAIN frames

Init ==
    /\ frames = <<[k \in {} |-> Undefined]>>
    /\ stack = <<>> /\ hooksSet = FALSE /\ dead = {}
    /\ calls = <<>> /\ promises = <<>> /\ captured = <<>>

-----------------------------------------------------------------------------
(* Frames.                                                                  *)

Current == IF stack = <<>> THEN Root ELSE stack[Len(stack)]
Push(s, f) == Append(s, f)
Pop(s) == IF Len(s) > 0 THEN Front(s) ELSE s

Alive(storage) == [k \in DOMAIN storage \cap Live |-> storage[k]]

(* Mutant of Propagate: entries are not cloned, the parent's changes too.   *)
PropagateShared(parent, key, value) ==
    LET kept == Alive(frames[parent])
        child == [k \in DOMAIN kept \cup {key} |-> IF k = key THEN value ELSE kept[k]]
        shared == [k \in DOMAIN kept |-> child[k]]
    IN  Append([frames EXCEPT ![parent] = shared], child)

(* The constructor: dead entries leave the parent, the others are cloned,   *)
(* and the entry given replaces the one of the same key.                    *)
Propagate(parent, key, value) ==
    LET kept == Alive(frames[parent])
        child == [k \in DOMAIN kept \cup {key} |-> IF k = key THEN value ELSE kept[k]]
    IN  Append([frames EXCEPT ![parent] = kept], child)

-----------------------------------------------------------------------------
(* The promise hooks.  call_handler only logs what they throw.              *)

(* Mutant of OnInit: every promise gets the context of the first.           *)
OnInitRoot == 0

(* init: the context of a new promise; none in the root context.            *)
OnInit == IF hooksSet /\ Current # Root THEN Current ELSE 0

OnBefore(p) ==
    CASE ~hooksSet -> stack
      [] hooksSet /\ promises[p].ctx # 0 -> Push(stack, promises[p].ctx)
      [] OTHER -> Push(stack, Root)

(* resolve, then after when a reaction settled it: what the promise keeps.  *)
OnResolve(ctx, state) ==
    IF hooksSet /\ Current # Root /\ state = "rejected" /\ ctx = 0 THEN Current ELSE ctx

(* Mutant of OnAfter: rejected promises are cleared as well.                *)
OnAfterClears(ctx, state) == IF hooksSet THEN 0 ELSE ctx

OnAfter(ctx, state) == IF hooksSet /\ state # "rejected" THEN 0 ELSE ctx

-----------------------------------------------------------------------------
(* Jobs and calls.                                                          *)

Running == calls # <<>>
Top == calls[Len(calls)]
CanCall == Running /\ Len(calls) < MaxDepth
Call(kind, of, sees) == calls' = Append(calls, [kind |-> kind, of |-> of, sees |-> sees])

(* The event loop runs a script: a module, an event handler.                *)
Script ==
    /\ ~Running
    /\ Call("script", 0, Empty)
    /\ UNCHANGED <<frames, stack, hooksSet, dead, promises, captured>>

(* AsyncLocalStorage.run: a new frame is current during the callback.  The  *)
(* first frame ever registers the hooks.                                    *)
Run(key, store) ==
    /\ CanCall /\ key \in Live /\ Len(frames) < MaxFrames
    /\ frames' = Propagate(Current, key, store)
    /\ stack' = Push(stack, Len(frames) + 1)
    /\ hooksSet' = TRUE
    /\ Call("run", 0, [Top.sees EXCEPT ![key] = store])
    /\ UNCHANGED <<dead, promises, captured>>

(* AsyncLocalStorage.exit is run with undefined.                            *)
Exit(key) == Run(key, Undefined)

(* getStore: dead entries are dropped on the way.                           *)
GetStore(key) ==
    /\ Running /\ key \in Live
    /\ frames' = [frames EXCEPT ![Current] = Alive(@)]
    /\ hooksSet' = TRUE
    /\ UNCHANGED <<stack, dead, calls, promises, captured>>

(* new AsyncResource, its bind, AsyncLocalStorage.bind and snapshot keep    *)
(* the current frame; so do setTimeout, setInterval and queueMicrotask.     *)
Capture(kind) ==
    /\ Running /\ Len(captured) < MaxCaptured
    /\ captured' = Append(captured, [kind |-> kind, frame |-> Current, sees |-> Top.sees])
    /\ hooksSet' = TRUE
    /\ UNCHANGED <<frames, stack, dead, calls, promises>>

(* runInAsyncScope, or a call of what bind returned.                        *)
Enter(c) ==
    /\ CanCall /\ captured[c].kind = "bound"
    /\ stack' = Push(stack, captured[c].frame)
    /\ Call("scope", c, captured[c].sees)
    /\ UNCHANGED <<frames, hooksSet, dead, promises, captured>>

(* A timer or a microtask fires; an interval stays and may fire again.      *)
Fire(c) ==
    /\ ~Running /\ captured[c].kind \in {"once", "interval"}
    /\ stack' = Push(stack, captured[c].frame)
    /\ Call("scope", c, captured[c].sees)
    /\ captured' = [captured EXCEPT ![c].kind = IF @ = "once" THEN "fired" ELSE @]
    /\ UNCHANGED <<frames, hooksSet, dead, promises>>

(* Mutant of Return: an exception skips the end of run.                     *)
ReturnOrThrow ==
    /\ Running /\ Top.kind # "reaction"
    /\ stack' \in {stack, IF Top.kind = "script" THEN stack ELSE Pop(stack)}
    /\ calls' = Front(calls)
    /\ UNCHANGED <<frames, hooksSet, dead, promises, captured>>

(* The innermost call returns or throws: `finally' makes it the same.       *)
Return ==
    /\ Running /\ Top.kind # "reaction"
    /\ stack' = IF Top.kind = "script" THEN stack ELSE Pop(stack)
    /\ calls' = Front(calls)
    /\ UNCHANGED <<frames, hooksSet, dead, promises, captured>>

(* new Promise (on 0), or then on a promise: the init hook sees it.         *)
NewPromise(on) ==
    /\ Running /\ Len(promises) < MaxPromises
    /\ promises' = Append(promises,
          [ctx |-> OnInit, state |-> "pending", on |-> on, ran |-> FALSE,
           sees |-> Top.sees, strayed |-> FALSE])
    /\ UNCHANGED <<frames, stack, hooksSet, dead, calls, captured>>

(* The program settles a promise that no reaction settles.                  *)
Settle(p, state) ==
    /\ Running /\ promises[p].state = "pending" /\ promises[p].on = 0
    /\ promises' = [promises EXCEPT ![p].state = state, ![p].ctx = OnResolve(@, state),
                                    ![p].strayed = Current # Root /\ state = "rejected"]
    /\ UNCHANGED <<frames, stack, hooksSet, dead, calls, captured>>

(* The reaction that will settle p runs: the promise it is on has settled.  *)
React(p) ==
    /\ ~Running /\ promises[p].on # 0 /\ ~promises[p].ran
    /\ promises[promises[p].on].state # "pending"
    /\ stack' = OnBefore(p)
    /\ promises' = [promises EXCEPT ![p].ran = TRUE]
    /\ Call("reaction", p, promises[p].sees)
    /\ UNCHANGED <<frames, hooksSet, dead, captured>>

(* It ends: p settles, or stays pending on a promise that was returned.     *)
ReactionEnds(state) ==
    /\ Running /\ Top.kind = "reaction"
    /\ LET kept == IF state = "pending" THEN promises[Top.of].ctx
                   ELSE OnResolve(promises[Top.of].ctx, state)
       IN  promises' = [promises EXCEPT
              ![Top.of].state = state, ![Top.of].ctx = OnAfter(kept, state),
              ![Top.of].strayed = Current # Root /\ state = "rejected"]
    /\ stack' = IF hooksSet THEN Pop(stack) ELSE stack
    /\ calls' = Front(calls)
    /\ UNCHANGED <<frames, hooksSet, dead, captured>>

(* An AsyncLocalStorage is collected: fnReg resets its key.                 *)
Collect(key) ==
    /\ ~Running /\ key \in Live
    /\ dead' = dead \cup {key}
    /\ UNCHANGED <<frames, stack, hooksSet, calls, promises, captured>>

Next ==
    \/ Script \/ Return
    \/ \E k \in Keys : Exit(k) \/ GetStore(k) \/ Collect(k) \/ \E s \in Stores : Run(k, s)
    \/ \E kind \in {"bound", "once", "interval"} : Capture(kind)
    \/ \E c \in DOMAIN captured : Enter(c) \/ Fire(c)
    \/ \E on \in {0} \cup DOMAIN promises : NewPromise(on)
    \/ \E p \in DOMAIN promises :
          React(p) \/ \E state \in {"fulfilled", "rejected"} : Settle(p, state)
    \/ \E state \in {"pending", "fulfilled", "rejected"} : ReactionEnds(state)

Spec == Init /\ [][Next]_vars

-----------------------------------------------------------------------------
(* Properties.                                                              *)

(* getStore returns what the code was promised: the store of the innermost  *)
(* run around it, or around the place where it was bound, scheduled or      *)
(* passed to then, whatever jobs ran before, whenever the hooks were        *)
(* registered and whichever keys have died.                                 *)
SeesItsContext ==
    Running => \A k \in Live : StoreIn(Current, k) = Top.sees[k]

(* Every push is popped: between jobs the stack is empty, and in a job it   *)
(* has one frame for every call that enters a scope, and one more at most   *)
(* for a reaction.                                                          *)
StackUnwound ==
    LET Scopes == {i \in DOMAIN calls : calls[i].kind \in {"run", "scope"}}
    IN  /\ ~Running => stack = <<>>
        /\ Len(stack) - Cardinality(Scopes) \in {0, 1}

(* A frame is the same for everyone who holds it, for ever: the store of a  *)
(* live key in it never changes.                                            *)
FramesAreConstant ==
    [][\A f \in DOMAIN frames : \A k \in Live \ dead' : StoreIn(f, k)' = StoreIn(f, k)]_vars

(* after lets go of the context of what succeeded, and a rejection in a     *)
(* context keeps one for those who report it.                               *)
ContextKeptForRejections ==
    \A p \in DOMAIN promises :
        /\ promises[p].strayed => promises[p].ctx # 0
        /\ ~Running /\ hooksSet /\ promises[p].ran /\ promises[p].state # "rejected" =>
              promises[p].ctx = 0

=============================================================================

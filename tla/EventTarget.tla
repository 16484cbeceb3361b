---------------------------- MODULE EventTarget -----------------------------
(***************************************************************************)
(* One EventTarget object and the events dispatched on it                  *)
(* (src/builtins/js_globals/event.ts, compiled to event.js).               *)
(*                                                                         *)
(* dispatch walks the live listener array with forEach and calls the user's*)
(* callbacks, which may themselves add and remove listeners, abort the     *)
(* signal a listener was added with, and dispatch again, on the same array.*)
(* The calls in progress form a stack of dispatches.                       *)
(*                                                                         *)
(* Left out: the properties of Event that neither the target nor dispatch  *)
(* reads (path, phase, cancelled and propagation flags, time stamp), and   *)
(* calls that throw without having changed anything.                       *)
(***************************************************************************)
EXTENDS Naturals, SequencesExt, Filtering

CONSTANTS
    Callbacks,     \* the user's functions
    Signals,       \* AbortSignals
    NoSignal,      \* options without a signal
    Types,         \* event types
    Events,        \* Event objects
    TypeOf,        \* the type of each event
    Captures,      \* what options.capture is: a subset of AllCaptures
    MaxDepth       \* bound: dispatches nested in callbacks

(* An options object may lack capture.  A missing or boolean options        *)
(* argument is flattened to "true" or "false".                              *)
AllCaptures == {"true", "false", "undefined"}

ASSUME EventAssumption ==
    /\ NoSignal \notin Signals
    /\ TypeOf \in [Events -> Types]
    /\ Captures \subseteq AllCaptures
    /\ MaxDepth \in Nat

VARIABLES
    listeners,     \* eventTargetData.listeners, for the types in `defined'
    defined,       \* types for which listeners[type] is an array
    aborted,       \* aborted signals
    onAbort,       \* what the abort listeners of each signal will remove
    refused,       \* events whose dispatched is set or initialized is not
    stack          \* the dispatches in progress, innermost last

vars == <<listeners, defined, aborted, onAbort, refused, stack>>

(* What the duplicate check and removeEventListener compare.                *)
Listener == [callback : Callbacks, capture : Captures]

(* next: the forEach index; len: its length, read once; running: a callback *)
(* is being called.  start, called, fresh and removed record the dispatch   *)
(* for the properties: the array at its start, the listeners called, those  *)
(* added since, and whether any was removed since.                          *)
Dispatches == [event : Events, next : Nat, len : Nat, running : BOOLEAN,
               start : Seq(Listener), called : Seq(Listener),
               fresh : SUBSET Listener, removed : BOOLEAN]

TypeOK ==
    /\ listeners \in [Types -> Seq(Listener)]
    /\ defined \subseteq Types
    /\ \A t \in Types \ defined : listeners[t] = <<>>
    /\ \A t \in Types : IsInjective(listeners[t])
    /\ aborted \subseteq Signals
    /\ onAbort \in [Signals -> SUBSET (Types \X Listener)]
    /\ refused \subseteq Events
    /\ stack \in Seq(Dispatches) /\ Len(stack) <= MaxDepth
    /\ \A i \in 1..Len(stack) - 1 : stack[i].running

Init ==
    /\ listeners = [t \in Types |-> <<>>]
    /\ defined = {}
    /\ aborted = {}
    /\ onAbort = [s \in Signals |-> {}]
    /\ refused = {}
    /\ stack = <<>>

(* User code runs at the top level or in the innermost callback.            *)
UserCodeRuns == stack # <<>> => Last(stack).running

(* Brings the records of the dispatches of type t up to date.               *)
Record(t, added, removal) ==
    [i \in DOMAIN stack |->
        IF TypeOf[stack[i].event] # t THEN stack[i]
        ELSE [stack[i] EXCEPT !.fresh = @ \cup added, !.removed = @ \/ removal]]

-----------------------------------------------------------------------------
(* Mutant of Push: the newest listener comes first.                         *)
PushFirst(list, l) == <<l>> \o list

(* listenerList.push({ callback, options })                                 *)
Push(list, l) == Append(list, l)

(* The signal is already aborted: addEventListener only makes the array.    *)
AddAborted(t, s) ==
    /\ UserCodeRuns
    /\ s \in aborted
    /\ defined' = defined \cup {t}
    /\ UNCHANGED <<listeners, aborted, onAbort, refused, stack>>

(* addEventListener of a listener that is not there yet; with a signal, its *)
(* removal is left to the signal's abort event.                             *)
AddEventListener(t, l, s) ==
    /\ UserCodeRuns
    /\ l \notin Range(listeners[t])
    /\ s \notin aborted
    /\ defined' = defined \cup {t}
    /\ onAbort' = [r \in Signals |-> IF r = s THEN onAbort[r] \cup {<<t, l>>}
                                              ELSE onAbort[r]]
    /\ listeners' = [listeners EXCEPT ![t] = Push(@, l)]
    /\ stack' = Record(t, {l}, FALSE)
    /\ UNCHANGED <<aborted, refused>>

(* The first listener with the same callback and capture is spliced out.    *)
Spliced(list, l) == RemoveFirst(list, l)

RemoveEventListener(t, l) ==
    /\ UserCodeRuns
    /\ l \in Range(listeners[t])
    /\ listeners' = [listeners EXCEPT ![t] = Spliced(@, l)]
    /\ stack' = Record(t, {}, TRUE)
    /\ UNCHANGED <<defined, aborted, onAbort, refused>>

(* The signal's "abort" listeners, each a removeEventListener.  A list has  *)
(* no listener twice, so that their order does not matter.                  *)
Abort(s) ==
    /\ UserCodeRuns
    /\ s \notin aborted
    /\ aborted' = aborted \cup {s}
    /\ listeners' = [t \in Types |->
          Filter(listeners[t], {l \in Listener : <<t, l>> \notin onAbort[s]})]
    /\ stack' = [i \in DOMAIN stack |->
          LET t == TypeOf[stack[i].event]
          IN  [stack[i] EXCEPT !.removed = @ \/ listeners'[t] # listeners[t]]]
    /\ UNCHANGED <<defined, onAbort, refused>>

(* The public setters of Event.dispatched and Event.initialized, which only *)
(* dispatchEvent reads, together.                                           *)
SetFlags(e) ==
    /\ UserCodeRuns
    /\ refused' \in {refused \cup {e}, refused \ {e}}
    /\ UNCHANGED <<listeners, defined, aborted, onAbort, stack>>

-----------------------------------------------------------------------------
(* dispatchEvent: the flags are tested, never set.  The eventPhase is       *)
(* always NONE.  Without an array for the type, `.forEach' throws.          *)
DispatchEvent(e) ==
    LET list == listeners[TypeOf[e]]
    IN  /\ UserCodeRuns
        /\ Len(stack) < MaxDepth
        /\ e \notin refused
        /\ TypeOf[e] \in defined
        /\ stack' = Append(stack,
              [event |-> e, next |-> 1, len |-> Len(list), running |-> FALSE,
               start |-> list, called |-> <<>>, fresh |-> {}, removed |-> FALSE])
        /\ UNCHANGED <<listeners, defined, aborted, onAbort, refused>>

(* Mutant of HasNext: the index is compared with the live length only.      *)
HasNextLive(d) == d.next <= Len(listeners[TypeOf[d.event]])

(* forEach visits the indices below the length it read that still exist.    *)
HasNext(d) == d.next <= d.len /\ d.next <= Len(listeners[TypeOf[d.event]])

(* listener.callback(event)                                                 *)
Call ==
    LET d == Last(stack)
    IN  /\ stack # <<>> /\ ~d.running
        /\ HasNext(d)
        /\ stack' = [stack EXCEPT ![Len(stack)] =
              [d EXCEPT !.next = @ + 1, !.running = TRUE,
                        !.called = Append(@, listeners[TypeOf[d.event]][d.next])]]
        /\ UNCHANGED <<listeners, defined, aborted, onAbort, refused>>

CallReturns ==
    /\ stack # <<>> /\ Last(stack).running
    /\ stack' = [stack EXCEPT ![Len(stack)].running = FALSE]
    /\ UNCHANGED <<listeners, defined, aborted, onAbort, refused>>

(* forEach does not catch: the exception leaves dispatchEvent.              *)
CallThrows ==
    /\ stack # <<>> /\ Last(stack).running
    /\ stack' = Front(stack)
    /\ UNCHANGED <<listeners, defined, aborted, onAbort, refused>>

DispatchReturns ==
    /\ stack # <<>> /\ ~Last(stack).running
    /\ ~HasNext(Last(stack))
    /\ stack' = Front(stack)
    /\ UNCHANGED <<listeners, defined, aborted, onAbort, refused>>

Next ==
    \/ \E t \in Types, s \in Signals : AddAborted(t, s)
    \/ \E t \in Types, l \in Listener, s \in Signals \cup {NoSignal} :
          AddEventListener(t, l, s)
    \/ \E t \in Types, l \in Listener : RemoveEventListener(t, l)
    \/ \E s \in Signals : Abort(s)
    \/ \E e \in Events : SetFlags(e) \/ DispatchEvent(e)
    \/ Call \/ CallReturns \/ CallThrows \/ DispatchReturns

Spec == Init /\ [][Next]_vars

-----------------------------------------------------------------------------
(* Properties.                                                              *)

(* dispatch calls a listener a second time only if it was added again while *)
(* the dispatch was under way: listeners removed by callbacks, aborts and   *)
(* nested dispatches shift the array under forEach, but never backwards.    *)
CalledOnce ==
    \A d \in Range(stack) : \A i, j \in DOMAIN d.called :
        i # j /\ d.called[i] = d.called[j] => d.called[i] \in d.fresh

(* When dispatch returns, the listeners there were at its start have been   *)
(* called, in their order and no others, unless one was removed in the      *)
(* meantime: adding listeners while forEach runs neither displaces one nor  *)
(* gets the new one called.                                                 *)
CalledInOrder ==
    \A d \in Range(stack) :
        /\ ~d.removed => IsPrefix(d.called, d.start)
        /\ ~d.removed /\ ~d.running /\ ~HasNext(d) => d.called = d.start

=============================================================================

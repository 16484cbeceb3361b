------------------------ MODULE AsyncContextProofs --------------------------
(***************************************************************************)
(* Proofs about AsyncContext, for any keys and stores and any number of    *)
(* frames, promises, captured functions and nested calls.                  *)
(***************************************************************************)
EXTENDS AsyncContext, FiniteSetTheorems, SequenceTheorems, TLAPS

Values == Stores \cup {Undefined}
Storage == UNION {[D -> Values] : D \in SUBSET Keys}
Sees == [Keys -> Values]

Calls == [kind : {"script", "run", "scope", "reaction"}, of : Nat, sees : Sees]
Promise == [ctx : Nat, state : {"pending", "fulfilled", "rejected"}, on : Nat,
            ran : BOOLEAN, sees : Sees, strayed : BOOLEAN]
Captured == [kind : {"bound", "once", "interval", "fired"}, frame : Nat, sees : Sees]

(* The root frame never gets an entry, and frames are referred to by number.*)
AsyncTypes ==
    /\ frames \in Seq(Storage) /\ Len(frames) > 0 /\ DOMAIN frames[Root] = {}
    /\ stack \in Seq(Nat) /\ hooksSet \in BOOLEAN /\ dead \subseteq Keys
    /\ calls \in Seq(Calls) /\ promises \in Seq(Promise) /\ captured \in Seq(Captured)

FramesKnown == \A i \in 1..Len(stack) : stack[i] \in 1..Len(frames)

(* A job starts with a script, a reaction or what was scheduled; the calls  *)
(* in it push one frame each.  A reaction pushes one if the hooks are set   *)
(* when it starts; nothing is pushed or kept before they are.               *)
OneFramePerCall ==
    /\ \A i \in 2..Len(calls) : calls[i].kind \in {"run", "scope"}
    /\ calls = <<>> => stack = <<>>
    /\ calls # <<>> =>
          \/ calls[1].kind = "script" /\ Len(stack) = Len(calls) - 1
          \/ calls[1].kind = "scope" /\ Len(stack) = Len(calls)
          \/ calls[1].kind = "reaction" /\ Len(stack) \in {Len(calls) - 1, Len(calls)}

HooksSetFirst == stack # <<>> => hooksSet

(* The frame that is current in the i-th call.                              *)
FrameOf(i) ==
    LET j == i + Len(stack) - Len(calls)
    IN  IF j = 0 THEN Root ELSE stack[j]

Holds(f, sees) == \A k \in Live : StoreIn(f, k) = sees[k]

(* Every call, what was captured and every reaction to come has its frame.  *)
CallsSee == \A i \in 1..Len(calls) : Holds(FrameOf(i), calls[i].sees)

CapturedSees ==
    \A c \in 1..Len(captured) :
        hooksSet /\ captured[c].frame \in 1..Len(frames)
                 /\ Holds(captured[c].frame, captured[c].sees)

PromiseSees(r) ==
    /\ r.ctx \in 0..Len(frames) /\ (r.ctx # 0 => hooksSet)
    /\ r.ran => r.on # 0
    /\ r.on # 0 /\ ~r.ran => Holds(IF r.ctx = 0 THEN Root ELSE r.ctx, r.sees)
    /\ r.strayed => r.ctx # 0

PromisesSee == \A p \in 1..Len(promises) : PromiseSees(promises[p])

(* A promise that a reaction was to settle and that is not rejected keeps   *)
(* its context only while that reaction runs.                               *)
Reacting(p) == Running /\ calls[1].kind = "reaction" /\ calls[1].of = p

ContextsReleased ==
    /\ Running /\ calls[1].kind = "reaction" =>
          calls[1].of \in 1..Len(promises) /\ promises[calls[1].of].ran
    /\ \A p \in 1..Len(promises) :
          promises[p].ran /\ promises[p].state # "rejected" /\ promises[p].ctx # 0 => Reacting(p)

AsyncInv ==
    /\ AsyncTypes /\ FramesKnown /\ OneFramePerCall /\ HooksSetFirst
    /\ CallsSee /\ CapturedSees /\ PromisesSee /\ ContextsReleased

-----------------------------------------------------------------------------

LEMMA FrontFacts ==
    ASSUME NEW S, NEW s \in Seq(S), s # <<>>
    PROVE  /\ Front(s) \in Seq(S) /\ Len(Front(s)) = Len(s) - 1
           /\ \A i \in 1..(Len(s) - 1) : Front(s)[i] = s[i]
           /\ Len(s) \in Nat \ {0}
<1>1. Len(s) \in Nat \ {0} /\ \A i \in 1..(Len(s) - 1) : s[i] \in S
  OBVIOUS
<1>2. /\ Front(s) \in Seq(S)
      /\ Len(Front(s)) = IF 1 <= Len(s) - 1 THEN Len(s) - 1 - 1 + 1 ELSE 0
      /\ \A i \in 1..(Len(s) - 1 - 1 + 1) : Front(s)[i] = s[1 + i - 1]
  BY <1>1, SubSeqProperties DEF Front
<1>3. Len(Front(s)) = Len(s) - 1
  <2>1. PICK n \in Nat \ {0} : n = Len(s)
    BY <1>1
  <2>2. Len(Front(s)) = IF 1 <= n - 1 THEN n - 1 - 1 + 1 ELSE 0
    BY <1>2, <2>1
  <2>3. Len(Front(s)) = n - 1
    BY <2>2
  <2> QED
    BY <2>1, <2>3
<1>4. ASSUME NEW i \in 1..(Len(s) - 1) PROVE Front(s)[i] = s[i]
  <2>1. i \in 1..(Len(s) - 1 - 1 + 1) /\ 1 + i - 1 = i
    BY <1>1
  <2> QED
    BY <1>2, <2>1
<1> QED
  BY <1>1, <1>2, <1>3, <1>4

LEMMA AppendFacts ==
    ASSUME NEW S, NEW s \in Seq(S), NEW e \in S
    PROVE  /\ Append(s, e) \in Seq(S) /\ Len(Append(s, e)) = Len(s) + 1
           /\ \A i \in 1..Len(s) : Append(s, e)[i] = s[i]
           /\ Append(s, e)[Len(s) + 1] = e
           /\ Len(s) \in Nat
           /\ Append(s, e) # <<>>
OBVIOUS

LEMMA ReplaceFacts ==
    ASSUME NEW S, NEW s \in Seq(S), NEW n \in 1..Len(s), NEW e \in S
    PROVE  /\ [s EXCEPT ![n] = e] \in Seq(S) /\ Len([s EXCEPT ![n] = e]) = Len(s)
           /\ \A i \in 1..Len(s) : [s EXCEPT ![n] = e][i] = IF i = n THEN e ELSE s[i]
OBVIOUS

LEMMA EmptyFacts == Len(<<>>) = 0 /\ \A S : <<>> \in Seq(S)
OBVIOUS

(* What storing in a frame and copying it leave of the live keys.           *)
LEMMA AliveFacts ==
    ASSUME NEW s \in Storage
    PROVE  /\ Alive(s) \in Storage
           /\ DOMAIN Alive(s) = DOMAIN s \cap Live
           /\ \A k \in DOMAIN s \cap Live : Alive(s)[k] = s[k]
<1>1. PICK D \in SUBSET Keys : s \in [D -> Values]
  BY DEF Storage
<1>2. Alive(s) \in [D \cap Live -> Values] /\ D \cap Live \in SUBSET Keys
  BY <1>1 DEF Alive
<1> QED
  BY <1>1, <1>2 DEF Alive, Storage

LEMMA ChildFacts ==
    ASSUME NEW s \in Storage, NEW key \in Keys, NEW value \in Values, NEW child,
           child = [k \in DOMAIN s \cup {key} |-> IF k = key THEN value ELSE s[k]]
    PROVE  /\ child \in Storage /\ DOMAIN child = DOMAIN s \cup {key}
           /\ \A k \in DOMAIN child : child[k] = IF k = key THEN value ELSE s[k]
<1>1. PICK D \in SUBSET Keys : s \in [D -> Values]
  BY DEF Storage
<1>2. child \in [D \cup {key} -> Values] /\ D \cup {key} \in SUBSET Keys
  BY <1>1
<1> QED
  BY <1>1, <1>2 DEF Storage

LEMMA CurrentKnown ==
    ASSUME AsyncTypes, FramesKnown
    PROVE  Current \in 1..Len(frames)
BY DEF AsyncTypes, FramesKnown, Current, Root

(* Dead entries leave frame f; live ones stay.                              *)
LEMMA Swept ==
    ASSUME AsyncTypes, NEW f \in 1..Len(frames)
    PROVE  /\ [frames EXCEPT ![f] = Alive(frames[f])] \in Seq(Storage)
           /\ Len([frames EXCEPT ![f] = Alive(frames[f])]) = Len(frames)
           /\ DOMAIN [frames EXCEPT ![f] = Alive(frames[f])][Root] = {}
           /\ \A g \in 1..Len(frames) : \A k \in Live :
                 /\ k \in DOMAIN [frames EXCEPT ![f] = Alive(frames[f])][g] <=> k \in DOMAIN frames[g]
                 /\ k \in DOMAIN frames[g] =>
                       [frames EXCEPT ![f] = Alive(frames[f])][g][k] = frames[g][k]
<1> DEFINE swept == [frames EXCEPT ![f] = Alive(frames[f])]
<1>1. frames \in Seq(Storage) /\ frames[f] \in Storage /\ Root \in 1..Len(frames)
  BY DEF AsyncTypes, Root
<1>2. /\ Alive(frames[f]) \in Storage
      /\ DOMAIN Alive(frames[f]) = DOMAIN frames[f] \cap Live
      /\ \A k \in DOMAIN frames[f] \cap Live : Alive(frames[f])[k] = frames[f][k]
  BY <1>1, AliveFacts
<1>3. /\ swept \in Seq(Storage) /\ Len(swept) = Len(frames)
      /\ \A g \in 1..Len(frames) : swept[g] = IF g = f THEN Alive(frames[f]) ELSE frames[g]
  BY <1>1, <1>2, ReplaceFacts
<1> HIDE DEF swept
<1>4. DOMAIN swept[Root] = {}
  BY <1>1, <1>2, <1>3 DEF AsyncTypes
<1>5. \A g \in 1..Len(frames) : \A k \in Live :
          /\ k \in DOMAIN swept[g] <=> k \in DOMAIN frames[g]
          /\ k \in DOMAIN frames[g] => swept[g][k] = frames[g][k]
  BY <1>2, <1>3
<1> QED
  BY <1>3, <1>4, <1>5 DEF swept

(* What a call of run adds: the entry given, and the live ones of its       *)
(* parent.                                                                  *)
LEMMA Propagated ==
    ASSUME AsyncTypes, NEW f \in 1..Len(frames), NEW key \in Keys, NEW value \in Values
    PROVE  /\ Propagate(f, key, value) \in Seq(Storage)
           /\ Len(Propagate(f, key, value)) = Len(frames) + 1
           /\ DOMAIN Propagate(f, key, value)[Root] = {}
           /\ \A g \in 1..Len(frames) : \A k \in Live :
                 /\ k \in DOMAIN Propagate(f, key, value)[g] <=> k \in DOMAIN frames[g]
                 /\ k \in DOMAIN frames[g] => Propagate(f, key, value)[g][k] = frames[g][k]
           /\ \A k \in Live :
                 /\ k \in DOMAIN Propagate(f, key, value)[Len(frames) + 1] <=>
                       k = key \/ k \in DOMAIN frames[f]
                 /\ k = key => Propagate(f, key, value)[Len(frames) + 1][k] = value
                 /\ k # key /\ k \in DOMAIN frames[f] =>
                       Propagate(f, key, value)[Len(frames) + 1][k] = frames[f][k]
<1> DEFINE kept == Alive(frames[f])
           swept == [frames EXCEPT ![f] = kept]
           child == [k \in DOMAIN kept \cup {key} |-> IF k = key THEN value ELSE kept[k]]
<1>1. Propagate(f, key, value) = Append(swept, child)
  BY DEF Propagate
<1>2. /\ kept \in Storage
      /\ DOMAIN kept = DOMAIN frames[f] \cap Live
      /\ \A k \in DOMAIN frames[f] \cap Live : kept[k] = frames[f][k]
  <2>1. frames[f] \in Storage
    BY DEF AsyncTypes
  <2> QED
    BY <2>1, AliveFacts
<1>3. /\ swept \in Seq(Storage) /\ Len(swept) = Len(frames)
      /\ DOMAIN swept[Root] = {}
      /\ \A g \in 1..Len(frames) : \A k \in Live :
            /\ k \in DOMAIN swept[g] <=> k \in DOMAIN frames[g]
            /\ k \in DOMAIN frames[g] => swept[g][k] = frames[g][k]
  BY Swept
<1> HIDE DEF kept
<1>4. /\ child \in Storage /\ DOMAIN child = DOMAIN kept \cup {key}
      /\ \A k \in DOMAIN child : child[k] = IF k = key THEN value ELSE kept[k]
  BY <1>2, ChildFacts
<1> HIDE DEF swept, child
<1>5. /\ Append(swept, child) \in Seq(Storage) /\ Len(Append(swept, child)) = Len(frames) + 1
      /\ \A i \in 1..Len(frames) : Append(swept, child)[i] = swept[i]
      /\ Append(swept, child)[Len(frames) + 1] = child
  BY <1>3, <1>4, AppendFacts
<1>6. DOMAIN Append(swept, child)[Root] = {}
  BY <1>3, <1>5 DEF AsyncTypes, Root
<1>7. \A k \in Live : /\ k \in DOMAIN child <=> k = key \/ k \in DOMAIN frames[f]
                      /\ k = key => child[k] = value
                      /\ k # key /\ k \in DOMAIN frames[f] => child[k] = frames[f][k]
  BY <1>2, <1>4
<1> QED
  BY <1>1, <1>3, <1>5, <1>6, <1>7

(* A frame is the same for everyone who holds it.                           *)
LEMMA StoresKept ==
    ASSUME AsyncTypes, FramesKnown, [Next]_vars
    PROVE  /\ frames' \in Seq(Storage) /\ Len(frames') >= Len(frames)
           /\ DOMAIN frames'[Root] = {} /\ Len(frames) \in Nat
           /\ \A f \in 1..Len(frames) : \A k \in Live : StoreIn(f, k)' = StoreIn(f, k)
<1>0. Current \in 1..Len(frames) /\ frames \in Seq(Storage) /\ Len(frames) \in Nat
  BY CurrentKnown DEF AsyncTypes
<1>1. CASE UNCHANGED frames
  BY <1>0, <1>1 DEF AsyncTypes, StoreIn
<1>2. ASSUME /\ frames' \in Seq(Storage) /\ Len(frames') >= Len(frames)
             /\ DOMAIN frames'[Root] = {}
             /\ \A g \in 1..Len(frames) : \A k \in Live :
                   /\ k \in DOMAIN frames'[g] <=> k \in DOMAIN frames[g]
                   /\ k \in DOMAIN frames[g] => frames'[g][k] = frames[g][k]
      PROVE  /\ frames' \in Seq(Storage) /\ Len(frames') >= Len(frames)
             /\ DOMAIN frames'[Root] = {} /\ Len(frames) \in Nat
             /\ \A f \in 1..Len(frames) : \A k \in Live : StoreIn(f, k)' = StoreIn(f, k)
  BY <1>0, <1>2 DEF StoreIn
<1>3. CASE \E key \in Keys : GetStore(key)
  <2>1. frames' = [frames EXCEPT ![Current] = Alive(frames[Current])]
    BY <1>0, <1>3 DEF GetStore
  <2> QED
    BY <1>0, <1>2, <2>1, Swept
<1>4. ASSUME NEW key \in Keys, NEW value \in Values, Run(key, value)
      PROVE  /\ frames' \in Seq(Storage) /\ Len(frames') >= Len(frames)
             /\ DOMAIN frames'[Root] = {} /\ Len(frames) \in Nat
             /\ \A f \in 1..Len(frames) : \A k \in Live : StoreIn(f, k)' = StoreIn(f, k)
  <2>1. frames' = Propagate(Current, key, value)
    BY <1>4 DEF Run
  <2> QED
    BY <1>0, <1>2, <2>1, Propagated
<1> QED
  BY <1>1, <1>3, <1>4 DEF Next, vars, Script, Return, Exit, Collect, Capture, Enter, Fire,
       NewPromise, React, Settle, ReactionEnds, Values

-----------------------------------------------------------------------------
(* What each action does to the calls and the stack.                        *)

(* How deep the stack is.                                                   *)
LEMMA DepthFacts ==
    ASSUME AsyncTypes, OneFramePerCall, calls # <<>>
    PROVE  /\ Len(stack) \in Nat /\ Len(calls) \in Nat \ {0}
           /\ Len(stack) \in {Len(calls) - 1, Len(calls)}
           /\ Top.kind \in {"script", "reaction"} => Len(calls) = 1
           /\ calls[1].kind \in {"script", "scope", "reaction"}
           /\ Top \in Calls /\ Top.sees \in Sees
<1>1. Len(stack) \in Nat /\ Len(calls) \in Nat \ {0}
  BY DEF AsyncTypes
<1>2. Top \in Calls
  BY <1>1 DEF AsyncTypes, Top
<1>3. Top.kind \in {"script", "reaction"} => Len(calls) = 1
  <2>0. PICK n \in Nat \ {0} : n = Len(calls)
    BY <1>1
  <2>1. n # 1 => n \in 2..n
    OBVIOUS
  <2>2. Len(calls) # 1 => Top.kind \in {"run", "scope"}
    BY <2>0, <2>1 DEF OneFramePerCall, Top
  <2> QED
    BY <2>2
<1>4. Top.sees \in Sees
  BY <1>2 DEF Calls
<1> QED
  BY <1>1, <1>2, <1>3, <1>4 DEF OneFramePerCall

LEMMA FrameOfKnown ==
    ASSUME AsyncTypes, FramesKnown, OneFramePerCall, NEW i \in 1..Len(calls)
    PROVE  FrameOf(i) \in 1..Len(frames)
<1>1. calls # <<>>
  BY EmptyFacts
<1>2. Len(stack) \in Nat /\ Len(calls) \in Nat /\ Len(stack) \in {Len(calls) - 1, Len(calls)}
  BY <1>1, DepthFacts
<1>3. i + Len(stack) - Len(calls) \in 0..Len(stack)
  BY <1>2
<1> QED
  BY <1>2, <1>3 DEF FrameOf, FramesKnown, AsyncTypes, Root

LEMMA CurrentFrame ==
    ASSUME AsyncTypes, OneFramePerCall, Running
    PROVE  FrameOf(Len(calls)) = Current /\ Len(calls) \in 1..Len(calls)
<1>1. Len(stack) \in Nat /\ Len(calls) \in Nat \ {0}
  BY DepthFacts DEF Running
<1>2. Len(calls) + Len(stack) - Len(calls) = Len(stack)
  BY <1>1
<1>3. Len(stack) = 0 <=> stack = <<>>
  BY DEF AsyncTypes
<1> QED
  BY <1>1, <1>2, <1>3 DEF FrameOf, Current

(* A call in a job pushes frame f.                                          *)
LEMMA PushStep ==
    ASSUME AsyncTypes, OneFramePerCall, Running, NEW c \in Calls, NEW f \in Nat,
           NEW n \in Nat, n = Len(calls), c.kind \in {"run", "scope"}, calls' = Append(calls, c), stack' = Append(stack, f)
    PROVE  /\ calls' \in Seq(Calls) /\ stack' \in Seq(Nat)
           /\ OneFramePerCall' /\ calls' # <<>> /\ stack' # <<>>
           /\ Len(calls') = n + 1 /\ calls'[n + 1] = c /\ FrameOf(n + 1)' = f
           /\ \A i \in 1..n : calls'[i] = calls[i] /\ FrameOf(i)' = FrameOf(i)
<1>1. /\ Len(stack) \in Nat /\ Len(calls) \in Nat \ {0}
      /\ Len(stack) \in {Len(calls) - 1, Len(calls)}
      /\ stack \in Seq(Nat) /\ calls \in Seq(Calls)
  BY DepthFacts DEF Running, AsyncTypes
<1>2. /\ calls' \in Seq(Calls) /\ Len(calls') = n + 1 /\ calls' # <<>>
      /\ \A i \in 1..n : calls'[i] = calls[i]
      /\ calls'[n + 1] = c
  BY <1>1, AppendFacts
<1>3. /\ stack' \in Seq(Nat) /\ Len(stack') = Len(stack) + 1 /\ stack' # <<>>
      /\ \A i \in 1..Len(stack) : stack'[i] = stack[i]
      /\ stack'[Len(stack) + 1] = f
  BY <1>1, AppendFacts
<1>4. calls'[1] = calls[1]
  BY <1>1, <1>2
<1>5. OneFramePerCall'
  <2>1. \A i \in 2..Len(calls') : calls'[i].kind \in {"run", "scope"}
    BY <1>1, <1>2 DEF OneFramePerCall
  <2>2. \/ calls'[1].kind = "script" /\ Len(stack') = Len(calls') - 1
        \/ calls'[1].kind = "scope" /\ Len(stack') = Len(calls')
        \/ calls'[1].kind = "reaction" /\ Len(stack') \in {Len(calls') - 1, Len(calls')}
    BY <1>1, <1>2, <1>3, <1>4 DEF OneFramePerCall, Running
  <2> QED
    BY <1>2, <2>1, <2>2 DEF OneFramePerCall
<1>6. FrameOf(n + 1)' = f
  <2>1. n + 1 + Len(stack') - Len(calls') = Len(stack) + 1
    BY <1>1, <1>2, <1>3
  <2> QED
    BY <1>1, <1>3, <2>1 DEF FrameOf
<1>7. ASSUME NEW i \in 1..n PROVE FrameOf(i)' = FrameOf(i)
  <2>0. PICK m \in Nat : m = Len(stack) /\ m \in {n - 1, n}
    BY <1>1
  <2>1. PICK j \in 0..m : j = i + m - n
    <3>1. i + m - n \in 0..m
      BY <2>0
    <3> QED
      BY <3>1
  <2>2. j = i + Len(stack') - Len(calls') /\ j = i + Len(stack) - Len(calls)
    BY <1>2, <1>3, <2>0, <2>1
  <2>3. FrameOf(i) = IF j = 0 THEN Root ELSE stack[j]
    BY <2>2 DEF FrameOf
  <2>4. FrameOf(i)' = IF j = 0 THEN Root ELSE stack'[j]
    BY <2>2 DEF FrameOf
  <2> QED
    BY <1>3, <2>0, <2>3, <2>4
<1> QED
  BY <1>2, <1>3, <1>5, <1>6, <1>7

(* A job starts, with or without a frame.                                   *)
LEMMA StartStep ==
    ASSUME AsyncTypes, OneFramePerCall, ~Running, NEW c \in Calls,
           calls' = Append(calls, c), NEW f \in Nat,
           \/ stack' = stack /\ f = Root /\ c.kind \in {"script", "reaction"}
           \/ stack' = Append(stack, f) /\ c.kind \in {"scope", "reaction"}
    PROVE  /\ calls' \in Seq(Calls) /\ stack' \in Seq(Nat) /\ OneFramePerCall'
           /\ calls' # <<>> /\ Len(calls') = 1 /\ calls'[1] = c /\ FrameOf(1)' = f
<1>1. calls = <<>> /\ stack = <<>> /\ Len(calls) = 0 /\ Len(stack) = 0
  BY EmptyFacts DEF Running, OneFramePerCall
<1>2. calls' \in Seq(Calls) /\ Len(calls') = 1 /\ calls'[1] = c /\ calls' # <<>>
  BY <1>1, AppendFacts DEF AsyncTypes
<1>3. CASE stack' = stack /\ f = Root /\ c.kind \in {"script", "reaction"}
  BY <1>1, <1>2, <1>3 DEF OneFramePerCall, FrameOf, AsyncTypes
<1>4. CASE stack' = Append(stack, f) /\ c.kind \in {"scope", "reaction"}
  <2>1. stack' \in Seq(Nat) /\ Len(stack') = 1 /\ stack'[1] = f
    BY <1>1, <1>4, AppendFacts DEF AsyncTypes
  <2> QED
    BY <1>1, <1>2, <1>4, <2>1 DEF OneFramePerCall, FrameOf
<1> QED
  BY <1>3, <1>4

(* The innermost call ends.                                                 *)
LEMMA PopStep ==
    ASSUME AsyncTypes, OneFramePerCall, Running, NEW n \in Nat, n = Len(calls),
           HooksSetFirst, calls' = Front(calls),
           \/ Top.kind # "reaction" /\ stack' = IF Top.kind = "script" THEN stack ELSE Pop(stack)
           \/ Top.kind = "reaction" /\ stack' = IF hooksSet THEN Pop(stack) ELSE stack
    PROVE  /\ calls' \in Seq(Calls) /\ stack' \in Seq(Nat) /\ OneFramePerCall'
           /\ Len(calls') = n - 1 /\ Len(stack') \in 0..Len(stack)
           /\ \A j \in 1..Len(stack') : stack'[j] = stack[j]
           /\ \A i \in 1..(n - 1) : calls'[i] = calls[i] /\ FrameOf(i)' = FrameOf(i)
<1>1. /\ Len(calls) \in Nat \ {0} /\ n # 0
      /\ Top.kind \in {"script", "reaction"} => n = 1
      /\ calls[1].kind \in {"script", "scope", "reaction"}
      /\ Top \in Calls
      /\ stack \in Seq(Nat) /\ calls \in Seq(Calls)
  BY DepthFacts DEF Running, AsyncTypes
<1>2. PICK m \in Nat : m = Len(stack) /\ m \in {n - 1, n}
  BY DepthFacts DEF Running
<1>3. /\ calls' \in Seq(Calls) /\ Len(calls') = n - 1
      /\ \A i \in 1..(n - 1) : calls'[i] = calls[i]
  BY <1>1, FrontFacts DEF Running
<1>4. m > 0 => /\ Pop(stack) \in Seq(Nat) /\ Len(Pop(stack)) = m - 1
               /\ \A j \in 1..(m - 1) : Pop(stack)[j] = stack[j]
  <2>1. m > 0 => stack # <<>> /\ Pop(stack) = Front(stack)
    BY <1>2, EmptyFacts DEF Pop
  <2> QED
    BY <1>1, <1>2, <2>1, FrontFacts
<1>5. m = 0 => stack = <<>> /\ Pop(stack) = stack
  <2>1. m = 0 => ~(Len(stack) > 0)
    BY <1>2
  <2>2. Len(stack) = 0 => stack = <<>>
    BY <1>1
  <2> QED
    BY <1>2, <2>1, <2>2 DEF Pop
<1>6. CASE n = 1
  <2>1. Top = calls[1] /\ calls' = <<>>
    BY <1>3, <1>6 DEF Top
  <2>2. stack' = <<>>
    <3>1. CASE Top.kind = "script"
      BY <1>2, <1>5, <1>6, <2>1, <3>1 DEF OneFramePerCall, Running
    <3>2. CASE Top.kind = "scope"
      <4>1. m = 1
        BY <1>2, <1>6, <2>1, <3>2 DEF OneFramePerCall, Running
      <4>2. stack' = Pop(stack)
        BY <3>2
      <4> QED
        BY <1>4, <4>1, <4>2
    <3>3. CASE Top.kind = "reaction"
      <4>1. CASE m = 0
        BY <1>5, <3>3, <4>1
      <4>2. CASE m = 1
        <5>1. stack # <<>>
          <6>1. Len(stack) = 1
            BY <1>2, <4>2
          <6> QED
            BY <6>1, EmptyFacts
        <5>2. stack' = Pop(stack)
          BY <3>3, <5>1 DEF HooksSetFirst
        <5> QED
          BY <1>4, <4>2, <5>2
      <4> QED
        BY <1>2, <1>6, <4>1, <4>2
    <3> QED
      BY <1>1, <2>1, <3>1, <3>2, <3>3
  <2>3. OneFramePerCall'
    BY <2>1, <2>2, EmptyFacts DEF OneFramePerCall
  <2> QED
    BY <1>2, <1>3, <1>6, <2>2, <2>3, EmptyFacts
<1>7. CASE n > 1
  <2>1. Top.kind \in {"run", "scope"}
    <3>1. Top.kind \in {"script", "run", "scope", "reaction"}
      BY <1>1 DEF Calls
    <3>2. n # 1
      BY <1>7
    <3>3. Top.kind \notin {"script", "reaction"}
      BY <1>1, <3>2
    <3> QED
      BY <3>1, <3>3
  <2>2. m > 0 /\ stack' = Pop(stack)
    BY <1>2, <1>7, <2>1
  <2>3. /\ stack' \in Seq(Nat) /\ Len(stack') = m - 1
        /\ \A j \in 1..(m - 1) : stack'[j] = stack[j]
    BY <1>4, <2>2
  <2>4. calls'[1] = calls[1] /\ calls' # <<>>
    BY <1>3, <1>7, EmptyFacts
  <2>5. OneFramePerCall'
    <3>1. \A i \in 2..Len(calls') : calls'[i].kind \in {"run", "scope"}
      BY <1>3 DEF OneFramePerCall
    <3>2. \/ calls'[1].kind = "script" /\ Len(stack') = Len(calls') - 1
          \/ calls'[1].kind = "scope" /\ Len(stack') = Len(calls')
          \/ calls'[1].kind = "reaction" /\ Len(stack') \in {Len(calls') - 1, Len(calls')}
      BY <1>2, <1>3, <1>7, <2>2, <2>3, <2>4 DEF OneFramePerCall, Running
    <3> QED
      BY <2>4, <3>1, <3>2 DEF OneFramePerCall
  <2>6. ASSUME NEW i \in 1..(n - 1) PROVE FrameOf(i)' = FrameOf(i)
    <3>1. PICK j \in 0..(m - 1) : j = i + m - n
      <4>1. i + m - n \in 0..(m - 1)
        BY <1>2, <1>7
      <4> QED
        BY <4>1
    <3>2. j = i + Len(stack') - Len(calls') /\ j = i + Len(stack) - Len(calls)
      BY <1>2, <1>3, <2>3, <3>1
    <3>3. FrameOf(i) = IF j = 0 THEN Root ELSE stack[j]
      BY <3>2 DEF FrameOf
    <3>4. FrameOf(i)' = IF j = 0 THEN Root ELSE stack'[j]
      BY <3>2 DEF FrameOf
    <3> QED
      BY <2>3, <3>3, <3>4
  <2> QED
    BY <1>2, <1>3, <2>2, <2>3, <2>5, <2>6
<1> QED
  BY <1>1, <1>6, <1>7

-----------------------------------------------------------------------------
(* What a frame holds it holds for ever.                                    *)
LEMMA HoldsStep ==
    ASSUME AsyncTypes, FramesKnown, [Next]_vars
    PROVE  /\ \A f \in 1..Len(frames) : \A s \in Sees : Holds(f, s) => Holds(f, s)'
           /\ Holds(Root, Empty)'
           /\ dead' \subseteq Keys /\ hooksSet' \in BOOLEAN /\ (hooksSet => hooksSet')
<1>1. dead \subseteq dead' /\ dead' \subseteq Keys /\ hooksSet' \in BOOLEAN /\ (hooksSet => hooksSet')
  BY DEF Next, vars, Script, Return, Run, Exit, GetStore, Collect, Capture, Enter, Fire,
       NewPromise, React, Settle, ReactionEnds, AsyncTypes, Live
<1>2. Live' \subseteq Live
  BY <1>1 DEF Live
<1>3. ASSUME NEW f \in 1..Len(frames), NEW s \in Sees, Holds(f, s) PROVE Holds(f, s)'
  BY <1>2, <1>3, StoresKept DEF Holds
<1>4. Holds(Root, Empty)'
  BY StoresKept DEF Holds, StoreIn, Empty, Live
<1> QED
  BY <1>1, <1>3, <1>4

-----------------------------------------------------------------------------
(* What was bound or scheduled keeps its frame.                             *)
LEMMA CapturedStep ==
    ASSUME AsyncInv, [Next]_vars
    PROVE  captured' \in Seq(Captured) /\ CapturedSees'
<1>1. /\ AsyncTypes /\ FramesKnown /\ captured \in Seq(Captured)
      /\ Len(frames') >= Len(frames) /\ frames' \in Seq(Storage) /\ frames \in Seq(Storage)
  BY StoresKept DEF AsyncInv, AsyncTypes
<1>2. ASSUME NEW c \in 1..Len(captured), NEW r \in Captured,
             r.frame = captured[c].frame, r.sees = captured[c].sees
      PROVE  hooksSet' /\ r.frame \in 1..Len(frames') /\ Holds(r.frame, r.sees)'
  <2>1. captured[c] \in Captured
    BY <1>1
  <2>2. captured[c].sees \in Sees
    BY <2>1 DEF Captured
  <2>3. hooksSet /\ captured[c].frame \in 1..Len(frames) /\ Holds(captured[c].frame, captured[c].sees)
    BY DEF AsyncInv, CapturedSees
  <2>4. hooksSet' /\ r.frame \in 1..Len(frames')
    BY <1>1, <1>2, <2>3, HoldsStep
  <2>5. Holds(r.frame, r.sees)'
    BY <1>1, <1>2, <2>2, <2>3, HoldsStep
  <2> QED
    BY <2>4, <2>5
<1>3. CASE UNCHANGED captured
  <2>1. ASSUME NEW c \in 1..Len(captured) PROVE captured[c] \in Captured
    BY <1>1
  <2> QED
    BY <1>1, <1>2, <1>3, <2>1 DEF CapturedSees
<1>4. ASSUME NEW kind \in {"bound", "once", "interval"}, Capture(kind)
      PROVE  captured' \in Seq(Captured) /\ CapturedSees'
  <2>0. PICK f \in 1..Len(frames) : f = Current
    BY <1>1, CurrentKnown
  <2>1. PICK s \in Sees : s = Top.sees
    BY <1>4, DepthFacts DEF AsyncInv, Capture, Running
  <2>2. PICK n \in Nat : n = Len(captured)
    BY <1>1
  <2>3. PICK r : r = [kind |-> kind, frame |-> f, sees |-> s]
    OBVIOUS
  <2>a. f \in Nat
    BY <1>1
  <2>b. r \in Captured /\ r.frame = f /\ r.sees = s
    BY <2>3, <2>a DEF Captured
  <2>4. captured' = Append(captured, r) /\ hooksSet'
    BY <1>4, <2>0, <2>1, <2>3 DEF Capture
  <2>5. /\ captured' \in Seq(Captured) /\ Len(captured') = n + 1
        /\ \A i \in 1..n : captured'[i] = captured[i]
        /\ captured'[n + 1] = r
    BY <1>1, <2>2, <2>4, <2>b, AppendFacts
  <2>6. Holds(f, s)
    BY <1>1, <1>4, <2>0, <2>1, CurrentFrame DEF AsyncInv, CallsSee, Capture, Top
  <2>7. Holds(f, s)' /\ f \in 1..Len(frames')
    BY <1>1, <2>6, HoldsStep
  <2>8. ASSUME NEW c \in 1..n PROVE captured[c] \in Captured
    BY <1>1, <2>2
  <2>9. ASSUME NEW c \in 1..n
        PROVE  hooksSet' /\ captured'[c].frame \in 1..Len(frames')
                 /\ Holds(captured[c].frame, captured[c].sees)'
    BY <1>2, <2>2, <2>5, <2>8
  <2> QED
    BY <2>4, <2>5, <2>7, <2>9, <2>b DEF CapturedSees
<1>5. ASSUME NEW c \in DOMAIN captured, Fire(c)
      PROVE  captured' \in Seq(Captured) /\ CapturedSees'
  <2>1. c \in 1..Len(captured) /\ captured[c] \in Captured
    BY <1>1
  <2>2. PICK r : r = [captured[c] EXCEPT !.kind = IF @ = "once" THEN "fired" ELSE @]
    OBVIOUS
  <2>3. r \in Captured /\ r.frame = captured[c].frame /\ r.sees = captured[c].sees
    BY <2>1, <2>2 DEF Captured
  <2>4. captured' = [captured EXCEPT ![c] = r]
    BY <1>5, <2>2 DEF Fire
  <2>5. /\ captured' \in Seq(Captured) /\ Len(captured') = Len(captured)
        /\ \A i \in 1..Len(captured) : captured'[i] = IF i = c THEN r ELSE captured[i]
    BY <1>1, <2>1, <2>3, <2>4, ReplaceFacts
  <2>6. ASSUME NEW i \in 1..Len(captured) PROVE captured[i] \in Captured
    BY <1>1
  <2> QED
    BY <1>2, <2>3, <2>5, <2>6 DEF CapturedSees
<1> QED
  BY <1>3, <1>4, <1>5 DEF Next, vars, Script, Return, Run, Exit, GetStore, Collect, Enter,
       NewPromise, React, Settle, ReactionEnds

-----------------------------------------------------------------------------
(* Contexts are kept only once the hooks are set, and the resolve hook      *)
(* keeps one for what is rejected in a context.                             *)
LEMMA ResolveFacts ==
    ASSUME AsyncTypes, FramesKnown, HooksSetFirst,
           NEW ctx \in 0..Len(frames), ctx # 0 => hooksSet,
           NEW state \in {"pending", "fulfilled", "rejected"}
    PROVE  /\ Current # Root => hooksSet
           /\ OnResolve(ctx, state) \in 0..Len(frames)
           /\ OnResolve(ctx, state) # 0 => hooksSet
           /\ ctx # 0 => OnResolve(ctx, state) = ctx
           /\ Current # Root /\ state = "rejected" => OnResolve(ctx, state) # 0
<1>1. Current \in 1..Len(frames)
  BY CurrentKnown
<1>2. Current # Root => hooksSet
  BY DEF Current, HooksSetFirst
<1> QED
  BY <1>1, <1>2 DEF OnResolve

LEMMA PromiseKept ==
    ASSUME AsyncTypes, FramesKnown, [Next]_vars
    PROVE  \A r \in Promise : PromiseSees(r) => PromiseSees(r)'
<1> SUFFICES ASSUME NEW r \in Promise, PromiseSees(r) PROVE PromiseSees(r)'
  OBVIOUS
<1>1. PICK f : f = IF r.ctx = 0 THEN Root ELSE r.ctx
  OBVIOUS
<1>2. frames' \in Seq(Storage) /\ Len(frames') >= Len(frames) /\ Len(frames) \in Nat
      /\ Len(frames') \in Nat /\ Root \in 1..Len(frames)
  BY StoresKept DEF AsyncTypes, Root
<1>3. r.ctx \in 0..Len(frames) /\ r.sees \in Sees
  BY DEF PromiseSees, Promise
<1>4. f \in 1..Len(frames)
  BY <1>1, <1>2, <1>3
<1>5. Holds(f, r.sees) => Holds(f, r.sees)'
  BY <1>3, <1>4, HoldsStep
<1>6. r.ctx \in 0..Len(frames') /\ (r.ctx # 0 => hooksSet')
  BY <1>2, <1>3, HoldsStep DEF PromiseSees
<1> QED
  BY <1>1, <1>5, <1>6 DEF PromiseSees

(* One promise changes, or one is made.                                     *)
LEMMA PromiseReplaced ==
    ASSUME AsyncTypes, FramesKnown, PromisesSee, [Next]_vars,
           NEW p \in 1..Len(promises), NEW r \in Promise, PromiseSees(r),
           promises' = [promises EXCEPT ![p] = r]
    PROVE  /\ promises' \in Seq(Promise) /\ PromisesSee' /\ Len(promises') = Len(promises)
           /\ \A q \in 1..Len(promises) : promises'[q] = IF q = p THEN r ELSE promises[q]
<1>1. promises \in Seq(Promise)
  BY DEF AsyncTypes
<1>2. /\ promises' \in Seq(Promise) /\ Len(promises') = Len(promises)
      /\ \A q \in 1..Len(promises) : promises'[q] = IF q = p THEN r ELSE promises[q]
  BY <1>1, ReplaceFacts
<1>3. ASSUME NEW q \in 1..Len(promises) PROVE promises[q] \in Promise
  BY <1>1
<1>4. \A q \in 1..Len(promises') : PromiseSees(promises[q])'
  BY <1>2, <1>3, PromiseKept DEF PromisesSee
<1> QED
  BY <1>2, <1>4 DEF PromisesSee

LEMMA PromiseAdded ==
    ASSUME AsyncTypes, FramesKnown, PromisesSee, [Next]_vars,
           NEW r \in Promise, PromiseSees(r), NEW n \in Nat, n = Len(promises),
           promises' = Append(promises, r)
    PROVE  /\ promises' \in Seq(Promise) /\ PromisesSee' /\ Len(promises') = n + 1
           /\ promises'[n + 1] = r
           /\ \A q \in 1..n : promises'[q] = promises[q]
<1>1. promises \in Seq(Promise)
  BY DEF AsyncTypes
<1>2. /\ promises' \in Seq(Promise) /\ Len(promises') = n + 1 /\ promises'[n + 1] = r
      /\ \A q \in 1..n : promises'[q] = promises[q]
  BY <1>1, AppendFacts
<1>3. ASSUME NEW q \in 1..n PROVE promises[q] \in Promise
  BY <1>1
<1>4. \A q \in 1..Len(promises') : PromiseSees(promises[q])'
  BY <1>2, <1>3, PromiseKept DEF PromisesSee
<1> QED
  BY <1>2, <1>4 DEF PromisesSee

(* What NewPromise, Settle, React and ReactionEnds make of a promise.       *)
LEMMA MadePromise ==
    ASSUME AsyncInv, NEW on \in Nat, NewPromise(on)
    PROVE  \E r \in Promise : PromiseSees(r) /\ ~r.ran /\ promises' = Append(promises, r)
<1>1. AsyncTypes /\ FramesKnown /\ OneFramePerCall /\ CallsSee /\ HooksSetFirst /\ Running
  BY DEF AsyncInv, NewPromise
<1>2. PICK s \in Sees : s = Top.sees
  BY <1>1, DepthFacts DEF Running
<1>3. PICK f \in 1..Len(frames) : f = Current
  BY <1>1, CurrentKnown
<1>4. Len(frames) \in Nat /\ f \in Nat /\ f # 0
  BY <1>1 DEF AsyncTypes
<1>5. Holds(f, s)
  BY <1>1, <1>2, <1>3, CurrentFrame DEF CallsSee, Top
<1>6. PICK ctx \in 0..Len(frames) : ctx = OnInit
  BY <1>3, <1>4 DEF OnInit
<1>7. f = Root \/ hooksSet
  BY <1>1, <1>3 DEF Current, HooksSetFirst
<1>8. (ctx # 0 => hooksSet) /\ f = IF ctx = 0 THEN Root ELSE ctx
  BY <1>3, <1>4, <1>6, <1>7 DEF OnInit
<1>9. PICK r : r = [ctx |-> ctx, state |-> "pending", on |-> on, ran |-> FALSE,
                    sees |-> s, strayed |-> FALSE]
  OBVIOUS
<1>10. r \in Promise
  BY <1>4, <1>9 DEF Promise
<1>11. PromiseSees(r) /\ ~r.ran
  BY <1>5, <1>8, <1>9 DEF PromiseSees
<1> QED
  BY <1>2, <1>6, <1>9, <1>10, <1>11 DEF NewPromise

LEMMA SettledPromise ==
    ASSUME AsyncInv, NEW p \in 1..Len(promises), NEW state \in {"fulfilled", "rejected"},
           Settle(p, state)
    PROVE  \E r \in Promise : /\ PromiseSees(r) /\ ~r.ran
                              /\ promises' = [promises EXCEPT ![p] = r]
<1>1. AsyncTypes /\ FramesKnown /\ HooksSetFirst /\ PromiseSees(promises[p])
      /\ promises[p] \in Promise
  BY DEF AsyncInv, AsyncTypes, PromisesSee
<1>2. promises[p].ctx \in 0..Len(frames) /\ (promises[p].ctx # 0 => hooksSet)
  BY <1>1 DEF PromiseSees
<1>3. PICK ctx : ctx = OnResolve(promises[p].ctx, state)
  OBVIOUS
<1>4. /\ ctx \in 0..Len(frames) /\ (ctx # 0 => hooksSet)
      /\ Current # Root /\ state = "rejected" => ctx # 0
  BY <1>1, <1>2, <1>3, ResolveFacts
<1>5. ctx \in Nat
  BY <1>1, <1>4 DEF AsyncTypes
<1>6. PICK strayed \in BOOLEAN : strayed = (Current # Root /\ state = "rejected")
  OBVIOUS
<1>7. PICK r : r = [promises[p] EXCEPT !.state = state, !.ctx = ctx, !.strayed = strayed]
  OBVIOUS
<1>8. /\ r \in Promise /\ r.ctx = ctx /\ r.strayed = strayed
      /\ r.on = promises[p].on /\ r.ran = promises[p].ran
  BY <1>1, <1>5, <1>7 DEF Promise
<1>9. promises[p].on = 0 /\ ~promises[p].ran
  BY <1>1 DEF Settle, PromiseSees
<1>10. PromiseSees(r) /\ ~r.ran
  BY <1>4, <1>6, <1>8, <1>9 DEF PromiseSees
<1>11. promises' = [promises EXCEPT ![p] = r]
  BY <1>1, <1>3, <1>6, <1>7 DEF Settle, AsyncTypes
<1> QED
  BY <1>8, <1>10, <1>11

LEMMA ReactedPromise ==
    ASSUME AsyncInv, NEW p \in 1..Len(promises), React(p)
    PROVE  \E r \in Promise : /\ PromiseSees(r) /\ r.ran
                              /\ promises' = [promises EXCEPT ![p] = r]
<1>1. PromiseSees(promises[p]) /\ promises[p] \in Promise
  BY DEF AsyncInv, AsyncTypes, PromisesSee
<1>2. PICK r : r = [promises[p] EXCEPT !.ran = TRUE]
  OBVIOUS
<1>3. /\ r \in Promise /\ r.ctx = promises[p].ctx /\ r.strayed = promises[p].strayed
      /\ r.on = promises[p].on /\ r.ran
  BY <1>1, <1>2 DEF Promise
<1>4. PromiseSees(r)
  BY <1>1, <1>3 DEF PromiseSees, React
<1>5. promises' = [promises EXCEPT ![p] = r]
  BY <1>1, <1>2 DEF React, AsyncInv, AsyncTypes
<1> QED
  BY <1>3, <1>4, <1>5

LEMMA EndedPromise ==
    ASSUME AsyncInv, NEW state \in {"pending", "fulfilled", "rejected"}, ReactionEnds(state)
    PROVE  \E p \in 1..Len(promises), r \in Promise :
               /\ calls[1].kind = "reaction" /\ p = calls[1].of /\ Len(calls) = 1
               /\ PromiseSees(r) /\ r.ran
               /\ r.state # "rejected" => r.ctx = 0
               /\ promises' = [promises EXCEPT ![p] = r]
<1>1. AsyncTypes /\ FramesKnown /\ HooksSetFirst /\ OneFramePerCall /\ Running
      /\ Top.kind = "reaction"
  BY DEF AsyncInv, ReactionEnds
<1>2. Len(calls) = 1 /\ Top = calls[1]
  BY <1>1, DepthFacts DEF Running, Top
<1>3. PICK p \in 1..Len(promises) : p = Top.of /\ promises[p].ran
  BY <1>1, <1>2 DEF AsyncInv, ContextsReleased
<1>4. PromiseSees(promises[p]) /\ promises[p] \in Promise
  BY DEF AsyncInv, AsyncTypes, PromisesSee
<1>5. promises[p].ctx \in 0..Len(frames) /\ (promises[p].ctx # 0 => hooksSet)
  BY <1>4 DEF PromiseSees
<1>6. PICK kept : kept = IF state = "pending" THEN promises[p].ctx
                         ELSE OnResolve(promises[p].ctx, state)
  OBVIOUS
<1>7. /\ kept \in 0..Len(frames) /\ (kept # 0 => hooksSet)
      /\ Current # Root /\ state = "rejected" => kept # 0
  BY <1>1, <1>5, <1>6, ResolveFacts
<1>8. PICK ctx : ctx = OnAfter(kept, state)
  OBVIOUS
<1>9. /\ ctx \in 0..Len(frames) /\ (ctx # 0 => hooksSet)
      /\ state # "rejected" => ctx = 0
      /\ Current # Root /\ state = "rejected" => ctx # 0
  BY <1>1, <1>7, <1>8 DEF OnAfter, AsyncTypes
<1>10. ctx \in Nat
  BY <1>1, <1>9 DEF AsyncTypes
<1>11. PICK strayed \in BOOLEAN : strayed = (Current # Root /\ state = "rejected")
  OBVIOUS
<1>12. PICK r : r = [promises[p] EXCEPT !.state = state, !.ctx = ctx, !.strayed = strayed]
  OBVIOUS
<1>13. /\ r \in Promise /\ r.ctx = ctx /\ r.strayed = strayed /\ r.state = state
       /\ r.on = promises[p].on /\ r.ran = promises[p].ran
  BY <1>4, <1>10, <1>12 DEF Promise
<1>14. PromiseSees(r) /\ r.ran
  BY <1>3, <1>4, <1>9, <1>11, <1>13 DEF PromiseSees
<1>15. promises' = [promises EXCEPT ![p] = r]
  BY <1>1, <1>3, <1>4, <1>6, <1>8, <1>11, <1>12 DEF ReactionEnds, AsyncTypes
<1> QED
  BY <1>1, <1>2, <1>3, <1>9, <1>13, <1>14, <1>15

LEMMA PromisesStep ==
    ASSUME AsyncInv, [Next]_vars
    PROVE  promises' \in Seq(Promise) /\ PromisesSee'
<1>1. AsyncTypes /\ FramesKnown /\ PromisesSee /\ promises \in Seq(Promise)
  BY DEF AsyncInv, AsyncTypes
<1>2. CASE UNCHANGED promises
  <2>1. ASSUME NEW q \in 1..Len(promises) PROVE promises[q] \in Promise
    BY <1>1
  <2>2. \A q \in 1..Len(promises') : PromiseSees(promises[q])'
    BY <1>1, <1>2, <2>1, PromiseKept DEF PromisesSee
  <2> QED
    BY <1>1, <1>2, <2>2 DEF PromisesSee
<1>3. ASSUME NEW on \in {0} \cup DOMAIN promises, NewPromise(on)
      PROVE  promises' \in Seq(Promise) /\ PromisesSee'
  <2>1. on \in Nat /\ Len(promises) \in Nat
    BY <1>1
  <2>2. PICK r \in Promise : PromiseSees(r) /\ promises' = Append(promises, r)
    BY <1>3, <2>1, MadePromise
  <2> QED
    BY <1>1, <2>1, <2>2, PromiseAdded
<1>4. ASSUME NEW p \in DOMAIN promises, NEW state \in {"fulfilled", "rejected"}, Settle(p, state)
      PROVE  promises' \in Seq(Promise) /\ PromisesSee'
  <2>1. p \in 1..Len(promises)
    BY <1>1
  <2>2. PICK r \in Promise : PromiseSees(r) /\ promises' = [promises EXCEPT ![p] = r]
    BY <1>4, <2>1, SettledPromise
  <2> QED
    BY <1>1, <2>1, <2>2, PromiseReplaced
<1>5. ASSUME NEW p \in DOMAIN promises, React(p)
      PROVE  promises' \in Seq(Promise) /\ PromisesSee'
  <2>1. p \in 1..Len(promises)
    BY <1>1
  <2>2. PICK r \in Promise : PromiseSees(r) /\ promises' = [promises EXCEPT ![p] = r]
    BY <1>5, <2>1, ReactedPromise
  <2> QED
    BY <1>1, <2>1, <2>2, PromiseReplaced
<1>6. ASSUME NEW state \in {"pending", "fulfilled", "rejected"}, ReactionEnds(state)
      PROVE  promises' \in Seq(Promise) /\ PromisesSee'
  <2>1. PICK p \in 1..Len(promises), r \in Promise :
            PromiseSees(r) /\ promises' = [promises EXCEPT ![p] = r]
    BY <1>6, EndedPromise
  <2> QED
    BY <1>1, <2>1, PromiseReplaced
<1> QED
  BY <1>2, <1>3, <1>4, <1>5, <1>6 DEF Next, vars, Script, Return, Run, Exit, GetStore,
       Collect, Capture, Enter, Fire

-----------------------------------------------------------------------------
(* The calls under way, and the stack under them.                           *)
LEMMA CallKept ==
    ASSUME AsyncInv, [Next]_vars, NEW i \in 1..Len(calls),
           calls'[i] = calls[i], FrameOf(i)' = FrameOf(i)
    PROVE  Holds(FrameOf(i), calls[i].sees)'
<1>1. PICK f \in 1..Len(frames) : f = FrameOf(i) /\ f = FrameOf(i)'
  BY FrameOfKnown DEF AsyncInv
<1>2. calls[i] \in Calls
  BY DEF AsyncInv, AsyncTypes
<1>3. PICK s \in Sees : s = calls[i].sees /\ s = calls'[i].sees
  BY <1>2 DEF Calls
<1>4. Holds(f, s)
  BY <1>1, <1>3 DEF AsyncInv, CallsSee
<1>5. Holds(f, s)'
  BY <1>4, HoldsStep DEF AsyncInv
<1> QED
  BY <1>1, <1>3, <1>5

CallsOK ==
    /\ calls \in Seq(Calls) /\ stack \in Seq(Nat)
    /\ FramesKnown /\ OneFramePerCall /\ HooksSetFirst /\ CallsSee

(* A call in a job: its frame holds what it was promised.                   *)
LEMMA CallsAfterPush ==
    ASSUME AsyncInv, [Next]_vars, Running, NEW c \in Calls, NEW f \in 1..Len(frames'),
           c.kind \in {"run", "scope"}, calls' = Append(calls, c), stack' = Append(stack, f),
           hooksSet', Holds(f, c.sees)'
    PROVE  CallsOK'
<1>1. /\ AsyncTypes /\ FramesKnown /\ OneFramePerCall
      /\ frames' \in Seq(Storage) /\ Len(frames') >= Len(frames) /\ f \in Nat
      /\ Len(frames') \in Nat /\ Len(frames) \in Nat
  BY StoresKept DEF AsyncInv
<1>2. PICK n \in Nat : n = Len(calls)
  BY <1>1 DEF AsyncTypes
<1>3. /\ calls' \in Seq(Calls) /\ stack' \in Seq(Nat)
      /\ OneFramePerCall'
      /\ Len(calls') = n + 1 /\ calls'[n + 1] = c /\ FrameOf(n + 1)' = f
      /\ \A i \in 1..n : calls'[i] = calls[i] /\ FrameOf(i)' = FrameOf(i)
  BY <1>1, <1>2, PushStep
<1>4. FramesKnown'
  <2>1. PICK m \in Nat : m = Len(stack)
    BY <1>1 DEF AsyncTypes
  <2>2. Len(stack') = m + 1 /\ stack'[m + 1] = f /\ \A i \in 1..m : stack'[i] = stack[i]
    BY <1>1, <2>1, AppendFacts DEF AsyncTypes
  <2>3. \A i \in 1..m : stack[i] \in 1..Len(frames')
    BY <1>1, <2>1 DEF FramesKnown
  <2> QED
    BY <2>2, <2>3 DEF FramesKnown
<1>5. ASSUME NEW i \in 1..(n + 1) PROVE Holds(FrameOf(i), calls[i].sees)'
  <2>1. CASE i = n + 1
    <3>1. FrameOf(i)' = f /\ calls'[i].sees = c.sees
      BY <1>3, <2>1
    <3> QED
      BY <3>1
  <2>2. CASE i \in 1..n
    BY <1>2, <1>3, <2>2, CallKept
  <2> QED
    BY <1>2, <2>1, <2>2
<1> QED
  BY <1>3, <1>4, <1>5 DEF CallsOK, CallsSee, HooksSetFirst

(* A job starts.                                                            *)
LEMMA CallsAfterStart ==
    ASSUME AsyncInv, [Next]_vars, ~Running, NEW c \in Calls, NEW f \in 1..Len(frames'),
           calls' = Append(calls, c),
           \/ stack' = stack /\ f = Root /\ c.kind \in {"script", "reaction"}
           \/ stack' = Append(stack, f) /\ c.kind \in {"scope", "reaction"} /\ hooksSet',
           Holds(f, c.sees)'
    PROVE  CallsOK'
<1>1. /\ AsyncTypes /\ OneFramePerCall
      /\ frames' \in Seq(Storage) /\ f \in Nat
  BY StoresKept DEF AsyncInv
<1>2. /\ calls' \in Seq(Calls) /\ stack' \in Seq(Nat) /\ OneFramePerCall'
      /\ Len(calls') = 1 /\ calls'[1] = c /\ FrameOf(1)' = f
  BY <1>1, StartStep
<1>3. stack = <<>>
  BY <1>1 DEF Running, OneFramePerCall
<1>4. FramesKnown' /\ HooksSetFirst'
  <2>1. CASE stack' = stack
    BY <1>3, <2>1, EmptyFacts DEF FramesKnown, HooksSetFirst
  <2>2. CASE stack' = Append(stack, f) /\ hooksSet'
    <3>1. Len(stack') = 1 /\ stack'[1] = f
      BY <1>1, <1>3, <2>2, AppendFacts, EmptyFacts
    <3> QED
      BY <2>2, <3>1 DEF FramesKnown, HooksSetFirst
  <2> QED
    BY <2>1, <2>2
<1>5. CallsSee'
  BY <1>2 DEF CallsSee
<1> QED
  BY <1>2, <1>4, <1>5 DEF CallsOK

(* The innermost call ends.                                                 *)
LEMMA CallsAfterPop ==
    ASSUME AsyncInv, [Next]_vars, Running, calls' = Front(calls), UNCHANGED hooksSet,
           \/ Top.kind # "reaction" /\ stack' = IF Top.kind = "script" THEN stack ELSE Pop(stack)
           \/ Top.kind = "reaction" /\ stack' = IF hooksSet THEN Pop(stack) ELSE stack
    PROVE  CallsOK'
<1>1. /\ AsyncTypes /\ FramesKnown /\ OneFramePerCall /\ HooksSetFirst
      /\ frames' \in Seq(Storage) /\ Len(frames') >= Len(frames)
      /\ Len(frames') \in Nat /\ Len(frames) \in Nat
      /\ Len(stack) \in Nat
  BY StoresKept DEF AsyncInv, AsyncTypes
<1>2. PICK n \in Nat : n = Len(calls)
  BY <1>1 DEF AsyncTypes
<1>3. /\ calls' \in Seq(Calls) /\ stack' \in Seq(Nat) /\ OneFramePerCall'
      /\ Len(calls') = n - 1 /\ Len(stack') \in 0..Len(stack)
      /\ \A j \in 1..Len(stack') : stack'[j] = stack[j]
      /\ \A i \in 1..(n - 1) : calls'[i] = calls[i] /\ FrameOf(i)' = FrameOf(i)
  BY <1>1, <1>2, PopStep
<1>4. FramesKnown'
  BY <1>1, <1>3 DEF FramesKnown
<1>5. HooksSetFirst'
  <2>1. stack = <<>> => Len(stack') = 0
    BY <1>3, EmptyFacts
  <2>2. Len(stack') = 0 => stack' = <<>>
    BY <1>3
  <2> QED
    BY <1>1, <2>1, <2>2 DEF HooksSetFirst
<1>6. ASSUME NEW i \in 1..(n - 1) PROVE Holds(FrameOf(i), calls[i].sees)'
  <2>1. i \in 1..Len(calls) /\ calls'[i] = calls[i] /\ FrameOf(i)' = FrameOf(i)
    BY <1>2, <1>3
  <2> QED
    BY <2>1, CallKept
<1> QED
  BY <1>3, <1>4, <1>5, <1>6 DEF CallsOK, CallsSee

(* The frame of run holds the given store and what its caller sees.         *)
LEMMA RunFrame ==
    ASSUME AsyncInv, NEW key \in Keys, NEW store \in Values, Run(key, store),
           NEW s \in Sees, s = [Top.sees EXCEPT ![key] = store], NEW n \in Nat, n = Len(frames)
    PROVE  Holds(n + 1, s)' /\ n + 1 \in 1..Len(frames')
<1>1. AsyncTypes /\ FramesKnown /\ OneFramePerCall /\ CallsSee /\ Running
  BY DEF AsyncInv, Run, CanCall
<1>2. PICK f \in 1..Len(frames) : f = Current
  BY <1>1, CurrentKnown
<1>3. PICK old \in Sees : old = Top.sees
  BY <1>1, DepthFacts DEF Running
<1>4. Holds(f, old)
  BY <1>1, <1>2, <1>3, CurrentFrame DEF CallsSee, Top
<1>5. frames' = Propagate(f, key, store) /\ dead' = dead
  BY <1>2 DEF Run
<1>6. /\ Len(frames') = n + 1
      /\ \A k \in Live : /\ k \in DOMAIN frames'[n + 1] <=> k = key \/ k \in DOMAIN frames[f]
                         /\ k = key => frames'[n + 1][k] = store
                         /\ k # key /\ k \in DOMAIN frames[f] => frames'[n + 1][k] = frames[f][k]
  BY <1>1, <1>5, Propagated
<1>7. \A k \in Live : s[k] = IF k = key THEN store ELSE old[k]
  BY <1>3 DEF Live, Sees
<1>8. \A k \in Live : StoreIn(n + 1, k)' = s[k]
  BY <1>4, <1>6, <1>7 DEF Holds, StoreIn
<1> QED
  BY <1>5, <1>6, <1>8 DEF Holds, Live

LEMMA CallsStep ==
    ASSUME AsyncInv, [Next]_vars
    PROVE  CallsOK'
<1>1. /\ AsyncTypes /\ FramesKnown /\ OneFramePerCall /\ HooksSetFirst
      /\ frames' \in Seq(Storage) /\ Len(frames') >= Len(frames) /\ Len(frames) > 0
      /\ Len(frames') \in Nat /\ Len(frames) \in Nat
      /\ hooksSet => hooksSet'
  BY StoresKept, HoldsStep DEF AsyncInv, AsyncTypes
<1>2. CASE UNCHANGED <<calls, stack>>
  <2>1. CallsSee'
    <3>1. ASSUME NEW i \in 1..Len(calls) PROVE Holds(FrameOf(i), calls[i].sees)'
      <4>1. calls'[i] = calls[i] /\ FrameOf(i)' = FrameOf(i)
        BY <1>2 DEF FrameOf
      <4> QED
        BY <4>1, CallKept
    <3> QED
      BY <1>2, <3>1 DEF CallsSee
  <2>2. calls' \in Seq(Calls) /\ stack' \in Seq(Nat) /\ OneFramePerCall' /\ HooksSetFirst'
    BY <1>1, <1>2 DEF AsyncTypes, OneFramePerCall, HooksSetFirst
  <2>3. FramesKnown'
    BY <1>1, <1>2 DEF FramesKnown
  <2> QED
    BY <2>1, <2>2, <2>3 DEF CallsOK
<1>3. CASE Script
  <2>1. PICK c : c = [kind |-> "script", of |-> 0, sees |-> Empty]
    OBVIOUS
  <2>2. c \in Calls /\ c.kind = "script" /\ c.sees = Empty
    BY <2>1 DEF Calls, Sees, Empty, Values
  <2>3. calls' = Append(calls, c) /\ stack' = stack /\ ~Running
    BY <1>3, <2>1 DEF Script, Call
  <2>4. Holds(Root, c.sees)'
    BY <1>1, <2>2, HoldsStep DEF Empty
  <2>5. Root \in 1..Len(frames')
    BY <1>1 DEF Root
  <2> QED
    BY <2>2, <2>3, <2>4, <2>5, CallsAfterStart
<1>4. ASSUME NEW key \in Keys, NEW store \in Values, Run(key, store) PROVE CallsOK'
  <2>1. Running
    BY <1>4 DEF Run, CanCall
  <2>2. PICK s \in Sees : s = [Top.sees EXCEPT ![key] = store]
    BY <1>1, <2>1, DepthFacts DEF Running, Sees
  <2>3. PICK n \in Nat : n = Len(frames)
    BY <1>1
  <2>4. Holds(n + 1, s)' /\ n + 1 \in 1..Len(frames')
    BY <1>4, <2>2, <2>3, RunFrame
  <2>5. PICK c : c = [kind |-> "run", of |-> 0, sees |-> s]
    OBVIOUS
  <2>6. c \in Calls /\ c.kind = "run" /\ c.sees = s
    BY <2>5 DEF Calls
  <2>7. calls' = Append(calls, c) /\ stack' = Append(stack, n + 1) /\ hooksSet'
    BY <1>4, <2>2, <2>3, <2>5 DEF Run, Call, Push
  <2> QED
    BY <2>1, <2>4, <2>6, <2>7, CallsAfterPush
<1>5. ASSUME NEW x \in DOMAIN captured, Enter(x) \/ Fire(x) PROVE CallsOK'
  <2>1. x \in 1..Len(captured) /\ captured[x] \in Captured /\ x \in Nat
    BY <1>1 DEF AsyncTypes
  <2>2. PICK s \in Sees : s = captured[x].sees
    BY <2>1 DEF Captured
  <2>3. PICK f \in 1..Len(frames) : f = captured[x].frame
    BY <2>1 DEF AsyncInv, CapturedSees
  <2>4. Holds(f, s) /\ hooksSet
    BY <2>1, <2>2, <2>3 DEF AsyncInv, CapturedSees
  <2>5. Holds(f, s)' /\ f \in 1..Len(frames') /\ hooksSet'
    BY <1>1, <2>4, HoldsStep
  <2>6. PICK c : c = [kind |-> "scope", of |-> x, sees |-> s]
    OBVIOUS
  <2>7. c \in Calls /\ c.kind = "scope" /\ c.sees = s
    BY <2>1, <2>6 DEF Calls
  <2>8. calls' = Append(calls, c) /\ stack' = Append(stack, f)
    BY <1>5, <2>2, <2>3, <2>6 DEF Enter, Fire, Call, Push
  <2>9. CASE Running
    BY <2>5, <2>7, <2>8, <2>9, CallsAfterPush
  <2>10. CASE ~Running
    BY <2>5, <2>7, <2>8, <2>10, CallsAfterStart
  <2> QED
    BY <2>9, <2>10
<1>6. ASSUME NEW p \in DOMAIN promises, React(p) PROVE CallsOK'
  <2>1. p \in 1..Len(promises) /\ promises[p] \in Promise /\ p \in Nat
    BY <1>1 DEF AsyncTypes
  <2>2. PICK s \in Sees : s = promises[p].sees
    BY <2>1 DEF Promise
  <2>3. PromiseSees(promises[p]) /\ promises[p].on # 0 /\ ~promises[p].ran
    BY <1>6, <2>1 DEF AsyncInv, PromisesSee, React
  <2>4. PICK f : f = IF promises[p].ctx = 0 THEN Root ELSE promises[p].ctx
    OBVIOUS
  <2>5. f \in 1..Len(frames) /\ Holds(f, s) /\ (promises[p].ctx # 0 => hooksSet)
    BY <1>1, <2>2, <2>3, <2>4 DEF PromiseSees, Root
  <2>6. Holds(f, s)' /\ f \in 1..Len(frames')
    BY <1>1, <2>5, HoldsStep
  <2>7. PICK c : c = [kind |-> "reaction", of |-> p, sees |-> s]
    OBVIOUS
  <2>8. c \in Calls /\ c.kind = "reaction" /\ c.sees = s
    BY <2>1, <2>7 DEF Calls
  <2>9. calls' = Append(calls, c) /\ ~Running /\ UNCHANGED hooksSet /\ stack' = OnBefore(p)
    BY <1>6, <2>2, <2>7 DEF React, Call
  <2>10. \/ stack' = stack /\ f = Root
         \/ stack' = Append(stack, f) /\ hooksSet'
    BY <2>4, <2>5, <2>9 DEF OnBefore, Push
  <2> QED
    BY <2>6, <2>8, <2>9, <2>10, CallsAfterStart
<1>7. CASE Return
  BY <1>7, CallsAfterPop DEF Return
<1>8. ASSUME NEW state \in {"pending", "fulfilled", "rejected"}, ReactionEnds(state)
      PROVE  CallsOK'
  <2>1. /\ Running /\ Top.kind = "reaction" /\ calls' = Front(calls) /\ UNCHANGED hooksSet
        /\ stack' = IF hooksSet THEN Pop(stack) ELSE stack
    BY <1>8 DEF ReactionEnds
  <2> QED
    BY <2>1, CallsAfterPop
<1> QED
  BY <1>2, <1>3, <1>4, <1>5, <1>6, <1>7, <1>8 DEF Next, vars, Exit, GetStore, Collect,
       Capture, NewPromise, Settle, Values

-----------------------------------------------------------------------------
(* Contexts of promises that reactions settled are let go.                  *)
LEMMA ReleasedStep ==
    ASSUME AsyncInv, [Next]_vars
    PROVE  ContextsReleased'
<1>1. /\ AsyncTypes /\ FramesKnown /\ OneFramePerCall /\ PromisesSee /\ ContextsReleased
      /\ HooksSetFirst /\ calls \in Seq(Calls) /\ promises \in Seq(Promise)
  BY DEF AsyncInv, AsyncTypes
<1>2. CASE UNCHANGED <<calls, promises>>
  BY <1>1, <1>2 DEF ContextsReleased, Reacting, Running
<1>3. ASSUME UNCHANGED promises, calls' # <<>>, calls'[1] = calls[1], Running
      PROVE  ContextsReleased'
  BY <1>1, <1>3 DEF ContextsReleased, Reacting, Running
<1>4. ASSUME UNCHANGED promises, ~(Running /\ calls[1].kind = "reaction"),
             calls' = <<>> \/ calls'[1].kind # "reaction"
      PROVE  ContextsReleased'
  BY <1>1, <1>4 DEF ContextsReleased, Reacting, Running
<1>5. ASSUME NEW c \in Calls, calls' = Append(calls, c), Running, UNCHANGED promises
      PROVE  ContextsReleased'
  <2>1. calls' # <<>> /\ calls'[1] = calls[1]
    BY <1>1, <1>5, AppendFacts DEF Running
  <2> QED
    BY <1>3, <1>5, <2>1
<1>6. ASSUME NEW c \in Calls, calls' = Append(calls, c), ~Running, UNCHANGED promises,
             c.kind # "reaction"
      PROVE  ContextsReleased'
  <2>1. calls'[1] = c
    BY <1>1, <1>6, AppendFacts, EmptyFacts DEF Running
  <2> QED
    BY <1>4, <1>6, <2>1
<1>7. CASE Script
  <2>1. PICK c : c = [kind |-> "script", of |-> 0, sees |-> Empty]
    OBVIOUS
  <2>2. c \in Calls /\ c.kind = "script"
    BY <2>1 DEF Calls, Sees, Empty, Values
  <2> QED
    BY <1>6, <1>7, <2>1, <2>2 DEF Script, Call
<1>8. ASSUME NEW key \in Keys, NEW store \in Values, Run(key, store) PROVE ContextsReleased'
  <2>1. Running /\ UNCHANGED promises
    BY <1>8 DEF Run, CanCall
  <2>2. PICK s \in Sees : s = [Top.sees EXCEPT ![key] = store]
    BY <1>1, <2>1, DepthFacts DEF Running, Sees
  <2>3. PICK c : c = [kind |-> "run", of |-> 0, sees |-> s]
    OBVIOUS
  <2>4. c \in Calls /\ calls' = Append(calls, c)
    BY <1>8, <2>2, <2>3 DEF Calls, Run, Call
  <2> QED
    BY <1>5, <2>1, <2>4
<1>9. ASSUME NEW x \in DOMAIN captured, Enter(x) \/ Fire(x) PROVE ContextsReleased'
  <2>1. x \in Nat /\ captured[x] \in Captured
    BY <1>1 DEF AsyncTypes
  <2>2. PICK c : c = [kind |-> "scope", of |-> x, sees |-> captured[x].sees]
    OBVIOUS
  <2>3. c \in Calls /\ c.kind = "scope"
    BY <2>1, <2>2 DEF Calls, Captured
  <2>4. calls' = Append(calls, c) /\ UNCHANGED promises
    BY <1>9, <2>2 DEF Enter, Fire, Call
  <2> QED
    BY <1>5, <1>6, <2>3, <2>4
<1>10. CASE Return
  <2>1. Running /\ Top.kind # "reaction" /\ calls' = Front(calls) /\ UNCHANGED promises
    BY <1>10 DEF Return
  <2>2. PICK n \in Nat \ {0} : n = Len(calls)
    BY <1>1, <2>1, DepthFacts DEF Running
  <2>3. /\ Len(calls') = n - 1 /\ calls' \in Seq(Calls)
        /\ \A i \in 1..(n - 1) : calls'[i] = calls[i]
    BY <1>1, <2>1, <2>2, FrontFacts DEF Running
  <2>4. CASE n = 1
    <3>1. calls' = <<>>
      BY <2>3, <2>4
    <3>2. Top = calls[1]
      BY <2>2, <2>4 DEF Top
    <3> QED
      BY <1>4, <2>1, <3>1, <3>2
  <2>5. CASE n > 1
    <3>1. calls' # <<>> /\ calls'[1] = calls[1]
      BY <2>3, <2>5, EmptyFacts
    <3> QED
      BY <1>3, <2>1, <3>1
  <2> QED
    BY <2>2, <2>4, <2>5
<1>11. ASSUME NEW on \in {0} \cup DOMAIN promises, NewPromise(on) PROVE ContextsReleased'
  <2>1. on \in Nat /\ UNCHANGED calls
    BY <1>1, <1>11 DEF NewPromise
  <2>2. PICK n \in Nat : n = Len(promises)
    BY <1>1
  <2>3. PICK r \in Promise : PromiseSees(r) /\ ~r.ran /\ promises' = Append(promises, r)
    BY <1>11, <2>1, MadePromise
  <2>4. /\ Len(promises') = n + 1 /\ promises'[n + 1] = r
        /\ \A q \in 1..n : promises'[q] = promises[q]
    BY <1>1, <2>2, <2>3, PromiseAdded
  <2> QED
    BY <1>1, <2>1, <2>2, <2>3, <2>4 DEF ContextsReleased, Reacting, Running
<1>12. ASSUME NEW p \in DOMAIN promises, NEW state \in {"fulfilled", "rejected"}, Settle(p, state)
       PROVE  ContextsReleased'
  <2>1. p \in 1..Len(promises) /\ UNCHANGED calls
    BY <1>1, <1>12 DEF Settle
  <2>2. PICK r \in Promise : PromiseSees(r) /\ ~r.ran /\ promises' = [promises EXCEPT ![p] = r]
    BY <1>12, <2>1, SettledPromise
  <2>3. /\ Len(promises') = Len(promises)
        /\ \A q \in 1..Len(promises) : promises'[q] = IF q = p THEN r ELSE promises[q]
    BY <1>1, <2>1, <2>2, PromiseReplaced
  <2>4. ~promises[p].ran
    BY <1>1, <1>12, <2>1 DEF PromisesSee, PromiseSees, Settle
  <2> QED
    BY <1>1, <2>1, <2>2, <2>3, <2>4 DEF ContextsReleased, Reacting, Running
<1>13. ASSUME NEW p \in DOMAIN promises, React(p) PROVE ContextsReleased'
  <2>1. p \in 1..Len(promises) /\ ~Running /\ p \in Nat
    BY <1>1, <1>13 DEF React
  <2>2. PICK r \in Promise : PromiseSees(r) /\ r.ran /\ promises' = [promises EXCEPT ![p] = r]
    BY <1>13, <2>1, ReactedPromise
  <2>3. /\ Len(promises') = Len(promises)
        /\ \A q \in 1..Len(promises) : promises'[q] = IF q = p THEN r ELSE promises[q]
    BY <1>1, <2>1, <2>2, PromiseReplaced
  <2>4. PICK c : c = [kind |-> "reaction", of |-> p, sees |-> promises[p].sees]
    OBVIOUS
  <2>5. promises[p] \in Promise
    BY <1>1, <2>1
  <2>6. c \in Calls /\ c.kind = "reaction" /\ c.of = p
    BY <2>1, <2>4, <2>5 DEF Calls, Promise
  <2>7. calls' = Append(calls, c) /\ calls = <<>>
    BY <1>13, <2>1, <2>4 DEF React, Call, Running
  <2>8. calls'[1] = c /\ calls' # <<>>
    BY <1>1, <2>6, <2>7, AppendFacts, EmptyFacts
  <2> QED
    BY <1>1, <2>1, <2>2, <2>3, <2>6, <2>8 DEF ContextsReleased, Reacting, Running
<1>14. ASSUME NEW state \in {"pending", "fulfilled", "rejected"}, ReactionEnds(state)
       PROVE  ContextsReleased'
  <2>1. PICK p \in 1..Len(promises), r \in Promise :
            /\ calls[1].kind = "reaction" /\ p = calls[1].of /\ Len(calls) = 1
            /\ PromiseSees(r) /\ r.ran
            /\ r.state # "rejected" => r.ctx = 0
            /\ promises' = [promises EXCEPT ![p] = r]
    BY <1>14, EndedPromise
  <2>2. /\ Len(promises') = Len(promises)
        /\ \A q \in 1..Len(promises) : promises'[q] = IF q = p THEN r ELSE promises[q]
    BY <1>1, <2>1, PromiseReplaced
  <2>3. calls' = Front(calls) /\ Running
    BY <1>14 DEF ReactionEnds
  <2>4. Len(calls') = 0 /\ calls' \in Seq(Calls)
    BY <1>1, <2>1, <2>3, FrontFacts DEF Running
  <2>5. calls' = <<>>
    BY <2>4
  <2> QED
    BY <1>1, <2>1, <2>2, <2>3, <2>5 DEF ContextsReleased, Reacting, Running
<1> QED
  BY <1>2, <1>7, <1>8, <1>9, <1>10, <1>11, <1>12, <1>13, <1>14 DEF Next, vars, Exit,
       GetStore, Collect, Capture, Values

-----------------------------------------------------------------------------
(* AsyncInv holds of the code whatever is called, bound or scheduled, in    *)
(* any order, whenever the hooks are registered and whichever keys die.     *)
THEOREM AsyncInvariant == Spec => []AsyncInv
<1>1. Init => AsyncInv
  <2> SUFFICES ASSUME Init PROVE AsyncInv
    OBVIOUS
  <2>1. PICK s : s = [k \in {} |-> Undefined]
    OBVIOUS
  <2>2. s \in Storage /\ DOMAIN s = {}
    <3>1. s \in [{} -> Values] /\ {} \in SUBSET Keys
      BY <2>1
    <3> QED
      BY <2>1, <3>1 DEF Storage
  <2>3. frames = <<s>> /\ frames \in Seq(Storage) /\ Len(frames) = 1 /\ frames[1] = s
    BY <2>1, <2>2 DEF Init
  <2>4. AsyncTypes
    <3>1. frames \in Seq(Storage) /\ Len(frames) > 0 /\ DOMAIN frames[Root] = {}
      BY <2>2, <2>3 DEF Root
    <3> QED
      BY <3>1, EmptyFacts DEF Init, AsyncTypes
  <2> QED
    BY <2>4, EmptyFacts DEF Init, AsyncInv, FramesKnown, OneFramePerCall, HooksSetFirst,
         CallsSee, CapturedSees, PromisesSee, ContextsReleased, Running
<1>2. AsyncInv /\ [Next]_vars => AsyncInv'
  <2> SUFFICES ASSUME AsyncInv, [Next]_vars PROVE AsyncInv'
    OBVIOUS
  <2>1. AsyncTypes /\ FramesKnown
    BY DEF AsyncInv
  <2>2. AsyncTypes'
    <3>1. frames' \in Seq(Storage) /\ Len(frames') > 0 /\ DOMAIN frames'[Root] = {}
      BY <2>1, StoresKept DEF AsyncTypes
    <3>2. dead' \subseteq Keys /\ hooksSet' \in BOOLEAN
      BY <2>1, HoldsStep
    <3>3. calls' \in Seq(Calls) /\ stack' \in Seq(Nat)
      BY CallsStep DEF CallsOK
    <3> QED
      BY <3>1, <3>2, <3>3, CapturedStep, PromisesStep DEF AsyncTypes, Root
  <2> QED
    BY <2>2, CallsStep, CapturedStep, PromisesStep, ReleasedStep DEF AsyncInv, CallsOK
<1> QED
  BY <1>1, <1>2, PTL DEF Spec

(* getStore returns what the code was promised, in every job and in every   *)
(* nested call of one.                                                      *)
THEOREM AsyncSeesItsContext == Spec => []SeesItsContext
<1>1. AsyncInv => SeesItsContext
  <2> SUFFICES ASSUME AsyncInv, Running PROVE \A k \in Live : StoreIn(Current, k) = Top.sees[k]
    BY DEF SeesItsContext
  <2>1. Holds(Current, Top.sees)
    BY CurrentFrame DEF AsyncInv, CallsSee, Top
  <2> QED
    BY <2>1 DEF Holds
<1> QED
  BY <1>1, AsyncInvariant, PTL

(* Every frame that is pushed is popped: run and runInAsyncScope by their   *)
(* finally, reactions by the after hook, even when the hooks were           *)
(* registered while one ran.                                                *)
THEOREM AsyncStackUnwound == Spec => []StackUnwound
<1>1. AsyncInv => StackUnwound
  <2> SUFFICES ASSUME AsyncInv PROVE StackUnwound
    OBVIOUS
  <2> DEFINE Scopes == {i \in DOMAIN calls : calls[i].kind \in {"run", "scope"}}
  <2>1. AsyncTypes /\ OneFramePerCall /\ calls \in Seq(Calls) /\ Len(calls) \in Nat
    BY DEF AsyncInv, AsyncTypes
  <2>2. CASE ~Running
    <3>1. calls = <<>> /\ stack = <<>>
      BY <2>1, <2>2 DEF Running, OneFramePerCall
    <3>2. Scopes = {}
      BY <2>1, <3>1, EmptyFacts
    <3>3. Cardinality(Scopes) = 0
      BY <3>2, FS_EmptySet
    <3> QED
      BY <3>1, <3>3, EmptyFacts DEF StackUnwound
  <2>3. CASE Running
    <3>1. PICK n \in Nat \ {0} : n = Len(calls)
      BY <2>1, <2>3, DepthFacts DEF Running
    <3>2. PICK m \in Nat : m = Len(stack) /\ m \in {n - 1, n}
      BY <2>1, <2>3, <3>1, DepthFacts DEF Running
    <3>3. \A i \in 2..n : i \in Scopes
      BY <2>1, <3>1 DEF OneFramePerCall
    <3>4. CASE calls[1].kind = "scope"
      <4>1. Scopes = 1..n
        BY <2>1, <3>1, <3>3, <3>4
      <4>2. m = n
        BY <2>1, <2>3, <3>1, <3>2, <3>4 DEF OneFramePerCall, Running
      <4>3. Cardinality(Scopes) = n
        <5>1. Cardinality(1..n) = IF 1 > n THEN 0 ELSE n - 1 + 1
          BY <3>1, FS_Interval
        <5>2. Cardinality(1..n) = n
          BY <5>1
        <5> QED
          BY <4>1, <5>2
      <4> QED
        BY <2>3, <3>2, <4>2, <4>3 DEF StackUnwound
    <3>5. CASE calls[1].kind \in {"script", "reaction"}
      <4>1. Scopes = 2..n
        BY <2>1, <3>1, <3>3, <3>5
      <4>2. Cardinality(Scopes) = n - 1
        <5>1. Cardinality(2..n) = IF 2 > n THEN 0 ELSE n - 2 + 1
          <6>1. 2 \in Int /\ n \in Int
            OBVIOUS
          <6> QED
            BY <6>1, FS_Interval, Zenon
        <5>2. Cardinality(2..n) = n - 1
          BY <5>1
        <5> QED
          BY <4>1, <5>2
      <4> QED
        BY <2>3, <3>2, <4>2 DEF StackUnwound
    <3> QED
      BY <2>1, <2>3, <3>4, <3>5, DepthFacts DEF Running
  <2> QED
    BY <2>2, <2>3
<1> QED
  BY <1>1, AsyncInvariant, PTL

(* No step changes the store of a live key in a frame someone may hold:     *)
(* run and getStore only drop the entries of dead keys from it.             *)
THEOREM AsyncFramesAreConstant == Spec => FramesAreConstant
<1>1. AsyncInv /\ [Next]_vars =>
          [\A f \in DOMAIN frames : \A k \in Live \ dead' : StoreIn(f, k)' = StoreIn(f, k)]_vars
  <2> SUFFICES ASSUME AsyncInv, [Next]_vars, NEW f \in DOMAIN frames, NEW k \in Live \ dead'
               PROVE  StoreIn(f, k)' = StoreIn(f, k)
    OBVIOUS
  <2>1. f \in 1..Len(frames) /\ AsyncTypes /\ FramesKnown
    BY DEF AsyncInv, AsyncTypes
  <2> QED
    BY <2>1, StoresKept
<1> QED
  BY <1>1, AsyncInvariant, PTL DEF Spec, FramesAreConstant

(* A rejection in a context leaves one to report it with, and between jobs  *)
(* no promise that a reaction settled otherwise keeps one.                  *)
THEOREM AsyncContextKept == Spec => []ContextKeptForRejections
<1>1. AsyncInv => ContextKeptForRejections
  <2> SUFFICES ASSUME AsyncInv, NEW p \in DOMAIN promises
               PROVE  /\ promises[p].strayed => promises[p].ctx # 0
                      /\ ~Running /\ hooksSet /\ promises[p].ran /\ promises[p].state # "rejected" =>
                            promises[p].ctx = 0
    BY DEF ContextKeptForRejections
  <2>1. p \in 1..Len(promises)
    BY DEF AsyncInv, AsyncTypes
  <2> QED
    BY <2>1 DEF AsyncInv, PromisesSee, PromiseSees, ContextsReleased, Reacting
<1> QED
  BY <1>1, AsyncInvariant, PTL

(* Frames hold stores of known keys, and the stack, promises and what was   *)
(* captured refer to frames that exist.                                     *)
THEOREM AsyncTypeCorrect == Spec => []TypeOK
<1>1. AsyncInv => TypeOK
  <2> SUFFICES ASSUME AsyncInv PROVE TypeOK
    OBVIOUS
  <2>1. AsyncTypes /\ DOMAIN frames = 1..Len(frames)
    BY DEF AsyncInv, AsyncTypes
  <2>2. ASSUME NEW f \in DOMAIN frames
        PROVE  DOMAIN frames[f] \subseteq Keys /\ Range(frames[f]) \subseteq Stores \cup {Undefined}
    <3>1. frames[f] \in Storage
      BY <2>1 DEF AsyncTypes
    <3>2. PICK D \in SUBSET Keys : frames[f] \in [D -> Values]
      BY <3>1 DEF Storage
    <3> QED
      BY <3>2 DEF Range, Values
  <2>3. stack \in Seq(DOMAIN frames)
    <3>1. stack \in Seq(Nat) /\ \A i \in 1..Len(stack) : stack[i] \in DOMAIN frames
      BY <2>1 DEF AsyncInv, AsyncTypes, FramesKnown
    <3> QED
      BY <3>1
  <2>4. \A p \in DOMAIN promises : promises[p].ctx \in {0} \cup DOMAIN frames
    <3> SUFFICES ASSUME NEW p \in DOMAIN promises PROVE promises[p].ctx \in {0} \cup DOMAIN frames
      OBVIOUS
    <3>1. p \in 1..Len(promises)
      BY <2>1 DEF AsyncTypes
    <3>2. promises[p].ctx \in 0..Len(frames)
      BY <3>1 DEF AsyncInv, PromisesSee, PromiseSees
    <3> QED
      BY <2>1, <3>2
  <2>5. \A c \in DOMAIN captured : captured[c].frame \in DOMAIN frames
    BY <2>1 DEF AsyncTypes, AsyncInv, CapturedSees
  <2> QED
    BY <2>1, <2>2, <2>3, <2>4, <2>5 DEF TypeOK, AsyncTypes
<1> QED
  BY <1>1, AsyncInvariant, PTL

=============================================================================

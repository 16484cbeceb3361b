-------------------------- MODULE EventTargetProofs -------------------------
(***************************************************************************)
(* Proofs about EventTarget, for any callbacks, signals, types and events  *)
(* and dispatches nested to any depth.                                     *)
(***************************************************************************)
EXTENDS EventTarget, FilteringProofs, SequenceTheorems

(* What a dispatch has called is not in the part of the array still before  *)
(* it, unless it was added since.                                           *)
NotAgain(d, list) ==
    /\ \A i \in 1..Len(d.called) : \A j \in 1..Len(list) :
          j >= d.next /\ list[j] = d.called[i] => d.called[i] \in d.fresh
    /\ \A i, j \in 1..Len(d.called) :
          i # j /\ d.called[i] = d.called[j] => d.called[i] \in d.fresh

(* While none was removed, the array starts with the listeners there were   *)
(* at first, and the index counts the calls.                                *)
Intact(d, list) ==
    /\ d.len = Len(d.start) /\ d.len <= Len(list)
    /\ \A i \in 1..d.len : list[i] = d.start[i]
    /\ d.next \in 1..(d.len + 1) /\ Len(d.called) + 1 = d.next
    /\ \A i \in 1..Len(d.called) : d.called[i] = d.start[i]

Faithful(d, list) ==
    d.next # 0 /\ NotAgain(d, list) /\ (~d.removed => Intact(d, list))

ListOf(d) == listeners[TypeOf[d.event]]

EventInv ==
    /\ TypeOK
    /\ \A i \in 1..Len(stack) : Faithful(stack[i], ListOf(stack[i]))

-----------------------------------------------------------------------------
(* What happens to one dispatch.                                            *)

(* An array whose elements came closer to its start.                        *)
Shifted(new, old) ==
    \E pos \in [1..Len(new) -> 1..Len(old)] :
        /\ \A n \in 1..Len(new) : new[n] = old[pos[n]] /\ pos[n] >= n
        /\ \A a, b \in 1..Len(new) : pos[a] = pos[b] => a = b

LEMMA Started ==
    ASSUME NEW list \in Seq(Listener), NEW e \in Events, NEW d,
           d = [event |-> e, next |-> 1, len |-> Len(list), running |-> FALSE,
                start |-> list, called |-> <<>>, fresh |-> {}, removed |-> FALSE]
    PROVE  d \in Dispatches /\ Faithful(d, list) /\ d.event = e
<1>1. d \in Dispatches
  BY DEF Dispatches
<1>2. d.next = 1 /\ d.len = Len(list) /\ d.start = list /\ d.called = <<>> /\ Len(d.called) = 0
      /\ d.event = e
  OBVIOUS
<1>3. NotAgain(d, list)
  BY <1>2 DEF NotAgain
<1>4. Intact(d, list)
  BY <1>2 DEF Intact
<1> QED
  BY <1>1, <1>2, <1>3, <1>4 DEF Faithful

(* A listener is added.                                                     *)
LEMMA Added ==
    ASSUME NEW list \in Seq(Listener), NEW l \in Listener, NEW d \in Dispatches,
           NEW r \in Dispatches, r.next = d.next, r.len = d.len, r.start = d.start,
           r.called = d.called, r.fresh = d.fresh \cup {l}, r.removed = d.removed,
           Faithful(d, list)
    PROVE  Faithful(r, Append(list, l))
<1>1. /\ r.next = d.next /\ r.len = d.len /\ r.start = d.start /\ r.called = d.called
      /\ r.fresh = d.fresh \cup {l} /\ r.removed = d.removed
  OBVIOUS
<1>2. PICK N \in Nat : N = Len(list)
  OBVIOUS
<1>3. /\ Len(Append(list, l)) = N + 1 /\ Append(list, l)[N + 1] = l
      /\ \A j \in 1..N : Append(list, l)[j] = list[j]
  BY <1>2
<1>4. d.len \in Nat /\ d.next \in Nat
  BY DEF Dispatches
<1>5. NotAgain(r, Append(list, l))
  <2>1. NotAgain(d, list)
    BY DEF Faithful
  <2>2. ASSUME NEW i \in 1..Len(r.called), NEW j \in 1..(N + 1), j >= r.next,
               Append(list, l)[j] = r.called[i]
        PROVE  r.called[i] \in r.fresh
    <3>1. CASE j = N + 1
      BY <1>1, <1>3, <2>2, <3>1
    <3>2. CASE j \in 1..N
      BY <1>1, <1>2, <1>3, <2>1, <2>2, <3>2 DEF NotAgain
    <3> QED
      BY <1>2, <3>1, <3>2
  <2> QED
    BY <1>1, <1>3, <2>1, <2>2 DEF NotAgain
<1>6. ASSUME ~d.removed PROVE Intact(r, Append(list, l))
  <2>1. Intact(d, list)
    BY <1>6 DEF Faithful
  <2>2. /\ r.len = Len(r.start) /\ r.len <= Len(Append(list, l))
        /\ r.next \in 1..(r.len + 1) /\ Len(r.called) + 1 = r.next
        /\ \A i \in 1..Len(r.called) : r.called[i] = r.start[i]
    BY <1>1, <1>2, <1>3, <1>4, <2>1 DEF Intact
  <2>3. \A i \in 1..r.len : Append(list, l)[i] = r.start[i]
    BY <1>1, <1>2, <1>3, <1>4, <2>1 DEF Intact
  <2> QED
    BY <2>2, <2>3 DEF Intact
<1> QED
  BY <1>1, <1>5, <1>6 DEF Faithful

(* Some are removed, before or behind the index of forEach.                 *)
LEMMA Removed ==
    ASSUME NEW list \in Seq(Listener), NEW new \in Seq(Listener), NEW d \in Dispatches,
           NEW b \in BOOLEAN, NEW r, r.removed = b, b = FALSE => ~d.removed /\ new = list,
           r \in Dispatches, r.event = d.event, r.next = d.next, r.len = d.len,
           r.start = d.start, r.called = d.called, r.fresh = d.fresh,
           Shifted(new, list), Faithful(d, list)
    PROVE  Faithful(r, new)
<1>1. PICK pos \in [1..Len(new) -> 1..Len(list)] :
          \A n \in 1..Len(new) : new[n] = list[pos[n]] /\ pos[n] >= n
  BY DEF Shifted
<1>2. d.next \in Nat
  BY DEF Dispatches
<1>3. NotAgain(d, list)
  BY DEF Faithful
<1>4. ASSUME NEW i \in 1..Len(d.called), NEW j \in 1..Len(new), j >= d.next,
             new[j] = d.called[i]
      PROVE  d.called[i] \in d.fresh
  <2>1. pos[j] \in 1..Len(list) /\ list[pos[j]] = d.called[i] /\ pos[j] >= j
    BY <1>1, <1>4
  <2>2. pos[j] >= d.next
    BY <1>2, <1>4, <2>1
  <2> QED
    BY <1>3, <2>1, <2>2 DEF NotAgain
<1>5. NotAgain(r, new)
  BY <1>3, <1>4 DEF NotAgain
<1>6. b = FALSE => Intact(r, new)
  BY DEF Faithful, Intact
<1> QED
  BY <1>5, <1>6 DEF Faithful

(* The next listener is called.                                             *)
LEMMA Called ==
    ASSUME NEW list \in Seq(Listener), NEW d \in Dispatches, IsInjective(list),
           NEW p \in 1..Len(list), p = d.next, p <= d.len,
           NEW r \in Dispatches, r.next = p + 1, r.len = d.len, r.start = d.start,
           r.called = Append(d.called, list[p]), r.fresh = d.fresh, r.removed = d.removed,
           Faithful(d, list)
    PROVE  Faithful(r, list)
<1>1. list[p] \in Listener /\ d.called \in Seq(Listener) /\ p \in Nat /\ d.len \in Nat
  BY DEF Dispatches
<1>2. PICK m \in Nat : m = Len(d.called)
  BY <1>1
<1>3. /\ r.next = p + 1 /\ r.len = d.len /\ r.start = d.start
      /\ r.called = Append(d.called, list[p]) /\ r.fresh = d.fresh /\ r.removed = d.removed
  OBVIOUS
<1>4. /\ Len(r.called) = m + 1 /\ r.called[m + 1] = list[p]
      /\ \A i \in 1..m : r.called[i] = d.called[i]
  BY <1>1, <1>2, <1>3
<1>6. NotAgain(d, list)
  BY DEF Faithful
<1>7. \A i \in 1..m : d.called[i] = list[p] => d.called[i] \in d.fresh
  BY <1>1, <1>2, <1>6 DEF NotAgain
<1>8. ASSUME NEW i \in 1..(m + 1), NEW j \in 1..Len(list), j >= p + 1, list[j] = r.called[i]
      PROVE  r.called[i] \in r.fresh
  <2>1. CASE i = m + 1
    <3>1. list[j] = list[p] /\ j # p
      BY <1>4, <1>8, <2>1
    <3> QED
      BY <3>1 DEF IsInjective
  <2>2. CASE i \in 1..m
    <3>1. j >= d.next /\ list[j] = d.called[i]
      BY <1>1, <1>4, <1>8, <2>2
    <3> QED
      BY <1>2, <1>3, <1>4, <1>6, <2>2, <3>1 DEF NotAgain
  <2> QED
    BY <1>2, <2>1, <2>2
<1>9. ASSUME NEW i \in 1..(m + 1), NEW j \in 1..(m + 1), i # j, r.called[i] = r.called[j]
      PROVE  r.called[i] \in r.fresh
  <2>1. CASE i \in 1..m /\ j \in 1..m
    BY <1>2, <1>3, <1>4, <1>6, <1>9, <2>1 DEF NotAgain
  <2>2. CASE i = m + 1 /\ j \in 1..m
    BY <1>3, <1>4, <1>7, <1>9, <2>2
  <2>3. CASE j = m + 1 /\ i \in 1..m
    BY <1>3, <1>4, <1>7, <1>9, <2>3
  <2> QED
    BY <1>2, <1>9, <2>1, <2>2, <2>3
<1>10. NotAgain(r, list)
  BY <1>3, <1>4, <1>8, <1>9 DEF NotAgain
<1>11. ASSUME ~d.removed PROVE Intact(r, list)
  <2>1. Intact(d, list)
    BY <1>11 DEF Faithful
  <2>2. m + 1 = p /\ list[p] = d.start[p]
    BY <1>1, <1>2, <2>1 DEF Intact
  <2>3. \A i \in 1..(m + 1) : r.called[i] = r.start[i]
    BY <1>2, <1>3, <1>4, <2>1, <2>2 DEF Intact
  <2> QED
    BY <1>1, <1>2, <1>3, <1>4, <2>1, <2>2, <2>3 DEF Intact
<1> QED
  BY <1>1, <1>3, <1>10, <1>11 DEF Faithful

-----------------------------------------------------------------------------
(* What removal does to the array.                                          *)

LEMMA ShiftedInjective ==
    ASSUME NEW old \in Seq(Listener), NEW new \in Seq(Listener), IsInjective(old),
           Shifted(new, old)
    PROVE  IsInjective(new)
<1>1. PICK pos \in [1..Len(new) -> 1..Len(old)] :
          /\ \A n \in 1..Len(new) : new[n] = old[pos[n]] /\ pos[n] >= n
          /\ \A a, b \in 1..Len(new) : pos[a] = pos[b] => a = b
  BY DEF Shifted
<1>2. DOMAIN new = 1..Len(new) /\ DOMAIN old = 1..Len(old)
  OBVIOUS
<1>3. ASSUME NEW a \in 1..Len(new), NEW b \in 1..Len(new), new[a] = new[b] PROVE a = b
  <2>1. old[pos[a]] = old[pos[b]] /\ pos[a] \in DOMAIN old /\ pos[b] \in DOMAIN old
    BY <1>1, <1>2, <1>3
  <2>2. pos[a] = pos[b]
    BY <2>1 DEF IsInjective
  <2> QED
    BY <1>1, <2>2
<1> QED
  BY <1>2, <1>3 DEF IsInjective

(* The abort of a signal.                                                   *)
LEMMA FilterShifts ==
    ASSUME NEW list \in Seq(Listener), NEW keep
    PROVE  Filter(list, keep) \in Seq(Listener) /\ Shifted(Filter(list, keep), list)
<1>1. PICK new : new = Filter(list, keep)
  OBVIOUS
<1>2. new \in Seq(Listener)
  BY <1>1, FilterPositions
<1>3. PICK m \in Nat : \E pos \in [1..m -> 1..Len(list)] : AtPositions(new, list, keep, m, pos)
  BY <1>1, FilterPositions
<1>4. PICK pos \in [1..m -> 1..Len(list)] : AtPositions(new, list, keep, m, pos)
  BY <1>3
<1>5. m = Len(new) /\ \A n \in 1..m : new[n] = list[pos[n]] /\ pos[n] >= n
  BY <1>4 DEF AtPositions
<1>6. ASSUME NEW a \in 1..m, NEW b \in 1..m, pos[a] = pos[b] PROVE a = b
  <2>1. pos[a] \in Nat /\ pos[b] \in Nat /\ a \in Nat /\ b \in Nat
    BY <1>3, <1>4
  <2>2. ~(a < b) /\ ~(b < a)
    BY <1>4, <1>6, <2>1 DEF AtPositions
  <2> QED
    BY <2>1, <2>2
<1>7. Shifted(new, list)
  BY <1>4, <1>5, <1>6 DEF Shifted
<1> QED
  BY <1>1, <1>2, <1>7

(* removeEventListener.                                                     *)
LEMMA SplicedShifts ==
    ASSUME NEW list \in Seq(Listener), IsInjective(list), NEW l \in Range(list)
    PROVE  Spliced(list, l) \in Seq(Listener) /\ Shifted(Spliced(list, l), list)
<1>1. PICK N \in Nat : N = Len(list) /\ DOMAIN list = 1..N
  OBVIOUS
<1>2. PICK k \in 1..N : list[k] = l
  BY <1>1 DEF Range
<1>3. {i \in 1..Len(list) : list[i] = l} = {k}
  BY <1>1, <1>2 DEF IsInjective
<1>4. Min({k}) = k
  BY <1>2 DEF Min
<1>5. SelectInSeq(list, LAMBDA v : v = l) = k
  BY <1>3, <1>4 DEF SelectInSeq
<1>6. Spliced(list, l) = RemoveAt(list, k)
  BY <1>1, <1>2, <1>5 DEF Spliced, RemoveFirst
<1>7. PICK new : new = RemoveAt(list, k)
  OBVIOUS
<1>8. /\ new \in Seq(Listener) /\ Len(new) = N - 1
      /\ \A n \in 1..(N - 1) : new[n] = IF n < k THEN list[n] ELSE list[n + 1]
  <2>1. k \in 1..Len(list)
    BY <1>1
  <2>2. /\ RemoveAt(list, k) \in Seq(Listener) /\ Len(RemoveAt(list, k)) = Len(list) - 1
        /\ \A n \in 1..(Len(list) - 1) : n < k => RemoveAt(list, k)[n] = list[n]
        /\ \A n \in 1..(Len(list) - 1) : n >= k => RemoveAt(list, k)[n] = list[n + 1]
    BY <2>1, ElementRemoved
  <2> QED
    BY <1>1, <1>7, <2>2
<1>9. PICK pos : pos = [n \in 1..(N - 1) |-> IF n < k THEN n ELSE n + 1]
  OBVIOUS
<1>10. /\ pos \in [1..(N - 1) -> 1..N]
       /\ \A n \in 1..(N - 1) : new[n] = list[pos[n]] /\ pos[n] >= n
       /\ \A a, b \in 1..(N - 1) : pos[a] = pos[b] => a = b
  BY <1>1, <1>2, <1>8, <1>9
<1>11. Shifted(new, list)
  <2>1. 1..(N - 1) = 1..Len(new) /\ 1..N = 1..Len(list)
    BY <1>1, <1>8
  <2>2. /\ pos \in [1..Len(new) -> 1..Len(list)]
        /\ \A n \in 1..Len(new) : new[n] = list[pos[n]] /\ pos[n] >= n
        /\ \A a, b \in 1..Len(new) : pos[a] = pos[b] => a = b
    BY <1>10, <2>1
  <2> QED
    BY <2>2 DEF Shifted
<1> QED
  BY <1>6, <1>7, <1>8, <1>11

LEMMA ShiftedEmpty ==
    ASSUME NEW new \in Seq(Listener), Shifted(new, <<>>)
    PROVE  new = <<>>
<1>1. PICK pos \in [1..Len(new) -> 1..Len(<<>>)] : TRUE
  BY DEF Shifted
<1>2. ASSUME Len(new) # 0 PROVE FALSE
  <2>1. 1 \in 1..Len(new)
    BY <1>2
  <2>2. pos[1] \in 1..0
    BY <1>1, <2>1
  <2> QED
    BY <2>2
<1>3. Len(new) = 0
  BY <1>2
<1> QED
  BY <1>3

(* A listener that is not in the array comes last.                          *)
LEMMA AddedLast ==
    ASSUME NEW list \in Seq(Listener), IsInjective(list), NEW l \in Listener, l \notin Range(list)
    PROVE  Append(list, l) \in Seq(Listener) /\ IsInjective(Append(list, l))
<1>1. PICK N \in Nat : N = Len(list) /\ DOMAIN list = 1..N
  OBVIOUS
<1>2. PICK new : new = Append(list, l)
  OBVIOUS
<1>3. /\ new \in Seq(Listener) /\ DOMAIN new = 1..(N + 1) /\ new[N + 1] = l
      /\ \A i \in 1..N : new[i] = list[i] /\ list[i] # l
  BY <1>1, <1>2 DEF Range
<1>4. ASSUME NEW a \in 1..(N + 1), NEW b \in 1..(N + 1), new[a] = new[b] PROVE a = b
  <2>1. CASE a \in 1..N /\ b \in 1..N
    BY <1>1, <1>3, <1>4, <2>1 DEF IsInjective
  <2>2. CASE a = N + 1 \/ b = N + 1
    <3>1. a \notin 1..N => a = N + 1
      BY <1>1
    <3>2. b \notin 1..N => b = N + 1
      BY <1>1
    <3> QED
      BY <1>3, <1>4, <2>2, <3>1, <3>2
  <2> QED
    BY <1>1, <2>1, <2>2
<1>5. IsInjective(new)
  BY <1>3, <1>4 DEF IsInjective
<1> QED
  BY <1>2, <1>3, <1>5

-----------------------------------------------------------------------------
(* The arrays, and the dispatches over them.                                *)

ListTypes ==
    /\ listeners \in [Types -> Seq(Listener)]
    /\ defined \subseteq Types
    /\ \A t \in Types \ defined : listeners[t] = <<>>
    /\ \A t \in Types : IsInjective(listeners[t])
    /\ aborted \subseteq Signals
    /\ onAbort \in [Signals -> SUBSET (Types \X Listener)]
    /\ refused \subseteq Events

StackTypes ==
    /\ stack \in Seq(Dispatches) /\ Len(stack) <= MaxDepth
    /\ \A i \in 1..Len(stack) - 1 : stack[i].running

LEMMA TypesSplit == (TypeOK <=> ListTypes /\ StackTypes) /\ (TypeOK <=> ListTypes /\ StackTypes)'
BY DEF TypeOK, ListTypes, StackTypes

LEMMA ListsStep ==
    ASSUME TypeOK, [Next]_vars
    PROVE  ListTypes'
<1>1. ListTypes
  BY TypesSplit
<1>2. CASE UNCHANGED <<listeners, defined, aborted, onAbort, refused>>
  BY <1>1, <1>2 DEF ListTypes
<1>3. ASSUME NEW t \in Types, NEW s \in Signals, AddAborted(t, s) PROVE ListTypes'
  BY <1>1, <1>3 DEF ListTypes, AddAborted
<1>4. ASSUME NEW t \in Types, NEW l \in Listener, NEW s \in Signals \cup {NoSignal},
             AddEventListener(t, l, s)
      PROVE  ListTypes'
  <2>1. /\ listeners' = [listeners EXCEPT ![t] = Append(listeners[t], l)]
        /\ l \notin Range(listeners[t]) /\ listeners[t] \in Seq(Listener)
        /\ IsInjective(listeners[t])
        /\ defined' = defined \cup {t} /\ UNCHANGED <<aborted, refused>>
    BY <1>1, <1>4 DEF AddEventListener, Push, ListTypes
  <2>2. Append(listeners[t], l) \in Seq(Listener) /\ IsInjective(Append(listeners[t], l))
    <3>1. /\ l \notin Range(listeners[t]) /\ listeners[t] \in Seq(Listener)
          /\ IsInjective(listeners[t])
      BY <2>1
    <3>2. PICK list \in Seq(Listener) : list = listeners[t]
      BY <3>1
    <3>3. Append(list, l) \in Seq(Listener) /\ IsInjective(Append(list, l))
      BY <3>1, <3>2, AddedLast
    <3> QED
      BY <3>2, <3>3
  <2>3. onAbort' \in [Signals -> SUBSET (Types \X Listener)]
    BY <1>1, <1>4 DEF AddEventListener, ListTypes
  <2>4. /\ listeners' \in [Types -> Seq(Listener)]
        /\ \A u \in Types : listeners'[u] = IF u = t THEN Append(listeners[t], l) ELSE listeners[u]
    BY <1>1, <2>1, <2>2 DEF ListTypes
  <2> QED
    BY <1>1, <2>1, <2>2, <2>3, <2>4 DEF ListTypes
<1>5. ASSUME NEW t \in Types, NEW l \in Listener, RemoveEventListener(t, l) PROVE ListTypes'
  <2>1. PICK new : new = Spliced(listeners[t], l)
    OBVIOUS
  <2>2. /\ listeners' = [listeners EXCEPT ![t] = new]
        /\ l \in Range(listeners[t]) /\ listeners[t] \in Seq(Listener)
        /\ IsInjective(listeners[t]) /\ UNCHANGED <<defined, aborted, onAbort, refused>>
    BY <1>1, <1>5, <2>1 DEF RemoveEventListener, ListTypes
  <2>3. new \in Seq(Listener) /\ Shifted(new, listeners[t])
    BY <2>1, <2>2, SplicedShifts
  <2>4. IsInjective(new)
    BY <2>2, <2>3, ShiftedInjective
  <2>5. listeners[t] = <<>> => new = <<>>
    BY <2>3, ShiftedEmpty
  <2>6. /\ listeners' \in [Types -> Seq(Listener)]
        /\ \A u \in Types : listeners'[u] = IF u = t THEN new ELSE listeners[u]
    BY <1>1, <2>2, <2>3 DEF ListTypes
  <2> QED
    BY <1>1, <2>2, <2>4, <2>5, <2>6 DEF ListTypes
<1>6. ASSUME NEW s \in Signals, Abort(s) PROVE ListTypes'
  <2>1. \A t \in Types : listeners'[t] = Filter(listeners[t], {l \in Listener : <<t, l>> \notin onAbort[s]})
    BY <1>6 DEF Abort
  <2>2. ASSUME NEW t \in Types
        PROVE  /\ listeners'[t] \in Seq(Listener) /\ IsInjective(listeners'[t])
               /\ listeners[t] = <<>> => listeners'[t] = <<>>
    <3>1. listeners[t] \in Seq(Listener) /\ IsInjective(listeners[t])
      BY <1>1 DEF ListTypes
    <3>2. PICK new : new = listeners'[t]
      OBVIOUS
    <3>3. new \in Seq(Listener) /\ Shifted(new, listeners[t])
      BY <2>1, <3>1, <3>2, FilterShifts
    <3>4. IsInjective(new)
      BY <3>1, <3>3, ShiftedInjective
    <3>5. listeners[t] = <<>> => new = <<>>
      BY <3>3, ShiftedEmpty
    <3> QED
      BY <3>2, <3>3, <3>4, <3>5
  <2>3. listeners' \in [Types -> Seq(Listener)]
    BY <1>6, <2>2 DEF Abort
  <2> QED
    BY <1>1, <1>6, <2>2, <2>3 DEF ListTypes, Abort
<1>7. ASSUME NEW e \in Events, SetFlags(e) PROVE ListTypes'
  BY <1>1, <1>7 DEF ListTypes, SetFlags
<1> QED
  BY <1>2, <1>3, <1>4, <1>5, <1>6, <1>7 DEF Next, vars, DispatchEvent, Call, CallReturns,
       CallThrows, DispatchReturns

(* Every dispatch goes on where it was, over a changed array.               *)
LEMMA StackMapped ==
    ASSUME TypeOK, stack' = [i \in DOMAIN stack |-> stack'[i]],
           \A i \in 1..Len(stack) :
              /\ stack'[i] \in Dispatches /\ stack'[i].running = stack[i].running
              /\ Faithful(stack'[i], listeners'[TypeOf[stack'[i].event]])
    PROVE  StackTypes' /\ \A i \in 1..Len(stack') : Faithful(stack[i], ListOf(stack[i]))'
<1>1. stack \in Seq(Dispatches) /\ DOMAIN stack = 1..Len(stack) /\ Len(stack) \in Nat
      /\ Len(stack) <= MaxDepth /\ \A i \in 1..Len(stack) - 1 : stack[i].running
  BY DEF TypeOK
<1>2. stack' \in Seq(Dispatches) /\ Len(stack') = Len(stack)
  BY <1>1
<1>3. \A i \in 1..Len(stack') - 1 : stack'[i].running
  BY <1>1, <1>2
<1> QED
  BY <1>1, <1>2, <1>3 DEF StackTypes, ListOf

(* The last dispatch ends.                                                  *)
LEMMA StackPopped ==
    ASSUME EventInv, stack # <<>>, stack' = Front(stack), UNCHANGED listeners
    PROVE  StackTypes' /\ \A i \in 1..Len(stack') : Faithful(stack[i], ListOf(stack[i]))'
<1>1. /\ stack \in Seq(Dispatches) /\ Len(stack) <= MaxDepth /\ MaxDepth \in Nat
      /\ \A i \in 1..Len(stack) - 1 : stack[i].running
      /\ \A i \in 1..Len(stack) : Faithful(stack[i], listeners[TypeOf[stack[i].event]])
  BY EventAssumption DEF EventInv, TypeOK, ListOf
<1>2. PICK n \in Nat \ {0} : n = Len(stack)
  BY <1>1
<1>3. /\ stack' \in Seq(Dispatches) /\ Len(stack') = n - 1
      /\ \A i \in 1..(n - 1) : stack'[i] = stack[i]
  <2>1. \A i \in 1..(n - 1) : stack[i] \in Dispatches
    BY <1>1, <1>2
  <2>2. /\ stack' \in Seq(Dispatches)
        /\ Len(stack') = IF 1 <= n - 1 THEN n - 1 - 1 + 1 ELSE 0
        /\ \A i \in 1..(n - 1 - 1 + 1) : stack'[i] = stack[1 + i - 1]
    BY <1>2, <2>1, SubSeqProperties DEF Front
  <2> QED
    BY <1>2, <2>2
<1>4. Len(stack') <= MaxDepth /\ \A i \in 1..Len(stack') - 1 : stack'[i].running
  BY <1>1, <1>2, <1>3
<1>5. \A i \in 1..Len(stack') : Faithful(stack'[i], listeners[TypeOf[stack'[i].event]])
  BY <1>1, <1>2, <1>3
<1> QED
  BY <1>3, <1>4, <1>5 DEF StackTypes, ListOf

(* The last dispatch becomes r.                                             *)
LEMMA StackTop ==
    ASSUME EventInv, stack # <<>>, UNCHANGED listeners, NEW r \in Dispatches,
           stack' = [stack EXCEPT ![Len(stack)] = r], Faithful(r, listeners[TypeOf[r.event]])
    PROVE  StackTypes' /\ \A i \in 1..Len(stack') : Faithful(stack[i], ListOf(stack[i]))'
<1>1. /\ stack \in Seq(Dispatches) /\ Len(stack) <= MaxDepth
      /\ \A i \in 1..Len(stack) - 1 : stack[i].running
      /\ \A i \in 1..Len(stack) : Faithful(stack[i], listeners[TypeOf[stack[i].event]])
  BY DEF EventInv, TypeOK, ListOf
<1>2. PICK n \in Nat \ {0} : n = Len(stack)
  BY <1>1
<1>3. /\ stack' \in Seq(Dispatches) /\ Len(stack') = n
      /\ \A i \in 1..n : stack'[i] = IF i = n THEN r ELSE stack[i]
  BY <1>1, <1>2
<1>4. Len(stack') <= MaxDepth /\ \A i \in 1..Len(stack') - 1 : stack'[i].running
  BY <1>1, <1>2, <1>3
<1>5. \A i \in 1..Len(stack') : Faithful(stack'[i], listeners[TypeOf[stack'[i].event]])
  BY <1>1, <1>2, <1>3
<1> QED
  BY <1>3, <1>4, <1>5 DEF StackTypes, ListOf

LEMMA StackStep ==
    ASSUME EventInv, [Next]_vars
    PROVE  StackTypes' /\ \A i \in 1..Len(stack') : Faithful(stack[i], ListOf(stack[i]))'
<1> DEFINE Goal == StackTypes' /\ \A i \in 1..Len(stack') : Faithful(stack[i], ListOf(stack[i]))'
<1>1. /\ TypeOK /\ ListTypes /\ StackTypes /\ ListTypes'
      /\ listeners \in [Types -> Seq(Listener)] /\ stack \in Seq(Dispatches)
      /\ TypeOf \in [Events -> Types]
  BY TypesSplit, ListsStep, EventAssumption DEF EventInv, TypeOK
<1>2. ASSUME NEW i \in 1..Len(stack)
      PROVE  /\ stack[i] \in Dispatches /\ TypeOf[stack[i].event] \in Types
             /\ listeners[TypeOf[stack[i].event]] \in Seq(Listener)
             /\ IsInjective(listeners[TypeOf[stack[i].event]])
             /\ Faithful(stack[i], listeners[TypeOf[stack[i].event]])
  <2>1. stack[i] \in Dispatches
    BY <1>1
  <2>2. TypeOf[stack[i].event] \in Types
    BY <1>1, <2>1 DEF Dispatches
  <2> QED
    BY <1>1, <2>1, <2>2 DEF EventInv, ListOf, ListTypes
<1>3. CASE UNCHANGED <<listeners, stack>>
  BY <1>1, <1>2, <1>3 DEF StackTypes, ListOf
<1>4. ASSUME NEW t \in Types, NEW l \in Listener, NEW s \in Signals \cup {NoSignal},
             AddEventListener(t, l, s)
      PROVE  Goal
  <2>1. /\ listeners' = [listeners EXCEPT ![t] = Append(listeners[t], l)]
        /\ stack' = Record(t, {l}, FALSE)
    BY <1>1, <1>4 DEF AddEventListener, Push
  <2>2. ASSUME NEW i \in 1..Len(stack)
        PROVE  /\ stack'[i] \in Dispatches /\ stack'[i].running = stack[i].running
               /\ Faithful(stack'[i], listeners'[TypeOf[stack'[i].event]])
    <3>0. stack'[i] = IF TypeOf[stack[i].event] # t THEN stack[i]
                      ELSE [stack[i] EXCEPT !.fresh = @ \cup {l}, !.removed = @ \/ FALSE]
      <4>1. i \in DOMAIN stack
        BY <1>1
      <4> QED
        BY <2>1, <4>1 DEF Record
    <3>1. CASE TypeOf[stack[i].event] # t
      <4>1. stack'[i] = stack[i]
        BY <3>0, <3>1
      <4>2. listeners'[TypeOf[stack[i].event]] = listeners[TypeOf[stack[i].event]]
        BY <1>1, <1>2, <2>1, <3>1
      <4> QED
        BY <1>2, <4>1, <4>2
    <3>2. CASE TypeOf[stack[i].event] = t
      <4>1. PICK r : r = [stack[i] EXCEPT !.fresh = @ \cup {l}, !.removed = @ \/ FALSE]
        OBVIOUS
      <4>2. stack'[i] = r /\ listeners'[t] = Append(listeners[t], l)
        BY <1>1, <2>1, <3>0, <3>2, <4>1
      <4>3. /\ r \in Dispatches /\ Faithful(r, Append(listeners[t], l))
            /\ r.event = stack[i].event /\ r.running = stack[i].running
        <5>1. PICK d \in Dispatches : d = stack[i]
          BY <1>2
        <5>2. PICK list \in Seq(Listener) : list = listeners[t] /\ Faithful(d, list)
          BY <1>2, <3>2, <5>1
        <5>3. /\ r \in Dispatches /\ r.event = d.event /\ r.running = d.running
              /\ r.next = d.next /\ r.len = d.len /\ r.start = d.start /\ r.called = d.called
              /\ r.fresh = d.fresh \cup {l} /\ r.removed = d.removed
          BY <4>1, <5>1 DEF Dispatches
        <5>4. Faithful(r, Append(list, l))
          BY <5>1, <5>2, <5>3, Added
        <5> QED
          BY <5>1, <5>2, <5>3, <5>4
      <4> QED
        BY <3>2, <4>2, <4>3
    <3> QED
      BY <3>1, <3>2
  <2>3. stack' = [i \in DOMAIN stack |-> stack'[i]]
    BY <2>1 DEF Record
  <2> QED
    BY <1>1, <2>2, <2>3, StackMapped
<1>5. ASSUME NEW t \in Types, NEW l \in Listener, RemoveEventListener(t, l) PROVE Goal
  <2>1. PICK new : new = Spliced(listeners[t], l)
    OBVIOUS
  <2>2. /\ listeners' = [listeners EXCEPT ![t] = new] /\ listeners[t] \in Seq(Listener)
        /\ stack' = Record(t, {}, TRUE) /\ l \in Range(listeners[t]) /\ IsInjective(listeners[t])
    BY <1>1, <1>5, <2>1 DEF RemoveEventListener, ListTypes
  <2>3. new \in Seq(Listener) /\ Shifted(new, listeners[t])
    BY <2>1, <2>2, SplicedShifts
  <2>4. ASSUME NEW i \in 1..Len(stack)
        PROVE  /\ stack'[i] \in Dispatches /\ stack'[i].running = stack[i].running
               /\ Faithful(stack'[i], listeners'[TypeOf[stack'[i].event]])
    <3>0. stack'[i] = IF TypeOf[stack[i].event] # t THEN stack[i]
                      ELSE [stack[i] EXCEPT !.fresh = @ \cup {}, !.removed = @ \/ TRUE]
      <4>1. i \in DOMAIN stack
        BY <1>1
      <4> QED
        BY <2>2, <4>1 DEF Record
    <3>1. CASE TypeOf[stack[i].event] # t
      <4>1. stack'[i] = stack[i]
        BY <3>0, <3>1
      <4>2. listeners'[TypeOf[stack[i].event]] = listeners[TypeOf[stack[i].event]]
        BY <1>1, <1>2, <2>2, <3>1
      <4> QED
        BY <1>2, <4>1, <4>2
    <3>2. CASE TypeOf[stack[i].event] = t
      <4>1. PICK r : r = [stack[i] EXCEPT !.fresh = @ \cup {}, !.removed = @ \/ TRUE]
        OBVIOUS
      <4>2. stack'[i] = r /\ listeners'[t] = new
        BY <1>1, <2>2, <3>0, <3>2, <4>1
      <4>3. /\ r \in Dispatches /\ r.event = stack[i].event /\ r.running = stack[i].running
            /\ r.next = stack[i].next /\ r.len = stack[i].len /\ r.start = stack[i].start
            /\ r.called = stack[i].called /\ r.fresh = stack[i].fresh /\ r.removed = TRUE
        BY <1>2, <4>1 DEF Dispatches
      <4>4. Faithful(r, new)
        BY <1>2, <2>2, <2>3, <3>2, <4>3, Removed
      <4> QED
        BY <3>2, <4>2, <4>3, <4>4
    <3> QED
      BY <3>1, <3>2
  <2>5. stack' = [i \in DOMAIN stack |-> stack'[i]]
    BY <2>2 DEF Record
  <2> QED
    BY <1>1, <2>4, <2>5, StackMapped
<1>6. ASSUME NEW s \in Signals, Abort(s) PROVE Goal
  <2>1. \A t \in Types : listeners'[t] = Filter(listeners[t], {l \in Listener : <<t, l>> \notin onAbort[s]})
    BY <1>6 DEF Abort
  <2>2. stack' = [i \in DOMAIN stack |->
            [stack[i] EXCEPT !.removed =
                @ \/ listeners'[TypeOf[stack[i].event]] # listeners[TypeOf[stack[i].event]]]]
    BY <1>6 DEF Abort
  <2>3. ASSUME NEW i \in 1..Len(stack)
        PROVE  /\ stack'[i] \in Dispatches /\ stack'[i].running = stack[i].running
               /\ Faithful(stack'[i], listeners'[TypeOf[stack'[i].event]])
    <3>1. PICK t \in Types : t = TypeOf[stack[i].event]
      BY <1>2
    <3>2. PICK new : new = listeners'[t]
      OBVIOUS
    <3>3. new \in Seq(Listener) /\ Shifted(new, listeners[t]) /\ listeners[t] \in Seq(Listener)
      BY <1>1, <2>1, <3>2, FilterShifts
    <3>4. PICK b \in BOOLEAN : b = (stack[i].removed \/ new # listeners[t])
      OBVIOUS
    <3>5. PICK r : r = [stack[i] EXCEPT !.removed = b]
      OBVIOUS
    <3>6. stack'[i] = r
      <4>1. stack'[i] = [stack[i] EXCEPT !.removed =
                @ \/ listeners'[TypeOf[stack[i].event]] # listeners[TypeOf[stack[i].event]]]
        <5>1. i \in DOMAIN stack
          BY <1>1
        <5> QED
          BY <2>2, <5>1
      <4>2. PICK d \in Dispatches : d = stack[i]
        BY <1>2
      <4>3. stack'[i] = [d EXCEPT !.removed = d.removed \/ new # listeners[t]]
        BY <3>1, <3>2, <4>1, <4>2 DEF Dispatches
      <4> QED
        BY <3>4, <3>5, <4>2, <4>3
    <3>7. /\ r \in Dispatches /\ r.event = stack[i].event /\ r.running = stack[i].running
          /\ r.next = stack[i].next /\ r.len = stack[i].len /\ r.start = stack[i].start
          /\ r.called = stack[i].called /\ r.fresh = stack[i].fresh /\ r.removed = b
      BY <1>2, <3>4, <3>5 DEF Dispatches
    <3>8. b = FALSE => ~stack[i].removed /\ new = listeners[t]
      BY <3>4
    <3>9. Faithful(r, new)
      BY <1>2, <3>1, <3>3, <3>7, <3>8, Removed
    <3> QED
      BY <3>1, <3>2, <3>6, <3>7, <3>9
  <2>4. stack' = [i \in DOMAIN stack |-> stack'[i]]
    BY <2>2
  <2> QED
    BY <1>1, <2>3, <2>4, StackMapped
<1>7. ASSUME NEW e \in Events, DispatchEvent(e) PROVE Goal
  <2>1. PICK list \in Seq(Listener) : list = listeners[TypeOf[e]]
    BY <1>1
  <2>2. PICK d : d = [event |-> e, next |-> 1, len |-> Len(list), running |-> FALSE,
                      start |-> list, called |-> <<>>, fresh |-> {}, removed |-> FALSE]
    OBVIOUS
  <2>3. d \in Dispatches /\ Faithful(d, list) /\ d.event = e
    BY <2>1, <2>2, Started
  <2>4. stack' = Append(stack, d) /\ UNCHANGED listeners /\ UserCodeRuns /\ Len(stack) < MaxDepth
    BY <1>7, <2>1, <2>2 DEF DispatchEvent
  <2>5. PICK n \in Nat : n = Len(stack)
    BY <1>1
  <2>6. /\ stack' \in Seq(Dispatches) /\ Len(stack') = n + 1 /\ stack'[n + 1] = d
        /\ \A i \in 1..n : stack'[i] = stack[i]
    BY <1>1, <2>3, <2>4, <2>5
  <2>7. \A i \in 1..n : stack[i].running
    <3>1. \A i \in 1..(n - 1) : stack[i].running
      BY <1>1, <2>5 DEF StackTypes
    <3>2. n # 0 => stack[n].running
      BY <1>1, <2>4, <2>5 DEF UserCodeRuns, Last
    <3>3. \A i \in 1..n : i \in 1..(n - 1) \/ (i = n /\ n # 0)
      BY <2>5
    <3> QED
      BY <3>1, <3>2, <3>3
  <2>8. Len(stack') <= MaxDepth /\ \A i \in 1..Len(stack') - 1 : stack'[i].running
    BY <2>4, <2>5, <2>6, <2>7, EventAssumption
  <2>9. ASSUME NEW i \in 1..(n + 1)
        PROVE  Faithful(stack'[i], listeners[TypeOf[stack'[i].event]])
    <3>1. CASE i = n + 1
      BY <2>1, <2>3, <2>6, <3>1
    <3>2. CASE i \in 1..n
      BY <1>2, <2>5, <2>6, <3>2
    <3> QED
      BY <2>5, <3>1, <3>2
  <2> QED
    BY <2>4, <2>6, <2>8, <2>9 DEF StackTypes, ListOf
<1>8. CASE Call
  <2>1. PICK n \in Nat \ {0} : n = Len(stack) /\ n \in 1..Len(stack)
    BY <1>1, <1>8 DEF Call
  <2>2. PICK d : d = stack[n]
    OBVIOUS
  <2>3. PICK list : list = listeners[TypeOf[d.event]]
    OBVIOUS
  <2>4. /\ d \in Dispatches /\ list \in Seq(Listener) /\ IsInjective(list) /\ Faithful(d, list)
    BY <1>2, <2>1, <2>2, <2>3
  <2>5. d.next <= d.len /\ d.next <= Len(list) /\ UNCHANGED listeners /\ stack # <<>>
    BY <1>8, <2>1, <2>2, <2>3 DEF Call, HasNext, Last
  <2>6. d.next \in Nat /\ d.called \in Seq(Listener)
    BY <2>4 DEF Dispatches
  <2>7. ASSUME d.next # 0 PROVE Goal
    <3>1. PICK p \in 1..Len(list) : p = d.next
      BY <2>4, <2>5, <2>6, <2>7
    <3>2. PICK q \in Nat : q = p + 1
      BY <2>6, <3>1
    <3>3. PICK c : c = Append(d.called, list[p])
      OBVIOUS
    <3>4. c \in Seq(Listener)
      <4>1. list[p] \in Listener
        BY <2>4
      <4> QED
        BY <2>6, <3>3, <4>1
    <3>5. PICK r : r = [d EXCEPT !.next = q, !.running = TRUE, !.called = c]
      OBVIOUS
    <3>6. /\ r \in Dispatches /\ r.event = d.event /\ r.next = p + 1 /\ r.len = d.len
          /\ r.start = d.start /\ r.called = c /\ r.fresh = d.fresh /\ r.removed = d.removed
      BY <2>4, <3>2, <3>4, <3>5 DEF Dispatches
    <3>7. stack' = [stack EXCEPT ![Len(stack)] = r]
      BY <1>8, <2>1, <2>2, <2>3, <3>1, <3>2, <3>3, <3>5 DEF Call, Last
    <3>8. Faithful(r, list)
      BY <2>4, <2>5, <3>1, <3>3, <3>6, Called
    <3> QED
      BY <2>3, <2>5, <3>6, <3>7, <3>8, StackTop
  <2> QED
    BY <2>4, <2>7 DEF Faithful
<1>9. CASE CallReturns
  <2>1. PICK n \in Nat \ {0} : n = Len(stack) /\ n \in 1..Len(stack)
    BY <1>1, <1>9 DEF CallReturns
  <2>2. PICK d : d = stack[n]
    OBVIOUS
  <2>3. d \in Dispatches /\ Faithful(d, listeners[TypeOf[d.event]])
    BY <1>2, <2>1, <2>2
  <2>4. PICK r : r = [d EXCEPT !.running = FALSE]
    OBVIOUS
  <2>5. stack # <<>> /\ UNCHANGED listeners /\ stack' = [stack EXCEPT ![Len(stack)] = r]
    BY <1>1, <1>9, <2>1, <2>2, <2>4 DEF CallReturns
  <2>6. /\ r \in Dispatches /\ r.event = d.event /\ r.next = d.next /\ r.len = d.len
        /\ r.start = d.start /\ r.called = d.called /\ r.fresh = d.fresh /\ r.removed = d.removed
    BY <2>3, <2>4 DEF Dispatches
  <2>7. Faithful(r, listeners[TypeOf[r.event]])
    BY <2>3, <2>6 DEF Faithful, NotAgain, Intact
  <2> QED
    BY <2>5, <2>6, <2>7, StackTop
<1>10. CASE CallThrows \/ DispatchReturns
  BY <1>10, StackPopped DEF CallThrows, DispatchReturns
<1> QED
  BY <1>3, <1>4, <1>5, <1>6, <1>7, <1>8, <1>9, <1>10 DEF Next, vars, AddAborted, SetFlags

-----------------------------------------------------------------------------
(* EventInv holds whatever the callbacks do, in every dispatch under way.   *)
THEOREM EventInvariant == Spec => []EventInv
<1>1. Init => EventInv
  <2> SUFFICES ASSUME Init PROVE EventInv
    OBVIOUS
  <2>1. listeners \in [Types -> Seq(Listener)] /\ \A t \in Types : listeners[t] = <<>>
    BY DEF Init
  <2>2. \A t \in Types : IsInjective(listeners[t])
    BY <2>1 DEF IsInjective
  <2>3. stack = <<>> /\ stack \in Seq(Dispatches) /\ Len(stack) = 0
    BY DEF Init
  <2>4. Len(stack) <= MaxDepth /\ \A i \in 1..Len(stack) - 1 : stack[i].running
    BY <2>3, EventAssumption
  <2>5. TypeOK
    BY <2>1, <2>2, <2>3, <2>4 DEF Init, TypeOK
  <2> QED
    BY <2>3, <2>5 DEF EventInv
<1>2. EventInv /\ [Next]_vars => EventInv'
  <2> SUFFICES ASSUME EventInv, [Next]_vars PROVE EventInv'
    OBVIOUS
  <2>1. TypeOK'
    BY ListsStep, StackStep, TypesSplit DEF EventInv
  <2> QED
    BY <2>1, StackStep DEF EventInv
<1> QED
  BY <1>1, <1>2, PTL DEF Spec

(* The arrays and the stack of dispatches have their types, no array has a  *)
(* listener twice, and only the innermost dispatch is between two calls.    *)
THEOREM EventTypeCorrect == Spec => []TypeOK
<1>1. EventInv => TypeOK
  BY DEF EventInv
<1> QED
  BY <1>1, EventInvariant, PTL

(* A dispatch calls a listener twice only if it was added again meanwhile,  *)
(* whatever its callbacks add, remove, abort and dispatch.                  *)
THEOREM EventCalledOnce == Spec => []CalledOnce
<1>1. EventInv => CalledOnce
  <2> SUFFICES ASSUME EventInv, NEW d \in Range(stack), NEW i \in DOMAIN d.called,
                      NEW j \in DOMAIN d.called, i # j, d.called[i] = d.called[j]
               PROVE  d.called[i] \in d.fresh
    BY DEF CalledOnce
  <2>1. stack \in Seq(Dispatches)
    BY DEF EventInv, TypeOK
  <2>2. PICK n \in 1..Len(stack) : d = stack[n]
    BY <2>1 DEF Range
  <2>3. d \in Dispatches /\ NotAgain(d, ListOf(d))
    BY <2>1, <2>2 DEF EventInv, Faithful
  <2>4. DOMAIN d.called = 1..Len(d.called)
    BY <2>3 DEF Dispatches
  <2> QED
    BY <2>3, <2>4 DEF NotAgain
<1> QED
  BY <1>1, EventInvariant, PTL

(* When nothing was removed, a dispatch calls the listeners there were at   *)
(* its start, all of them, in their order and no others.                    *)
THEOREM EventCalledInOrder == Spec => []CalledInOrder
<1>1. EventInv => CalledInOrder
  <2> SUFFICES ASSUME EventInv, NEW d \in Range(stack), ~d.removed
               PROVE  /\ IsPrefix(d.called, d.start)
                      /\ ~d.running /\ ~HasNext(d) => d.called = d.start
    BY DEF CalledInOrder
  <2>1. stack \in Seq(Dispatches)
    BY DEF EventInv, TypeOK
  <2>2. PICK n \in 1..Len(stack) : d = stack[n]
    BY <2>1 DEF Range
  <2>3. d \in Dispatches /\ Intact(d, ListOf(d))
    BY <2>1, <2>2 DEF EventInv, Faithful
  <2>4. d.called \in Seq(Listener) /\ d.start \in Seq(Listener)
    BY <2>3 DEF Dispatches
  <2>5. PICK m \in Nat : m = Len(d.called)
    BY <2>4
  <2>6. PICK k \in Nat : k = Len(d.start)
    BY <2>4
  <2>7. /\ d.len = k /\ k <= Len(ListOf(d)) /\ d.next = m + 1 /\ d.next \in 1..(k + 1)
        /\ \A i \in 1..m : d.called[i] = d.start[i]
    BY <2>3, <2>5, <2>6 DEF Intact
  <2>8. m <= k
    BY <2>5, <2>6, <2>7
  <2>9. SubSeq(d.called, 1, m) = SubSeq(d.start, 1, m)
    <3>1. PICK a, b : a = SubSeq(d.called, 1, m) /\ b = SubSeq(d.start, 1, m)
      OBVIOUS
    <3>2. /\ \A i \in 1..m : d.called[i] \in Listener
          /\ \A i \in 1..m : d.start[i] \in Listener
      BY <2>4, <2>5, <2>6, <2>8
    <3>3. /\ a \in Seq(Listener) /\ Len(a) = IF 1 <= m THEN m - 1 + 1 ELSE 0
          /\ \A i \in 1..(m - 1 + 1) : a[i] = d.called[1 + i - 1]
      BY <2>5, <3>1, <3>2, SubSeqProperties
    <3>4. /\ b \in Seq(Listener) /\ Len(b) = IF 1 <= m THEN m - 1 + 1 ELSE 0
          /\ \A i \in 1..(m - 1 + 1) : b[i] = d.start[1 + i - 1]
      BY <2>5, <3>1, <3>2, SubSeqProperties
    <3>5. Len(a) = m /\ Len(b) = m /\ \A i \in 1..m : a[i] = b[i]
      BY <2>5, <2>7, <3>3, <3>4
    <3>6. a = b
      BY <3>3, <3>4, <3>5
    <3> QED
      BY <3>1, <3>6
  <2>10. IsPrefix(d.called, d.start)
    BY <2>5, <2>6, <2>8, <2>9 DEF IsPrefix
  <2>11. ASSUME ~HasNext(d) PROVE d.called = d.start
    <3>1. ~(d.next <= d.len) \/ ~(d.next <= Len(ListOf(d)))
      BY <2>11 DEF HasNext, ListOf
    <3>2. Len(ListOf(d)) \in Nat
      <4>1. TypeOf[d.event] \in Types
        BY <2>3, EventAssumption DEF Dispatches
      <4>2. ListOf(d) \in Seq(Listener)
        BY <4>1 DEF EventInv, TypeOK, ListOf
      <4> QED
        BY <4>2
    <3>3. m = k
      BY <2>5, <2>6, <2>7, <3>1, <3>2
    <3>4. Len(d.called) = Len(d.start) /\ \A i \in 1..Len(d.called) : d.called[i] = d.start[i]
      BY <2>5, <2>6, <2>7, <3>3
    <3> QED
      BY <2>4, <3>4, SeqEqual
  <2> QED
    BY <2>10, <2>11
<1> QED
  BY <1>1, EventInvariant, PTL

=============================================================================

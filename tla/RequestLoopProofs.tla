-------------------------- MODULE RequestLoopProofs --------------------------
(***************************************************************************)
(* Proofs about RequestLoop, for any workers, requests and user code.      *)
(***************************************************************************)
EXTENDS RequestLoop, TLAPS

-----------------------------------------------------------------------------
(* Facts about the channel as a sequence.                                   *)

(* Taking the head off a sequence without duplicates removes one element    *)
(* (recv.recv()).                                                           *)
LEMMA TailFacts ==
    ASSUME NEW S, NEW s \in Seq(S), s # <<>>
    PROVE  /\ Tail(s) \in Seq(S)
           /\ Head(s) \in S
           /\ Head(s) \in Range(s)
           /\ Range(Tail(s)) \subseteq Range(s)
           /\ IsInjective(s) => /\ IsInjective(Tail(s))
                                /\ Range(Tail(s)) = Range(s) \ {Head(s)}
<1> DEFINE n == Len(s)
<1>1. n \in Nat /\ n # 0 /\ DOMAIN s = 1..n
  OBVIOUS
<1>2. /\ Tail(s) \in Seq(S) /\ Len(Tail(s)) = n - 1
      /\ \A i \in 1..(n - 1) : Tail(s)[i] = s[i + 1]
      /\ Head(s) = s[1]
  OBVIOUS
<1>3. DOMAIN Tail(s) = 1..(n - 1)
  BY <1>2
<1>4. Head(s) \in S /\ Head(s) \in Range(s)
  BY <1>1, <1>2 DEF Range
<1>5. Range(Tail(s)) \subseteq Range(s)
  BY <1>1, <1>2, <1>3 DEF Range
<1>6. ASSUME IsInjective(s)
      PROVE  IsInjective(Tail(s)) /\ Range(Tail(s)) = Range(s) \ {Head(s)}
  <2>1. \A i, j \in 1..n : s[i] = s[j] => i = j
    BY <1>1, <1>6 DEF IsInjective
  <2>2. IsInjective(Tail(s))
    BY <1>1, <1>2, <1>3, <2>1 DEF IsInjective
  <2>3. Head(s) \notin Range(Tail(s))
    BY <1>1, <1>2, <1>3, <2>1 DEF Range
  <2>4. ASSUME NEW x \in Range(s), x # Head(s)
        PROVE  x \in Range(Tail(s))
    <3>1. PICK i \in 1..n : x = s[i]
      BY <1>1 DEF Range
    <3>2. i - 1 \in 1..(n - 1) /\ Tail(s)[i - 1] = x
      BY <1>1, <1>2, <2>4, <3>1
    <3> QED
      BY <1>3, <3>2 DEF Range
  <2> QED
    BY <1>5, <2>2, <2>3, <2>4
<1> QED
  BY <1>2, <1>4, <1>5, <1>6

(* Appending something new adds one element (channel.send).                 *)
LEMMA AppendFacts ==
    ASSUME NEW S, NEW s \in Seq(S), NEW m \in S
    PROVE  /\ Append(s, m) \in Seq(S)
           /\ Range(Append(s, m)) = Range(s) \cup {m}
           /\ IsInjective(s) /\ m \notin Range(s) => IsInjective(Append(s, m))
<1> DEFINE n == Len(s)
           t == Append(s, m)
<1>1. n \in Nat /\ DOMAIN s = 1..n
  OBVIOUS
<1>2. /\ t \in Seq(S) /\ Len(t) = n + 1
      /\ \A i \in 1..n : t[i] = s[i]
      /\ t[n + 1] = m
  OBVIOUS
<1>3. DOMAIN t = 1..(n + 1)
  BY <1>2
<1>4. Range(t) \subseteq Range(s) \cup {m}
  BY <1>1, <1>2, <1>3 DEF Range
<1>5. Range(s) \cup {m} \subseteq Range(t)
  <2>1. m \in Range(t)
    BY <1>1, <1>2, <1>3 DEF Range
  <2>2. Range(s) \subseteq Range(t)
    BY <1>1, <1>2, <1>3 DEF Range
  <2> QED
    BY <2>1, <2>2
<1>6. ASSUME IsInjective(s), m \notin Range(s)
      PROVE  IsInjective(t)
  <2>1. \A i, j \in 1..n : s[i] = s[j] => i = j
    BY <1>1, <1>6 DEF IsInjective
  <2>2. \A i \in 1..n : s[i] # m
    BY <1>1, <1>6 DEF Range
  <2> QED
    BY <1>1, <1>2, <1>3, <2>1, <2>2 DEF IsInjective
<1> HIDE DEF t
<1> QED
  BY <1>2, <1>4, <1>5, <1>6 DEF t

LEMMA EmptyFacts ==
    /\ Range(<<>>) = {}
    /\ IsInjective(<<>>)
    /\ \A S : <<>> \in Seq(S)
BY DEF Range, IsInjective

-----------------------------------------------------------------------------
(* The inductive invariant.  SenderUsedOnce alone is not inductive: that a  *)
(* control message is not in the channel twice needs the record of what was *)
(* sent, and NoLostRequest needs the sender to be found where it is used.   *)

ControlSent ==
    \A w \in Workers : \A m \in Control : m \in Range(chan[w]) => m \in sent[w]

LoopInv == TypeOK /\ SenderUsedOnce /\ NoLostRequest /\ ControlSent

LEMMA InitInv == LoopInit => LoopInv
<1> SUFFICES ASSUME LoopInit PROVE LoopInv
  OBVIOUS
<1>1. TypeOK
  BY EmptyFacts, LoopAssumption
     DEF LoopInit, TypeOK, Phases, Promises, Answers, Control
<1>2. \A w \in Workers : Queued(w) = {} /\ Range(chan[w]) = {} /\ IsInjective(chan[w])
  BY EmptyFacts DEF LoopInit, Queued
<1>3. SenderUsedOnce /\ NoLostRequest /\ ControlSent
  BY <1>2 DEF LoopInit, SenderUsedOnce, NoLostRequest, ControlSent
<1> QED
  BY <1>1, <1>3 DEF LoopInv

(* What recv.recv() does to the channels.                                   *)
LEMMA TakeFacts ==
    ASSUME LoopInv, NEW w \in Workers, chan[w] # <<>>,
           chan' = [chan EXCEPT ![w] = Tail(@)]
    PROVE  /\ chan' \in [Workers -> Seq(Requests \cup Control)]
           /\ Head(chan[w]) \in Requests \cup Control
           /\ Head(chan[w]) \notin Control =>
                 /\ Head(chan[w]) \in Requests
                 /\ Head(chan[w]) \in Queued(w)
                 /\ resp[Head(chan[w])] = "waiting"
                 /\ home[Head(chan[w])] = w
                 /\ Head(chan[w]) \notin requests[w]
           /\ \A v \in Workers :
                 /\ Range(chan'[v]) \subseteq Range(chan[v])
                 /\ IsInjective(chan'[v])
                 /\ Queued(v)' = IF v = w THEN Queued(w) \ {Head(chan[w])} ELSE Queued(v)
<1>1. chan \in [Workers -> Seq(Requests \cup Control)]
  BY DEF LoopInv, TypeOK
<1>2. \A v \in Workers : IsInjective(chan[v])
  BY DEF LoopInv, SenderUsedOnce
<1>3. /\ Tail(chan[w]) \in Seq(Requests \cup Control)
      /\ Head(chan[w]) \in Requests \cup Control
      /\ Head(chan[w]) \in Range(chan[w])
      /\ IsInjective(Tail(chan[w]))
      /\ Range(Tail(chan[w])) = Range(chan[w]) \ {Head(chan[w])}
  BY <1>1, <1>2, TailFacts
<1>4. chan'[w] = Tail(chan[w]) /\ \A v \in Workers : v # w => chan'[v] = chan[v]
  BY <1>1
<1>5. chan' \in [Workers -> Seq(Requests \cup Control)]
  BY <1>1, <1>3
<1>6. \A v \in Workers : Range(chan'[v]) \subseteq Range(chan[v]) /\ IsInjective(chan'[v])
  BY <1>2, <1>3, <1>4
<1>7. \A v \in Workers :
          Queued(v)' = IF v = w THEN Queued(w) \ {Head(chan[w])} ELSE Queued(v)
  BY <1>3, <1>4 DEF Queued
<1>8. Head(chan[w]) \notin Control =>
          /\ Head(chan[w]) \in Requests
          /\ Head(chan[w]) \in Queued(w)
          /\ resp[Head(chan[w])] = "waiting"
          /\ home[Head(chan[w])] = w
          /\ Head(chan[w]) \notin requests[w]
  BY <1>3 DEF Queued, LoopInv, SenderUsedOnce
<1> QED
  BY <1>3, <1>5, <1>6, <1>7, <1>8

(* Steps that leave the channels, the oneshots, the queue and the bodies    *)
(* alone preserve the invariant if they preserve types.                     *)
LEMMA QuietStep ==
    ASSUME LoopInv, TypeOK',
           UNCHANGED <<chan, resp, home, requests, continuations, sent>>
    PROVE  LoopInv'
<1>1. \A w : Queued(w)' = Queued(w)
  BY DEF Queued
<1> QED
  BY <1>1 DEF LoopInv, SenderUsedOnce, NoLostRequest, ControlSent

LEMMA SpawnInv == ASSUME LoopInv, NEW w \in Workers, Spawn(w) PROVE LoopInv'
<1>1. TypeOK'
  BY DEF LoopInv, TypeOK, Spawn, Phases
<1> QED
  BY <1>1, QuietStep DEF Spawn

LEMMA SendInv ==
    ASSUME LoopInv, NEW w \in Workers, NEW r \in Requests, Send(w, r)
    PROVE  LoopInv'
<1> USE DEF Send
<1>1. TypeOK /\ SenderUsedOnce /\ NoLostRequest /\ ControlSent
  BY DEF LoopInv
<1>2. \A v \in Workers : r \notin Queued(v) /\ r \notin requests[v] /\ r \notin continuations[v]
  BY <1>1 DEF SenderUsedOnce
<1>3. r \notin Range(chan[w])
  BY <1>2 DEF Queued
<1>4. /\ Append(chan[w], r) \in Seq(Requests \cup Control)
      /\ Range(Append(chan[w], r)) = Range(chan[w]) \cup {r}
      /\ IsInjective(Append(chan[w], r))
  <2>1. chan[w] \in Seq(Requests \cup Control) /\ IsInjective(chan[w])
    BY <1>1 DEF TypeOK, SenderUsedOnce
  <2> QED
    BY <1>3, <2>1, AppendFacts
<1>5. chan'[w] = Append(chan[w], r) /\ \A v \in Workers : v # w => chan'[v] = chan[v]
  BY <1>1 DEF TypeOK
<1>6. TypeOK'
  BY <1>1, <1>4 DEF TypeOK, Answers
<1>7. \A v \in Workers :
          /\ Queued(v)' = IF v = w THEN Queued(w) \cup {r} ELSE Queued(v)
          /\ IsInjective(chan'[v])
  BY <1>1, <1>4, <1>5 DEF Queued, SenderUsedOnce
<1>8. resp'[r] = "waiting" /\ home'[r] = w
      /\ \A q \in Requests : q # r => resp'[q] = resp[q] /\ home'[q] = home[q]
  BY <1>1 DEF TypeOK
<1>9. SenderUsedOnce'
  BY <1>1, <1>2, <1>7, <1>8 DEF SenderUsedOnce, TypeOK, Queued
<1>10. NoLostRequest'
  BY <1>1, <1>7, <1>8 DEF NoLostRequest
<1>11. ControlSent'
  BY <1>1, <1>4, <1>5, LoopAssumption DEF ControlSent
<1> QED
  BY <1>6, <1>9, <1>10, <1>11 DEF LoopInv

(* A control message reaches channels that did not hold it.                 *)
LEMMA SendControlInv ==
    ASSUME LoopInv, NEW W \in SUBSET Workers, NEW m \in Control,
           \A w \in W : m \notin sent[w],
           SendControl(W, m)
    PROVE  LoopInv'
<1> USE DEF SendControl
<1>1. TypeOK /\ SenderUsedOnce /\ NoLostRequest /\ ControlSent
  BY DEF LoopInv
<1>2. ASSUME NEW v \in Workers
      PROVE  /\ chan'[v] \in Seq(Requests \cup Control)
             /\ chan'[v] = chan[v] \/ (v \in W /\ Range(chan'[v]) = Range(chan[v]) \cup {m})
             /\ IsInjective(chan'[v])
  <2>1. chan[v] \in Seq(Requests \cup Control) /\ IsInjective(chan[v])
    BY <1>1 DEF TypeOK, SenderUsedOnce
  <2>2. CASE v \in W /\ Open(v)
    <3>1. m \notin Range(chan[v])
      BY <1>1, <2>2 DEF ControlSent
    <3> QED
      BY <2>1, <2>2, <3>1, AppendFacts
  <2>3. CASE ~(v \in W /\ Open(v))
    BY <2>1, <2>3
  <2> QED
    BY <2>2, <2>3
<1>3. \A v \in Workers : Queued(v)' = Queued(v)
  BY <1>2, LoopAssumption DEF Queued
<1>4. TypeOK'
  BY <1>1, <1>2 DEF TypeOK
<1>5. SenderUsedOnce'
  BY <1>1, <1>2, <1>3 DEF SenderUsedOnce
<1>6. NoLostRequest'
  BY <1>1, <1>3 DEF NoLostRequest
<1>7. ControlSent'
  BY <1>1, <1>2 DEF ControlSent, TypeOK
<1> QED
  BY <1>4, <1>5, <1>6, <1>7 DEF LoopInv

(* A worker that ends answers or drops everything it held.                  *)
LEMMA QuitInv ==
    ASSUME LoopInv, NEW w \in Workers, NEW cancel \in Answers, Quit(w, cancel)
    PROVE  LoopInv'
<1> USE DEF Quit
<1>1. TypeOK /\ SenderUsedOnce /\ NoLostRequest /\ ControlSent
  BY DEF LoopInv
<1>2. chan'[w] = <<>> /\ \A v \in Workers : v # w => chan'[v] = chan[v]
  BY <1>1 DEF TypeOK
<1>3. Queued(w)' = {} /\ \A v \in Workers : v # w => Queued(v)' = Queued(v)
  BY <1>2, EmptyFacts DEF Queued
<1>4. requests'[w] = {} /\ \A v \in Workers : v # w => requests'[v] = requests[v]
  BY <1>1 DEF TypeOK
<1>5. continuations'[w] = {}
      /\ \A v \in Workers : v # w => continuations'[v] = continuations[v]
  BY <1>1 DEF TypeOK
<1>6. TypeOK'
  <2>1. chan' \in [Workers -> Seq(Requests \cup Control)]
    BY <1>1, EmptyFacts DEF TypeOK
  <2>2. resp' \in [Requests -> Answers \cup {"unsent", "waiting"}]
    BY <1>1 DEF TypeOK, Answers
  <2> QED
    BY <1>1, <2>1, <2>2 DEF TypeOK, Phases, Promises
<1>7. \A r \in Requests : /\ home'[r] = home[r]
                          /\ home[r] # w \/ resp[r] # "waiting" => resp'[r] = resp[r]
  BY <1>1 DEF SenderUsedOnce
<1>8. \A r \in Requests : home[r] = w => resp'[r] # "waiting"
  BY <1>1 DEF NoLostRequest, Answers
<1>9. SenderUsedOnce'
  <2> SUFFICES ASSUME NEW v \in Workers
               PROVE  /\ requests'[v] \cap Queued(v)' = {}
                      /\ \A r \in requests'[v] \cup Queued(v)' :
                            resp'[r] = "waiting" /\ home'[r] = v
                      /\ \A r \in continuations'[v] : resp'[r] = "done" /\ home'[r] = v
                      /\ IsInjective(chan'[v])
    BY DEF SenderUsedOnce
  <2>1. CASE v = w
    BY <1>2, <1>3, <1>4, <1>5, <2>1, EmptyFacts
  <2>2. CASE v # w
    <3>1. requests[v] \subseteq Requests /\ Queued(v) \subseteq Requests
          /\ continuations[v] \subseteq Requests
      BY <1>1 DEF TypeOK, Queued
    <3> QED
      BY <1>1, <1>2, <1>3, <1>4, <1>5, <1>7, <2>2, <3>1 DEF SenderUsedOnce
  <2> QED
    BY <2>1, <2>2
<1>10. NoLostRequest'
  BY <1>1, <1>3, <1>4, <1>7, <1>8 DEF NoLostRequest
<1>11. ControlSent'
  BY <1>1, <1>2, EmptyFacts DEF ControlSent
<1> QED
  BY <1>6, <1>9, <1>10, <1>11 DEF LoopInv

(* The head of the channel is answered without entering the queue.          *)
LEMMA AnswerHeadInv ==
    ASSUME LoopInv, NEW w \in Workers, NEW a \in Answers,
           chan[w] # <<>>, Head(chan[w]) \notin Control,
           chan' = [chan EXCEPT ![w] = Tail(@)],
           resp' = [resp EXCEPT ![Head(chan[w])] = a],
           \/ UNCHANGED continuations
           \/ /\ a = "done"
              /\ continuations' = [continuations EXCEPT ![w] = @ \cup {Head(chan[w])}],
           UNCHANGED <<home, requests, sent>>,
           TypeOK'
    PROVE  LoopInv'
<1> DEFINE r == Head(chan[w])
<1>1. TypeOK /\ SenderUsedOnce /\ NoLostRequest /\ ControlSent
  BY DEF LoopInv
<1>2. /\ r \in Requests /\ r \in Queued(w) /\ home[r] = w /\ r \notin requests[w]
      /\ \A v \in Workers :
            /\ Range(chan'[v]) \subseteq Range(chan[v])
            /\ IsInjective(chan'[v])
            /\ Queued(v)' = IF v = w THEN Queued(w) \ {r} ELSE Queued(v)
  BY TakeFacts
<1>3. resp'[r] = a /\ \A q \in Requests : q # r => resp'[q] = resp[q]
  BY <1>1, <1>2 DEF TypeOK
<1>4. \A v \in Workers : r \notin requests'[v] \cup Queued(v)'
  BY <1>1, <1>2 DEF SenderUsedOnce
<1>5. resp[r] = "waiting" /\ \A v \in Workers : r \notin continuations[v]
  BY <1>1, <1>2 DEF SenderUsedOnce
<1>6. SenderUsedOnce'
  <2> SUFFICES ASSUME NEW v \in Workers
               PROVE  /\ requests'[v] \cap Queued(v)' = {}
                      /\ \A q \in requests'[v] \cup Queued(v)' :
                            resp'[q] = "waiting" /\ home'[q] = v
                      /\ \A q \in continuations'[v] : resp'[q] = "done" /\ home'[q] = v
                      /\ IsInjective(chan'[v])
    BY DEF SenderUsedOnce
  <2>1. requests[v] \subseteq Requests /\ Queued(v) \subseteq Requests
        /\ continuations[v] \subseteq Requests
    BY <1>1 DEF TypeOK, Queued
  <2>2. requests'[v] \cap Queued(v)' = {}
    BY <1>1, <1>2 DEF SenderUsedOnce
  <2>3. \A q \in requests'[v] \cup Queued(v)' : resp'[q] = "waiting" /\ home'[q] = v
    BY <1>1, <1>2, <1>3, <1>4, <2>1 DEF SenderUsedOnce
  <2>4. continuations'[v] = continuations[v]
        \/ (v = w /\ a = "done" /\ continuations'[v] = continuations[v] \cup {r})
    BY <1>1 DEF TypeOK
  <2>5. \A q \in continuations'[v] : resp'[q] = "done" /\ home'[q] = v
    BY <1>1, <1>2, <1>3, <1>5, <2>1, <2>4 DEF SenderUsedOnce
  <2> QED
    BY <1>2, <2>2, <2>3, <2>5
<1>7. NoLostRequest'
  BY <1>1, <1>2, <1>3 DEF NoLostRequest, Answers
<1>8. ControlSent'
  BY <1>1, <1>2 DEF ControlSent
<1> QED
  BY <1>6, <1>7, <1>8 DEF LoopInv

(* A queued request is answered and leaves the queue.                       *)
LEMMA AnswerQueuedInv ==
    ASSUME LoopInv, NEW w \in Workers, NEW r \in requests[w], NEW a \in Answers,
           requests' = [requests EXCEPT ![w] = @ \ {r}],
           resp' = [resp EXCEPT ![r] = a],
           \/ UNCHANGED continuations
           \/ /\ a = "done"
              /\ continuations' = [continuations EXCEPT ![w] = @ \cup {r}],
           UNCHANGED <<chan, home, sent>>,
           TypeOK'
    PROVE  LoopInv'
<1>1. TypeOK /\ SenderUsedOnce /\ NoLostRequest /\ ControlSent
  BY DEF LoopInv
<1>2. r \in Requests /\ resp[r] = "waiting" /\ home[r] = w /\ r \notin Queued(w)
  BY <1>1 DEF TypeOK, SenderUsedOnce
<1>3. \A v \in Workers : Queued(v)' = Queued(v)
  BY DEF Queued
<1>4. resp'[r] = a /\ \A q \in Requests : q # r => resp'[q] = resp[q]
  BY <1>1, <1>2 DEF TypeOK
<1>5. \A v \in Workers : requests'[v] = IF v = w THEN requests[w] \ {r} ELSE requests[v]
  BY <1>1 DEF TypeOK
<1>6. \A v \in Workers : r \notin requests'[v] \cup Queued(v) /\ r \notin continuations[v]
  BY <1>1, <1>2, <1>5 DEF SenderUsedOnce
<1>7. SenderUsedOnce'
  <2> SUFFICES ASSUME NEW v \in Workers
               PROVE  /\ requests'[v] \cap Queued(v)' = {}
                      /\ \A q \in requests'[v] \cup Queued(v)' :
                            resp'[q] = "waiting" /\ home'[q] = v
                      /\ \A q \in continuations'[v] : resp'[q] = "done" /\ home'[q] = v
                      /\ IsInjective(chan'[v])
    BY DEF SenderUsedOnce
  <2>1. requests[v] \subseteq Requests /\ Queued(v) \subseteq Requests
        /\ continuations[v] \subseteq Requests
    BY <1>1 DEF TypeOK, Queued
  <2>2. requests'[v] \cap Queued(v)' = {}
    BY <1>1, <1>3, <1>5 DEF SenderUsedOnce
  <2>3. \A q \in requests'[v] \cup Queued(v)' : resp'[q] = "waiting" /\ home'[q] = v
    BY <1>1, <1>3, <1>4, <1>5, <1>6, <2>1 DEF SenderUsedOnce
  <2>4. continuations'[v] = continuations[v]
        \/ (v = w /\ a = "done" /\ continuations'[v] = continuations[v] \cup {r})
    BY <1>1 DEF TypeOK
  <2>5. \A q \in continuations'[v] : resp'[q] = "done" /\ home'[q] = v
    BY <1>1, <1>2, <1>4, <1>6, <2>1, <2>4 DEF SenderUsedOnce
  <2> QED
    BY <1>1, <2>2, <2>3, <2>5 DEF SenderUsedOnce
<1>8. NoLostRequest'
  BY <1>1, <1>3, <1>4, <1>5 DEF NoLostRequest, Answers
<1>9. ControlSent'
  BY <1>1 DEF ControlSent
<1> QED
  BY <1>7, <1>8, <1>9 DEF LoopInv

LEMMA StartPendingInv ==
    ASSUME LoopInv, NEW w \in Workers, StartPending(w) PROVE LoopInv'
<1> DEFINE r == Head(chan[w])
<1> USE DEF StartPending, RecvRequest
<1>1. TypeOK /\ SenderUsedOnce /\ NoLostRequest /\ ControlSent
  BY DEF LoopInv
<1>2. /\ chan' \in [Workers -> Seq(Requests \cup Control)]
      /\ r \in Requests /\ r \in Queued(w) /\ home[r] = w /\ resp[r] = "waiting"
      /\ \A v \in Workers :
            /\ Range(chan'[v]) \subseteq Range(chan[v])
            /\ IsInjective(chan'[v])
            /\ Queued(v)' = IF v = w THEN Queued(w) \ {r} ELSE Queued(v)
  BY TakeFacts
<1>3. TypeOK'
  BY <1>1, <1>2 DEF TypeOK, Promises
<1>4. \A v \in Workers : requests'[v] = IF v = w THEN requests[w] \cup {r} ELSE requests[v]
  BY <1>1 DEF TypeOK
<1>5. SenderUsedOnce'
  BY <1>1, <1>2, <1>4 DEF SenderUsedOnce
<1>6. NoLostRequest'
  BY <1>1, <1>2, <1>4 DEF NoLostRequest
<1>7. ControlSent'
  BY <1>1, <1>2 DEF ControlSent
<1> QED
  BY <1>3, <1>5, <1>6, <1>7 DEF LoopInv

LEMMA RecvShutdownInv ==
    ASSUME LoopInv, NEW w \in Workers, RecvShutdown(w) PROVE LoopInv'
<1> USE DEF RecvShutdown
<1>1. TypeOK /\ SenderUsedOnce /\ NoLostRequest /\ ControlSent
  BY DEF LoopInv
<1>2. /\ chan' \in [Workers -> Seq(Requests \cup Control)]
      /\ \A v \in Workers :
            /\ Range(chan'[v]) \subseteq Range(chan[v])
            /\ IsInjective(chan'[v])
            /\ Queued(v)' = IF v = w THEN Queued(w) \ {Head(chan[w])} ELSE Queued(v)
  BY TakeFacts
<1>3. \A v \in Workers : Queued(v)' = Queued(v)
  BY <1>2, LoopAssumption DEF Queued, Control
<1>4. TypeOK'
  BY <1>1, <1>2 DEF TypeOK
<1>5. SenderUsedOnce'
  BY <1>1, <1>2, <1>3 DEF SenderUsedOnce
<1>6. NoLostRequest'
  BY <1>1, <1>3 DEF NoLostRequest
<1>7. ControlSent'
  BY <1>1, <1>2 DEF ControlSent
<1> QED
  BY <1>4, <1>5, <1>6, <1>7 DEF LoopInv

LEMMA ContinuationDoneInv ==
    ASSUME LoopInv, NEW w \in Workers, NEW r \in Requests, ContinuationDone(w, r)
    PROVE  LoopInv'
<1> USE DEF ContinuationDone
<1>1. TypeOK /\ SenderUsedOnce /\ NoLostRequest /\ ControlSent
  BY DEF LoopInv
<1>2. TypeOK'
  BY <1>1 DEF TypeOK
<1>3. \A v \in Workers : Queued(v)' = Queued(v) /\ continuations'[v] \subseteq continuations[v]
  BY <1>1 DEF Queued, TypeOK
<1>4. SenderUsedOnce' /\ NoLostRequest' /\ ControlSent'
  BY <1>1, <1>3 DEF SenderUsedOnce, NoLostRequest, ControlSent
<1> QED
  BY <1>2, <1>4 DEF LoopInv

(* cancel_all(Unresolvable) uses every sender of the queue and empties it.  *)
LEMMA DrainEndInv ==
    ASSUME LoopInv, NEW w \in Workers, DrainEnd(w) PROVE LoopInv'
<1> USE DEF DrainEnd
<1>1. TypeOK /\ SenderUsedOnce /\ NoLostRequest /\ ControlSent
  BY DEF LoopInv
<1>2. TypeOK'
  BY <1>1 DEF TypeOK, Phases, Answers, Promises
<1>3. \A v \in Workers :
         /\ Queued(v)' = Queued(v)
         /\ requests'[v] = IF v = w THEN {} ELSE requests[v]
  BY <1>1 DEF Queued, TypeOK
<1>4. \A r \in Requests : r \notin requests[w] => resp'[r] = resp[r]
  OBVIOUS
<1>5. \A r \in requests[w] : r \in Requests /\ resp'[r] = "unresolvable"
  BY <1>1 DEF TypeOK
<1>6. SenderUsedOnce'
  <2> SUFFICES ASSUME NEW v \in Workers
               PROVE  /\ requests'[v] \cap Queued(v)' = {}
                      /\ \A q \in requests'[v] \cup Queued(v)' :
                            resp'[q] = "waiting" /\ home'[q] = v
                      /\ \A q \in continuations'[v] : resp'[q] = "done" /\ home'[q] = v
                      /\ IsInjective(chan'[v])
    BY DEF SenderUsedOnce
  <2>1. requests[v] \subseteq Requests /\ Queued(v) \subseteq Requests
        /\ continuations[v] \subseteq Requests
    BY <1>1 DEF TypeOK, Queued
  <2>2. \A q \in requests'[v] \cup Queued(v)' : q \notin requests[w]
    BY <1>1, <1>3 DEF SenderUsedOnce
  <2>3. \A q \in continuations[v] : q \notin requests[w]
    BY <1>1 DEF SenderUsedOnce
  <2> QED
    BY <1>1, <1>3, <1>4, <2>1, <2>2, <2>3 DEF SenderUsedOnce
<1>7. NoLostRequest'
  BY <1>1, <1>3, <1>4, <1>5 DEF NoLostRequest
<1>8. ControlSent'
  BY <1>1 DEF ControlSent
<1> QED
  BY <1>2, <1>6, <1>7, <1>8 DEF LoopInv

(* Running user code leaves the event loop as it was or makes it busy.      *)
LEMMA BusyType ==
    ASSUME TypeOK, NEW w \in Workers,
           \E b \in {loopBusy[w], TRUE} : loopBusy' = [loopBusy EXCEPT ![w] = b]
    PROVE  loopBusy' \in [Workers -> BOOLEAN]
<1>1. PICK b \in {loopBusy[w], TRUE} : loopBusy' = [loopBusy EXCEPT ![w] = b]
  OBVIOUS
<1>2. loopBusy \in [Workers -> BOOLEAN]
  BY DEF TypeOK
<1>3. b \in BOOLEAN
  BY <1>1, <1>2, Zenon
<1> QED
  BY <1>1, <1>2, <1>3

LEMMA WorkerStepInv ==
    ASSUME LoopInv, NEW w \in Workers, WorkerStep(w) PROVE LoopInv'
<1>0. TypeOK
  BY DEF LoopInv
<1>1. CASE InitDone(w)
  <2>1. TypeOK'
    BY <1>0, <1>1 DEF InitDone, TypeOK, Phases
  <2> QED
    BY <1>1, <2>1, QuietStep DEF InitDone
<1>2. CASE InitFailed(w)
  <2>1. TypeOK'
    BY <1>0, <1>2 DEF InitFailed, TypeOK, Phases
  <2> QED
    BY <1>2, <2>1, QuietStep DEF InitFailed
<1>3. CASE LoopExit(w)
  BY <1>3, QuitInv DEF LoopExit, Answers
<1>4. CASE RecvShutdown(w)
  BY <1>4, RecvShutdownInv
<1>5. CASE RecvTerminate(w)
  BY <1>5, QuitInv DEF RecvTerminate, Answers
<1>6. CASE RecvLateRequest(w)
  <2>1. TypeOK'
    BY <1>0, <1>6, TakeFacts DEF RecvLateRequest, TypeOK, Answers
  <2> QED
    BY <1>6, <2>1, AnswerHeadInv DEF RecvLateRequest, Answers
<1>7. CASE StartFailed(w)
  <2>1. TypeOK'
    <3>1. loopBusy' \in [Workers -> BOOLEAN]
      BY <1>0, <1>7, BusyType DEF StartFailed
    <3>2. resp' \in [Requests -> Answers \cup {"unsent", "waiting"}]
      BY <1>0, <1>7 DEF StartFailed, TypeOK, Answers
    <3> QED
      BY <1>0, <1>7, <3>1, <3>2, TakeFacts DEF StartFailed, RecvRequest, TypeOK
  <2> QED
    BY <1>7, <2>1, AnswerHeadInv DEF StartFailed, RecvRequest, Answers
<1>8. CASE StartPending(w)
  BY <1>8, StartPendingInv
<1>9. CASE StartReady(w)
  <2> USE <1>9 DEF StartReady, RecvRequest
  <2>1. Head(chan[w]) \in Requests
    BY TakeFacts
  <2>2. PICK body \in Bodies(Head(chan[w])) :
            continuations' = [continuations EXCEPT ![w] = @ \cup body]
    OBVIOUS
  <2>3. body = {} \/ body = {Head(chan[w])}
    BY <2>2 DEF Bodies
  <2>4. \/ UNCHANGED continuations
        \/ continuations' = [continuations EXCEPT ![w] = @ \cup {Head(chan[w])}]
    BY <1>0, <2>2, <2>3 DEF TypeOK
  <2>5. TypeOK'
    BY <1>0, <2>1, <2>4, TakeFacts DEF TypeOK, Answers
  <2> QED
    BY <2>4, <2>5, AnswerHeadInv DEF Answers
<1>10. CASE FailedReply(w)
  <2> USE <1>10 DEF FailedReply
  <2>1. PICK a \in Answers : resp' = [resp EXCEPT ![Head(chan[w])] = a]
    BY DEF Answers
  <2>2. TypeOK'
    BY <1>0, <2>1, TakeFacts DEF TypeOK
  <2> QED
    BY <2>1, <2>2, AnswerHeadInv
<1>11. CASE FailedExit(w)
  BY <1>11, QuitInv DEF FailedExit, Answers
<1>12. ASSUME NEW r \in Requests, FinishFailed(w, r) PROVE LoopInv'
  <2>1. TypeOK'
    BY <1>0, <1>12 DEF FinishFailed, TypeOK, Answers, Promises
  <2> QED
    BY <1>12, <2>1, AnswerQueuedInv DEF FinishFailed, Answers
<1>13. ASSUME NEW r \in Requests, FinishDone(w, r) PROVE LoopInv'
  <2> USE <1>13 DEF FinishDone
  <2>1. PICK body \in Bodies(r) :
            continuations' = [continuations EXCEPT ![w] = @ \cup body]
    OBVIOUS
  <2>2. body = {} \/ body = {r}
    BY <2>1 DEF Bodies
  <2>3. \/ UNCHANGED continuations
        \/ continuations' = [continuations EXCEPT ![w] = @ \cup {r}]
    BY <1>0, <2>1, <2>2 DEF TypeOK
  <2>4. TypeOK'
    <3>1. loopBusy' \in [Workers -> BOOLEAN]
      BY <1>0, BusyType
    <3>2. /\ resp' \in [Requests -> Answers \cup {"unsent", "waiting"}]
          /\ promise' \in [Requests -> Promises]
      BY <1>0 DEF TypeOK, Answers, Promises
    <3>3. continuations' \in [Workers -> SUBSET Requests]
      BY <1>0, <2>3 DEF TypeOK
    <3> QED
      BY <1>0, <3>1, <3>2, <3>3 DEF TypeOK
  <2> QED
    BY <2>3, <2>4, AnswerQueuedInv DEF Answers
<1>14. ASSUME NEW r \in Requests, FinishRearmed(w, r) PROVE LoopInv'
  <2>1. TypeOK'
    BY <1>0, <1>14 DEF FinishRearmed, TypeOK, Promises
  <2> QED
    BY <1>14, <2>1, QuietStep DEF FinishRearmed
<1>15. ASSUME NEW r \in Requests, ContinuationDone(w, r) PROVE LoopInv'
  BY <1>15, ContinuationDoneInv
<1>16. CASE ContinuationPolled(w)
  <2>1. TypeOK'
    BY <1>0, <1>16 DEF ContinuationPolled, TypeOK
  <2> QED
    BY <1>16, <2>1, QuietStep DEF ContinuationPolled
<1>17. ASSUME StepEventLoop(w), phase' \in [Workers -> Phases],
              loopBusy' \in [Workers -> BOOLEAN]
       PROVE  LoopInv'
  <2>1. PICK f \in [Pending(w) -> {"pending"} \cup Settled] :
            promise' = [r \in Requests |-> IF r \in Pending(w) THEN f[r] ELSE promise[r]]
    BY <1>17 DEF StepEventLoop
  <2>2. promise' \in [Requests -> Promises]
    BY <1>0, <2>1 DEF TypeOK, Promises, Settled
  <2>3. TypeOK'
    BY <1>0, <1>17, <2>2 DEF StepEventLoop, TypeOK
  <2> QED
    BY <1>17, <2>3, QuietStep DEF StepEventLoop
<1>18. CASE StepBusy(w)
  BY <1>0, <1>17, <1>18 DEF StepBusy, TypeOK
<1>19. CASE StepEmptied(w)
  BY <1>0, <1>17, <1>19 DEF StepEmptied, TypeOK, Phases
<1>20. CASE StepFailed(w)
  BY <1>0, <1>17, <1>20 DEF StepFailed, TypeOK
<1>21. CASE DrainEnd(w)
  BY <1>21, DrainEndInv
<1>22. CASE Panic(w)
  BY <1>22, QuitInv DEF Panic, Answers
<1>23. CASE Hang(w)
  <2>1. TypeOK'
    BY <1>0, <1>23 DEF Hang, TypeOK, Phases
  <2> QED
    BY <1>23, <2>1, QuietStep DEF Hang
<1> QED
  BY <1>1, <1>2, <1>3, <1>4, <1>5, <1>6, <1>7, <1>8, <1>9, <1>10, <1>11, <1>12,
     <1>13, <1>14, <1>15, <1>16, <1>18, <1>19, <1>20, <1>21, <1>22, <1>23
     DEF WorkerStep, Receive, Finish

LEMMA LoopNextInv == LoopInv /\ [LoopNext]_loopVars => LoopInv'
<1> SUFFICES ASSUME LoopInv, [LoopNext]_loopVars PROVE LoopInv'
  OBVIOUS
<1>1. ASSUME NEW w \in Workers, Spawn(w) PROVE LoopInv'
  BY <1>1, SpawnInv
<1>2. ASSUME NEW w \in Workers, NEW r \in Requests, Send(w, r) PROVE LoopInv'
  BY <1>2, SendInv
<1>3. ASSUME NEW W \in SUBSET Workers,
             \A w \in W : phase[w] # "unborn" /\ sent[w] = {},
             SendControl(W, "Shutdown")
      PROVE  LoopInv'
  BY <1>3, SendControlInv DEF Control
<1>4. ASSUME NEW W \in SUBSET Workers,
             \A w \in W : sent[w] = {"Shutdown"},
             SendControl(W, "Terminate")
      PROVE  LoopInv'
  BY <1>4, SendControlInv DEF Control
<1>5. ASSUME NEW w \in Workers, WorkerStep(w) PROVE LoopInv'
  BY <1>5, WorkerStepInv
<1>6. CASE UNCHANGED loopVars
  <2>1. TypeOK'
    BY <1>6 DEF LoopInv, TypeOK, loopVars
  <2> QED
    BY <1>6, <2>1, QuietStep DEF loopVars
<1> QED
  BY <1>1, <1>2, <1>3, <1>4, <1>5, <1>6 DEF LoopNext, EnvStep

(* The worker keeps its inductive invariant whatever the runner sends it    *)
(* and whatever user code does.                                             *)
THEOREM LoopInvariant == LoopSpec => []LoopInv
BY InitInv, LoopNextInv, PTL DEF LoopSpec

(* Every variable of the worker keeps its type.                             *)
THEOREM LoopTypeCorrect == LoopSpec => []TypeOK
<1>1. LoopInv => TypeOK
  BY DEF LoopInv
<1> QED
  BY <1>1, LoopInvariant, PTL

(* The oneshot sender of a request is used at most once.                    *)
THEOREM LoopSenderUsedOnce == LoopSpec => []SenderUsedOnce
<1>1. LoopInv => SenderUsedOnce
  BY DEF LoopInv
<1> QED
  BY <1>1, LoopInvariant, PTL

(* No worker forgets a request that is still waiting for its answer.        *)
THEOREM LoopNoLostRequest == LoopSpec => []NoLostRequest
<1>1. LoopInv => NoLostRequest
  BY DEF LoopInv
<1> QED
  BY <1>1, LoopInvariant, PTL

-----------------------------------------------------------------------------
(* What the answers mean.                                                   *)

(* Only DrainEnd gives the answer "unresolvable", and only to requests      *)
(* whose promise is pending.                                                *)
LEMMA UnresolvableStep ==
    ASSUME TypeOK, [LoopNext]_loopVars, NEW r \in Requests,
           resp[r] # "unresolvable", resp'[r] = "unresolvable"
    PROVE  promise[r] = "pending"
<1>1. ASSUME NEW w \in Workers, NEW cancel \in Answers \ {"unresolvable"},
             Quit(w, cancel)
      PROVE  FALSE
  BY <1>1 DEF Quit
<1>2. ASSUME NEW x, NEW a, a # "unresolvable", resp' = [resp EXCEPT ![x] = a]
      PROVE  FALSE
  BY <1>2 DEF TypeOK
<1>3. ASSUME NEW w \in Workers, WorkerStep(w) PROVE promise[r] = "pending"
  <2>1. CASE DrainEnd(w)
    <3>1. r \in requests[w]
      BY <2>1 DEF DrainEnd
    <3> QED
      BY <2>1, <3>1 DEF DrainEnd, Drained, Pending
  <2>2. CASE InitDone(w) \/ InitFailed(w) \/ StepBusy(w) \/ StepEmptied(w)
             \/ StepFailed(w) \/ ContinuationPolled(w) \/ Hang(w)
    BY <2>2 DEF InitDone, InitFailed, StepBusy, StepEmptied, StepFailed,
                StepEventLoop, ContinuationPolled, Hang
  <2>3. CASE LoopExit(w) \/ FailedExit(w) \/ RecvTerminate(w) \/ Panic(w)
    BY <1>1, <2>3 DEF LoopExit, FailedExit, RecvTerminate, Panic, Answers
  <2>4. CASE RecvShutdown(w) \/ StartPending(w)
    BY <2>4 DEF RecvShutdown, StartPending
  <2>5. CASE RecvLateRequest(w) \/ StartFailed(w) \/ StartReady(w)
    BY <1>2, <2>5 DEF RecvLateRequest, StartFailed, StartReady
  <2>6. CASE FailedReply(w)
    BY <1>2, <2>6 DEF FailedReply
  <2>7. ASSUME NEW q \in Requests, Finish(w, q) \/ ContinuationDone(w, q) PROVE FALSE
    BY <1>2, <2>7 DEF Finish, FinishFailed, FinishDone, FinishRearmed, ContinuationDone
  <2> QED
    BY <1>3, <2>1, <2>2, <2>3, <2>4, <2>5, <2>6, <2>7 DEF WorkerStep, Receive
<1>4. CASE EnvStep
  <2>1. ASSUME NEW w \in Workers, NEW q \in Requests, Send(w, q) PROVE FALSE
    BY <1>2, <2>1 DEF Send
  <2> QED
    BY <1>4, <2>1 DEF EnvStep, Spawn, SendControl
<1>5. CASE UNCHANGED loopVars
  BY <1>5 DEF loopVars
<1> QED
  BY <1>3, <1>4, <1>5 DEF LoopNext

(* A request is given up as unresolvable only while its promise is pending. *)
THEOREM LoopUnresolvableIsPending == LoopSpec => UnresolvableIsPending
<1>1. TypeOK /\ [LoopNext]_loopVars =>
          [\A r \in Requests : resp[r] # "unresolvable" /\ resp'[r] = "unresolvable"
                                  => promise[r] = "pending"]_loopVars
  BY UnresolvableStep
<1> QED
  BY <1>1, LoopTypeCorrect, PTL DEF LoopSpec, UnresolvableIsPending

(* The queue exists only in the loop around select!.                        *)
QueueOnlyInLoop ==
    \A w \in Workers : phase[w] \notin {"select", "drain", "stuck"} => requests[w] = {}

EmptyLoopInv == QueueOnlyInLoop /\ NoPendingOnEmptyLoop

(* A step of w concerns only w and the requests sent to it.                 *)
LEMMA EmptyLoopFrame ==
    ASSUME LoopInv, EmptyLoopInv, NEW w \in Workers,
           \A v \in Workers : v # w => /\ phase'[v] = phase[v]
                                       /\ loopBusy'[v] = loopBusy[v]
                                       /\ requests'[v] = requests[v],
           \A r \in Requests : home[r] # w => promise'[r] = promise[r],
           phase'[w] \notin {"select", "drain", "stuck"} => requests'[w] = {},
           phase'[w] = "select" /\ ~loopBusy'[w] =>
               \A r \in requests'[w] : promise'[r] # "pending"
    PROVE  EmptyLoopInv'
<1>1. ASSUME NEW v \in Workers, v # w PROVE Pending(v)' = Pending(v)
  BY <1>1 DEF Pending, LoopInv, SenderUsedOnce, TypeOK
<1> QED
  BY <1>1 DEF EmptyLoopInv, QueueOnlyInLoop, NoPendingOnEmptyLoop, Pending

LEMMA EmptyLoopStep ==
    ASSUME "errors" \notin UserCode, LoopInv, EmptyLoopInv,
           NEW w \in Workers, WorkerStep(w)
    PROVE  EmptyLoopInv'
<1>0. /\ TypeOK /\ SenderUsedOnce
      /\ phase[w] \notin {"select", "drain", "stuck"} => requests[w] = {}
      /\ phase[w] = "select" /\ ~loopBusy[w] =>
            \A r \in requests[w] : promise[r] # "pending"
  BY DEF LoopInv, EmptyLoopInv, QueueOnlyInLoop, NoPendingOnEmptyLoop, Pending
<1>1. ASSUME NEW cancel, Quit(w, cancel) PROVE EmptyLoopInv'
  <2>1. \A r \in Requests : home[r] # w => promise'[r] = promise[r]
    BY <1>0, <1>1 DEF Quit, SenderUsedOnce
  <2> QED
    BY <1>0, <1>1, <2>1, EmptyLoopFrame DEF Quit, TypeOK
<1>2. CASE InitDone(w) \/ InitFailed(w) \/ Hang(w)
  BY <1>0, <1>2, EmptyLoopFrame DEF InitDone, InitFailed, Hang, TypeOK
<1>3. CASE LoopExit(w) \/ FailedExit(w) \/ RecvTerminate(w) \/ Panic(w)
  BY <1>1, <1>3 DEF LoopExit, FailedExit, RecvTerminate, Panic
<1>4. CASE RecvShutdown(w) \/ RecvLateRequest(w) \/ FailedReply(w)
  BY <1>0, <1>4, EmptyLoopFrame DEF RecvShutdown, RecvLateRequest, FailedReply
<1>5. ASSUME UNCHANGED <<phase, requests, promise>>,
             \E b \in {loopBusy[w], TRUE} : loopBusy' = [loopBusy EXCEPT ![w] = b]
      PROVE  EmptyLoopInv'
  <2>1. PICK b \in {loopBusy[w], TRUE} : loopBusy' = [loopBusy EXCEPT ![w] = b]
    BY <1>5
  <2>2. /\ loopBusy'[w] = b
        /\ \A v \in Workers : v # w => loopBusy'[v] = loopBusy[v]
    BY <1>0, <2>1 DEF TypeOK
  <2>3. ~loopBusy'[w] => ~loopBusy[w]
    BY <2>1, <2>2
  <2> QED
    BY <1>0, <1>5, <2>2, <2>3, EmptyLoopFrame
<1>6. CASE StartFailed(w)
  BY <1>5, <1>6 DEF StartFailed, RecvRequest
<1>7. CASE StartReady(w)
  BY <1>0, <1>7, <1>5 DEF StartReady, RecvRequest
<1>8. CASE StartPending(w)
  <2> USE <1>8 DEF StartPending, RecvRequest
  <2>1. Head(chan[w]) \in Requests /\ home[Head(chan[w])] = w
    BY TakeFacts
  <2>2. \A r \in Requests : home[r] # w => promise'[r] = promise[r]
    BY <1>0, <2>1 DEF TypeOK
  <2>3. loopBusy'[w] = TRUE
    BY <1>0 DEF TypeOK
  <2> QED
    BY <1>0, <2>2, <2>3, EmptyLoopFrame DEF TypeOK, Selecting
<1>9. ASSUME NEW q \in requests[w], UNCHANGED phase,
             phase[w] \in {"select", "drain", "stuck"},
             requests' = [requests EXCEPT ![w] = @ \ {q}],
             promise' = [promise EXCEPT ![q] = "none"],
             \E b \in {loopBusy[w], TRUE} : loopBusy' = [loopBusy EXCEPT ![w] = b]
      PROVE  EmptyLoopInv'
  <2>1. PICK b \in {loopBusy[w], TRUE} : loopBusy' = [loopBusy EXCEPT ![w] = b]
    BY <1>9
  <2>2. /\ loopBusy'[w] = b
        /\ \A v \in Workers : v # w => loopBusy'[v] = loopBusy[v]
    BY <1>0, <2>1 DEF TypeOK
  <2>3. ~loopBusy'[w] => ~loopBusy[w]
    BY <2>1, <2>2
  <2>4. home[q] = w /\ q \in Requests
    BY <1>0 DEF SenderUsedOnce, TypeOK
  <2>5. \A r \in Requests : r # q => promise'[r] = promise[r]
    BY <1>0, <1>9 DEF TypeOK
  <2>6. requests'[w] = requests[w] \ {q} /\ requests[w] \subseteq Requests
        /\ \A v \in Workers : v # w => requests'[v] = requests[v]
    BY <1>0, <1>9 DEF TypeOK
  <2>7. phase'[w] = "select" /\ ~loopBusy'[w] =>
            \A r \in requests'[w] : promise'[r] # "pending"
    BY <1>0, <1>9, <2>3, <2>5, <2>6
  <2> QED
    BY <1>9, <2>2, <2>4, <2>5, <2>6, <2>7, EmptyLoopFrame
<1>10. ASSUME NEW q \in Requests, FinishFailed(w, q) \/ FinishDone(w, q)
       PROVE  EmptyLoopInv'
  BY <1>9, <1>10 DEF FinishFailed, FinishDone, Polling, Selecting
<1>11. ASSUME NEW q \in Requests, FinishRearmed(w, q) PROVE EmptyLoopInv'
  <2> USE <1>11 DEF FinishRearmed
  <2>1. home[q] = w
    BY <1>0 DEF SenderUsedOnce
  <2>2. \A r \in Requests : home[r] # w => promise'[r] = promise[r]
    BY <1>0, <2>1 DEF TypeOK
  <2>3. loopBusy'[w] = TRUE /\ \A v \in Workers : v # w => loopBusy'[v] = loopBusy[v]
    BY <1>0 DEF TypeOK
  <2> QED
    BY <1>0, <2>2, <2>3, EmptyLoopFrame
<1>12. ASSUME NEW q \in Requests, ContinuationDone(w, q) PROVE EmptyLoopInv'
  BY <1>0, <1>12, EmptyLoopFrame DEF ContinuationDone
<1>13. CASE ContinuationPolled(w)
  BY <1>0, <1>13, <1>5 DEF ContinuationPolled
<1>14. ASSUME StepEventLoop(w)
       PROVE  /\ \A r \in Requests : home[r] # w => promise'[r] = promise[r]
              /\ requests' = requests
              /\ phase[w] = "select" /\ loopBusy[w]
  <2>1. \A r \in Pending(w) : home[r] = w
    BY <1>0 DEF Pending, SenderUsedOnce
  <2> QED
    BY <1>14, <2>1 DEF StepEventLoop, Selecting
<1>15. CASE StepBusy(w)
  BY <1>0, <1>14, <1>15, EmptyLoopFrame DEF StepBusy
<1>16. CASE StepEmptied(w)
  BY <1>0, <1>14, <1>16, EmptyLoopFrame DEF StepEmptied, TypeOK
<1>17. CASE StepFailed(w)
  BY <1>17 DEF StepFailed
<1>18. CASE DrainEnd(w)
  <2> USE <1>18 DEF DrainEnd
  <2>1. \A r \in Requests : home[r] # w => promise'[r] = promise[r]
    BY <1>0 DEF SenderUsedOnce
  <2> QED
    BY <1>0, <2>1, EmptyLoopFrame DEF TypeOK
<1> QED
  BY <1>2, <1>3, <1>4, <1>6, <1>7, <1>8, <1>10, <1>11, <1>12, <1>13, <1>15, <1>16,
     <1>17, <1>18 DEF WorkerStep, Receive, Finish

LEMMA EmptyLoopNext ==
    ASSUME "errors" \notin UserCode, LoopInv, EmptyLoopInv, [LoopNext]_loopVars
    PROVE  EmptyLoopInv'
<1>1. CASE UNCHANGED <<phase, loopBusy, requests, promise>>
  BY <1>1 DEF EmptyLoopInv, QueueOnlyInLoop, NoPendingOnEmptyLoop, Pending
<1>2. ASSUME NEW w \in Workers, Spawn(w) PROVE EmptyLoopInv'
  <2>1. requests[w] = {}
    BY <1>2 DEF Spawn, EmptyLoopInv, QueueOnlyInLoop
  <2> QED
    BY <1>2, <2>1, EmptyLoopFrame DEF Spawn, LoopInv, TypeOK
<1>3. ASSUME NEW w \in Workers, WorkerStep(w) PROVE EmptyLoopInv'
  BY <1>3, EmptyLoopStep
<1> QED
  BY <1>1, <1>2, <1>3 DEF LoopNext, EnvStep, Send, SendControl, loopVars

(* Unless step_event_loop reports errors, no request waits on a promise     *)
(* that nothing is left to settle.                                          *)
THEOREM LoopNoPendingOnEmptyLoop ==
    ASSUME "errors" \notin UserCode
    PROVE  LoopSpec => []NoPendingOnEmptyLoop
<1>1. LoopInit => EmptyLoopInv
  BY DEF LoopInit, EmptyLoopInv, QueueOnlyInLoop, NoPendingOnEmptyLoop, Pending
<1>2. LoopInv /\ EmptyLoopInv /\ [LoopNext]_loopVars => EmptyLoopInv'
  BY EmptyLoopNext
<1>3. EmptyLoopInv => NoPendingOnEmptyLoop
  BY DEF EmptyLoopInv
<1> QED
  BY <1>1, <1>2, <1>3, LoopInvariant, PTL DEF LoopSpec

-----------------------------------------------------------------------------
(* What the step of worker w leaves alone: the other workers, what was sent *)
(* to it and by whom, and every answer that was given.                      *)
OnlyConcerns(w) ==
    /\ UNCHANGED <<sent, home>>
    /\ Open(w) /\ phase'[w] # "unborn"
    /\ \A v \in Workers : v # w => /\ phase'[v] = phase[v]
                                   /\ chan'[v] = chan[v]
                                   /\ requests'[v] = requests[v]
                                   /\ continuations'[v] = continuations[v]
                                   /\ shutdownRequested'[v] = shutdownRequested[v]
    /\ \A r \in Requests : resp[r] # "waiting" => resp'[r] = resp[r]
    /\ \A r \in Requests : resp'[r] = "unsent" => resp[r] = "unsent"

LEMMA WorkerFrame ==
    ASSUME LoopInv, NEW w \in Workers, WorkerStep(w)
    PROVE  OnlyConcerns(w)
<1> USE DEF OnlyConcerns
<1>0. TypeOK /\ SenderUsedOnce
  BY DEF LoopInv
<1>1. ASSUME NEW cancel \in Answers, Open(w), Quit(w, cancel) PROVE OnlyConcerns(w)
  <2>1. \A r \in Requests : resp[r] # "waiting" => resp'[r] = resp[r]
    BY <1>0, <1>1 DEF Quit, SenderUsedOnce
  <2>2. \A r \in Requests : resp'[r] = "unsent" => resp[r] = "unsent"
    BY <1>1 DEF Quit, Answers
  <2>3. /\ UNCHANGED <<sent, home, shutdownRequested>>
        /\ phase'[w] # "unborn"
        /\ \A v \in Workers : v # w => /\ phase'[v] = phase[v]
                                       /\ chan'[v] = chan[v]
                                       /\ requests'[v] = requests[v]
                                       /\ continuations'[v] = continuations[v]
    BY <1>0, <1>1 DEF Quit, TypeOK
  <2> QED
    BY <1>1, <2>1, <2>2, <2>3
<1>2. CASE InitDone(w) \/ InitFailed(w)
  BY <1>0, <1>2 DEF InitDone, InitFailed, Open, TypeOK
<1>17. CASE Hang(w)
  <2>1. Open(w)
    BY <1>17 DEF Hang, CallsUserCode, Polling, Selecting, Open
  <2> QED
    BY <1>0, <1>17, <2>1 DEF Hang, TypeOK
<1>3. CASE LoopExit(w) \/ FailedExit(w) \/ RecvTerminate(w) \/ Panic(w)
  BY <1>1, <1>3 DEF LoopExit, FailedExit, RecvTerminate, Panic, Selecting, Open, Answers
<1>4. ASSUME chan[w] # <<>>, Head(chan[w]) \notin Control,
             chan' = [chan EXCEPT ![w] = Tail(@)],
             NEW a \in Answers, resp' = [resp EXCEPT ![Head(chan[w])] = a]
      PROVE  /\ \A v \in Workers : v # w => chan'[v] = chan[v]
             /\ \A r \in Requests : resp[r] # "waiting" => resp'[r] = resp[r]
             /\ \A r \in Requests : resp'[r] = "unsent" => resp[r] = "unsent"
  <2>1. Head(chan[w]) \in Requests /\ resp[Head(chan[w])] = "waiting"
    BY <1>4, TakeFacts
  <2> QED
    BY <1>0, <1>4, <2>1 DEF TypeOK, Answers
<1>5. CASE RecvShutdown(w)
  BY <1>0, <1>5 DEF RecvShutdown, Selecting, Open, TypeOK
<1>6. CASE RecvLateRequest(w)
  BY <1>0, <1>4, <1>6 DEF RecvLateRequest, Selecting, Open, TypeOK, Answers
<1>7. CASE FailedReply(w)
  <2>1. PICK a \in Answers : resp' = [resp EXCEPT ![Head(chan[w])] = a]
    BY <1>7 DEF FailedReply, Answers
  <2> QED
    BY <1>0, <1>4, <1>7, <2>1 DEF FailedReply, Open, TypeOK
<1>8. CASE StartFailed(w)
  BY <1>0, <1>4, <1>8 DEF StartFailed, RecvRequest, Selecting, Open, TypeOK, Answers
<1>9. CASE StartPending(w)
  BY <1>0, <1>9 DEF StartPending, RecvRequest, Selecting, Open, TypeOK
<1>10. CASE StartReady(w)
  <2>1. \A v \in Workers : v # w => continuations'[v] = continuations[v]
    BY <1>0, <1>10 DEF StartReady, TypeOK
  <2> QED
    BY <1>0, <1>4, <1>10, <2>1 DEF StartReady, RecvRequest, Selecting, Open, TypeOK, Answers
<1>11. ASSUME NEW q \in requests[w], NEW a \in Answers, resp' = [resp EXCEPT ![q] = a]
       PROVE  /\ \A r \in Requests : resp[r] # "waiting" => resp'[r] = resp[r]
              /\ \A r \in Requests : resp'[r] = "unsent" => resp[r] = "unsent"
  BY <1>0, <1>11 DEF SenderUsedOnce, TypeOK, Answers
<1>12. ASSUME NEW q \in Requests, FinishFailed(w, q) PROVE OnlyConcerns(w)
  BY <1>0, <1>11, <1>12 DEF FinishFailed, Polling, Selecting, Open, TypeOK, Answers
<1>13. ASSUME NEW q \in Requests, FinishDone(w, q) PROVE OnlyConcerns(w)
  <2>1. \A v \in Workers : v # w => continuations'[v] = continuations[v]
    BY <1>0, <1>13 DEF FinishDone, TypeOK
  <2> QED
    BY <1>0, <1>11, <1>13, <2>1 DEF FinishDone, Polling, Selecting, Open, TypeOK, Answers
<1>14. ASSUME NEW q \in Requests, FinishRearmed(w, q) \/ ContinuationDone(w, q) PROVE OnlyConcerns(w)
  BY <1>0, <1>14 DEF FinishRearmed, ContinuationDone, Polling, Selecting, Open, TypeOK
<1>15. CASE ContinuationPolled(w) \/ StepBusy(w) \/ StepEmptied(w) \/ StepFailed(w)
  BY <1>0, <1>15 DEF ContinuationPolled, StepBusy, StepEmptied, StepFailed, StepEventLoop,
                     Polling, Selecting, Open, TypeOK
<1>16. CASE DrainEnd(w)
  <2>1. \A r \in Requests : resp[r] # "waiting" => resp'[r] = resp[r]
    BY <1>0, <1>16 DEF DrainEnd, SenderUsedOnce
  <2> QED
    BY <1>0, <1>16, <2>1 DEF DrainEnd, Open, TypeOK
<1> QED
  BY <1>2, <1>3, <1>5, <1>6, <1>7, <1>8, <1>9, <1>10, <1>12, <1>13, <1>14, <1>15, <1>16,
     <1>17 DEF WorkerStep, Receive, Finish

-----------------------------------------------------------------------------
(* What a runner may rely on.                                               *)

(* Only an initialised worker holds promises and bodies, only a live one    *)
(* has a channel, and it is asked to shut down before it does.              *)
HeldOnlyByLive ==
    \A w \in Workers :
        /\ phase[w] \notin {"select", "drain", "stuck"} => requests[w] = {} /\ continuations[w] = {}
        /\ ~Open(w) => chan[w] = <<>>
        /\ shutdownRequested[w] => "Shutdown" \in sent[w]

LEMMA HeldWorkerStep ==
    ASSUME LoopInv, HeldOnlyByLive, NEW w \in Workers, WorkerStep(w)
    PROVE  HeldOnlyByLive'
<1>0. TypeOK /\ ControlSent /\ OnlyConcerns(w)
  BY WorkerFrame DEF LoopInv
<1>1. SUFFICES /\ phase'[w] \notin {"select", "drain", "stuck"} =>
                      requests'[w] = {} /\ continuations'[w] = {}
               /\ phase'[w] = "finished" => chan'[w] = <<>>
               /\ shutdownRequested'[w] => "Shutdown" \in sent[w]
  BY <1>0 DEF HeldOnlyByLive, OnlyConcerns, Open
<1>2. /\ phase[w] \notin {"select", "drain", "stuck"} => requests[w] = {} /\ continuations[w] = {}
      /\ shutdownRequested[w] => "Shutdown" \in sent[w]
      /\ phase[w] # "finished"
  BY <1>0 DEF HeldOnlyByLive, OnlyConcerns, Open
<1>3. ASSUME NEW cancel, Quit(w, cancel)
      PROVE  /\ requests'[w] = {} /\ continuations'[w] = {} /\ chan'[w] = <<>>
             /\ UNCHANGED shutdownRequested
  BY <1>0, <1>3 DEF Quit, TypeOK
<1>4. CASE LoopExit(w) \/ FailedExit(w) \/ RecvTerminate(w) \/ Panic(w)
  BY <1>2, <1>3, <1>4 DEF LoopExit, FailedExit, RecvTerminate, Panic
<1>5. CASE RecvShutdown(w)
  <2>1. "Shutdown" \in sent[w]
    BY <1>0, <1>5, TailFacts DEF RecvShutdown, TypeOK, ControlSent, Control
  <2> QED
    BY <1>0, <1>2, <1>5, <2>1 DEF RecvShutdown, Selecting, TypeOK
<1>6. CASE InitDone(w) \/ InitFailed(w) \/ RecvLateRequest(w) \/ FailedReply(w) \/ Hang(w)
  BY <1>0, <1>2, <1>6 DEF InitDone, InitFailed, RecvLateRequest, FailedReply, Hang, TypeOK
<1>7. CASE StartFailed(w) \/ StartPending(w) \/ StartReady(w)
  BY <1>0, <1>2, <1>7 DEF StartFailed, StartPending, StartReady, RecvRequest, Selecting
<1>8. ASSUME NEW q \in Requests, Finish(w, q) \/ ContinuationDone(w, q)
      PROVE  UNCHANGED <<phase, shutdownRequested>> /\ phase[w] \in {"select", "drain", "stuck"}
  BY <1>8 DEF Finish, FinishFailed, FinishDone, FinishRearmed, ContinuationDone, Polling,
              Selecting
<1>9. CASE ContinuationPolled(w) \/ StepBusy(w) \/ StepEmptied(w) \/ StepFailed(w)
  BY <1>0, <1>2, <1>9 DEF ContinuationPolled, StepBusy, StepEmptied, StepFailed,
                          StepEventLoop, Selecting, Polling, TypeOK
<1>10. CASE DrainEnd(w)
  BY <1>0, <1>2, <1>10 DEF DrainEnd, TypeOK
<1> QED
  BY <1>2, <1>4, <1>5, <1>6, <1>7, <1>8, <1>9, <1>10 DEF WorkerStep, Receive

LEMMA HeldNext ==
    ASSUME LoopInv, HeldOnlyByLive, [LoopNext]_loopVars
    PROVE  HeldOnlyByLive'
<1>0. TypeOK
  BY DEF LoopInv
<1>1. ASSUME NEW w \in Workers, Spawn(w) PROVE HeldOnlyByLive'
  BY <1>0, <1>1 DEF Spawn, HeldOnlyByLive, Open, TypeOK
<1>2. ASSUME NEW w \in Workers, NEW r \in Requests, Send(w, r) PROVE HeldOnlyByLive'
  BY <1>0, <1>2 DEF Send, HeldOnlyByLive, Open, TypeOK
<1>3. ASSUME NEW W \in SUBSET Workers, NEW m, SendControl(W, m) PROVE HeldOnlyByLive'
  BY <1>0, <1>3 DEF SendControl, HeldOnlyByLive, Open, TypeOK
<1>4. CASE UNCHANGED loopVars
  BY <1>4 DEF loopVars, HeldOnlyByLive, Open
<1> QED
  BY <1>1, <1>2, <1>3, <1>4, HeldWorkerStep DEF LoopNext, EnvStep

(* Only Terminate answers "shutting down" or, unless threads panic, breaks  *)
(* a response body off.                                                     *)
CutOffByTerminate ==
    (\A w \in Workers : "Terminate" \notin sent[w]) =>
        /\ MayPanic \/ truncated = {}
        /\ \A r \in Requests : resp[r] # "shuttingDown"

LEMMA CutOffWorkerStep ==
    ASSUME LoopInv, HeldOnlyByLive, CutOffByTerminate, NEW w \in Workers, WorkerStep(w)
    PROVE  CutOffByTerminate'
<1>0. TypeOK /\ ControlSent /\ OnlyConcerns(w)
  BY WorkerFrame DEF LoopInv
<1>1. SUFFICES ASSUME \A v \in Workers : "Terminate" \notin sent[v]
               PROVE  /\ MayPanic \/ truncated' = truncated
                      /\ \A r \in Requests : resp'[r] # "shuttingDown"
  BY <1>0 DEF CutOffByTerminate, OnlyConcerns
<1>2. \A r \in Requests : resp[r] # "shuttingDown"
  BY <1>1 DEF CutOffByTerminate
<1>3. ASSUME Quit(w, "dropped") PROVE \A r \in Requests : resp'[r] # "shuttingDown"
  BY <1>2, <1>3 DEF Quit
<1>4. CASE Panic(w)
  BY <1>3, <1>4 DEF Panic
<1>5. CASE LoopExit(w) \/ FailedExit(w)
  <2>1. continuations[w] = {}
    BY <1>5 DEF LoopExit, FailedExit, ExitReady, QueueEmpty, HeldOnlyByLive
  <2> QED
    BY <1>3, <1>5, <2>1 DEF LoopExit, FailedExit, Quit
<1>6. CASE RecvTerminate(w)
  <2>1. "Terminate" \in sent[w]
    BY <1>0, <1>6, TailFacts DEF RecvTerminate, TypeOK, ControlSent, Control
  <2> QED
    BY <1>1, <2>1
<1>7. ASSUME NEW x, NEW a, a # "shuttingDown", resp' = [resp EXCEPT ![x] = a]
      PROVE  \A r \in Requests : resp'[r] # "shuttingDown"
  BY <1>0, <1>2, <1>7 DEF TypeOK
<1>8. CASE InitDone(w) \/ InitFailed(w) \/ RecvShutdown(w) \/ StartPending(w)
           \/ ContinuationPolled(w) \/ StepBusy(w) \/ StepEmptied(w) \/ StepFailed(w)
           \/ Hang(w)
  BY <1>2, <1>8 DEF InitDone, InitFailed, RecvShutdown, StartPending, RecvRequest, Hang,
                    ContinuationPolled, StepBusy, StepEmptied, StepFailed, StepEventLoop
<1>9. CASE RecvLateRequest(w) \/ StartFailed(w) \/ StartReady(w) \/ FailedReply(w)
  BY <1>7, <1>9 DEF RecvLateRequest, StartFailed, StartReady, RecvRequest, FailedReply
<1>10. ASSUME NEW q \in Requests, Finish(w, q) \/ ContinuationDone(w, q)
       PROVE  truncated' = truncated /\ \A r \in Requests : resp'[r] # "shuttingDown"
  BY <1>2, <1>7, <1>10 DEF Finish, FinishFailed, FinishDone, FinishRearmed, ContinuationDone
<1>11. CASE DrainEnd(w)
  BY <1>2, <1>11 DEF DrainEnd
<1> QED
  BY <1>4, <1>5, <1>6, <1>8, <1>9, <1>10, <1>11 DEF WorkerStep, Receive

LEMMA CutOffNext ==
    ASSUME LoopInv, HeldOnlyByLive, CutOffByTerminate, [LoopNext]_loopVars
    PROVE  CutOffByTerminate'
<1>0. TypeOK
  BY DEF LoopInv
<1>1. ASSUME NEW w \in Workers, NEW r \in Requests, Send(w, r) PROVE CutOffByTerminate'
  BY <1>0, <1>1 DEF Send, CutOffByTerminate, TypeOK
<1>2. ASSUME NEW W \in SUBSET Workers, NEW m, SendControl(W, m) PROVE CutOffByTerminate'
  BY <1>0, <1>2 DEF SendControl, CutOffByTerminate, TypeOK
<1>3. CASE UNCHANGED <<sent, truncated, resp>>
  BY <1>3 DEF CutOffByTerminate
<1> QED
  BY <1>1, <1>2, <1>3, CutOffWorkerStep DEF LoopNext, EnvStep, Spawn, loopVars

(* A worker holds promises, bodies and a channel only while it runs its     *)
(* loop, and cuts a client off only when it was told to terminate, whatever *)
(* the runner sends and user code does.                                     *)
THEOREM LoopCutOffByTerminate == LoopSpec => [](HeldOnlyByLive /\ CutOffByTerminate)
<1>1. LoopInit => HeldOnlyByLive /\ CutOffByTerminate
  BY DEF LoopInit, HeldOnlyByLive, CutOffByTerminate, Open
<1>2. LoopInv /\ HeldOnlyByLive /\ CutOffByTerminate /\ [LoopNext]_loopVars =>
          HeldOnlyByLive' /\ CutOffByTerminate'
  BY HeldNext, CutOffNext
<1> QED
  BY <1>1, <1>2, LoopInvariant, PTL DEF LoopSpec

-----------------------------------------------------------------------------
(* The four things a step of worker w may do to its channel: leave it       *)
(* alone, take a request, take Shutdown, or drop it with the thread.        *)

LeavesChannel(w) ==
    /\ UNCHANGED <<chan, sent, home, shutdownRequested>>
    /\ requests'[w] \subseteq requests[w]
    /\ phase'[w] # "finished"
    /\ phase[w] \in {"select", "drain", "stuck"} => phase'[w] \in {"select", "drain", "stuck"}
    /\ \A r \in Requests :
          resp'[r] # resp[r] => /\ r \in requests[w]
                                /\ resp'[r] \in {"done", "requestError", "unresolvable"}

(* A request is answered at once, or queued; it is too late for it only     *)
(* once Shutdown was taken from the channel.                                *)
TakesRequest(w) ==
    /\ chan[w] # <<>> /\ Head(chan[w]) \in Requests
    /\ chan' = [chan EXCEPT ![w] = Tail(@)]
    /\ UNCHANGED <<phase, sent, home, shutdownRequested>>
    /\ \A r \in Requests : r # Head(chan[w]) => resp'[r] = resp[r]
    /\ \/ /\ shutdownRequested[w] /\ phase[w] = "select"
          /\ UNCHANGED requests
          /\ resp'[Head(chan[w])] = "lateError"
       \/ /\ ~shutdownRequested[w] \/ phase[w] = "failed"
          /\ requests'[w] \subseteq requests[w] \cup {Head(chan[w])}
          /\ resp'[Head(chan[w])] \in {"waiting", "done", "requestError", "scriptError",
                                       "scriptErrorNone"}

QuitsLoop(w) == LoopExit(w) \/ FailedExit(w) \/ RecvTerminate(w) \/ Panic(w)

LEMMA ChannelStep ==
    ASSUME LoopInv, NEW w \in Workers, WorkerStep(w)
    PROVE  LeavesChannel(w) \/ TakesRequest(w) \/ RecvShutdown(w) \/ QuitsLoop(w)
<1>0. TypeOK /\ SenderUsedOnce
  BY DEF LoopInv
<1>1. CASE InitDone(w) \/ InitFailed(w) \/ Hang(w)
  BY <1>0, <1>1 DEF InitDone, InitFailed, Hang, TypeOK, LeavesChannel
<1>2. ASSUME Head(chan[w]) \notin Control, chan[w] # <<>>,
             chan' = [chan EXCEPT ![w] = Tail(@)]
      PROVE  Head(chan[w]) \in Requests /\ resp[Head(chan[w])] = "waiting"
  BY <1>2, TakeFacts
<1>3. CASE RecvLateRequest(w)
  BY <1>0, <1>2, <1>3 DEF RecvLateRequest, Selecting, TypeOK, TakesRequest
<1>4. CASE FailedReply(w)
  BY <1>0, <1>2, <1>4 DEF FailedReply, TypeOK, TakesRequest
<1>5. CASE StartFailed(w)
  BY <1>0, <1>2, <1>5 DEF StartFailed, RecvRequest, TypeOK, TakesRequest
<1>6. CASE StartPending(w)
  BY <1>0, <1>2, <1>6 DEF StartPending, RecvRequest, TypeOK, TakesRequest
<1>7. CASE StartReady(w)
  BY <1>0, <1>2, <1>7 DEF StartReady, RecvRequest, TypeOK, TakesRequest
<1>8. ASSUME NEW q \in Requests, FinishFailed(w, q) \/ FinishDone(w, q)
      PROVE  LeavesChannel(w)
  <2>1. /\ q \in requests[w] /\ requests'[w] \subseteq requests[w]
        /\ UNCHANGED <<phase, chan, sent, home, shutdownRequested>>
        /\ phase[w] \in {"select", "drain", "stuck"}
    BY <1>0, <1>8 DEF FinishFailed, FinishDone, Polling, Selecting, TypeOK
  <2>2. \A r \in Requests : resp'[r] # resp[r] =>
            r \in requests[w] /\ resp'[r] \in {"done", "requestError", "unresolvable"}
    BY <1>0, <1>8, <2>1 DEF FinishFailed, FinishDone, TypeOK
  <2> QED
    BY <2>1, <2>2 DEF LeavesChannel
<1>9. ASSUME NEW q \in Requests, FinishRearmed(w, q) \/ ContinuationDone(w, q)
      PROVE  LeavesChannel(w)
  BY <1>9 DEF FinishRearmed, ContinuationDone, Polling, Selecting, LeavesChannel
<1>10. CASE ContinuationPolled(w) \/ StepBusy(w) \/ StepEmptied(w) \/ StepFailed(w)
  BY <1>0, <1>10 DEF ContinuationPolled, StepBusy, StepEmptied, StepFailed, StepEventLoop,
                     Polling, Selecting, TypeOK, LeavesChannel
<1>11. CASE DrainEnd(w)
  BY <1>0, <1>11 DEF DrainEnd, TypeOK, LeavesChannel
<1> QED
  BY <1>1, <1>3, <1>4, <1>5, <1>6, <1>7, <1>8, <1>9, <1>10, <1>11
     DEF WorkerStep, Receive, Finish, QuitsLoop

=============================================================================

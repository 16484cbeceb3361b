------------------------- MODULE CacheStorageProofs -------------------------
(***************************************************************************)
(* Proofs about CacheStorage, for any requests, responses and answers of   *)
(* the network and any number of caches, calls and requests in an addAll.  *)
(***************************************************************************)
EXTENDS CacheStorage, FilteringProofs, SequenceTheorems

(* What addAll fetches, and what may be in a cache.                         *)
Fetched == [id : Tasks \X Nat, status : 0..599, type : {"default", "error", "opaque"},
            vary : {"none", "hdr", "star", "invalid"}]
Entries == [req : Infos, resp : Responses \cup Fetched]

FutureTypes ==
    /\ used \subseteq Responses
    /\ pc \in [Tasks -> {"idle", "called", "fetching", "putting", "reading",
                         "resolved", "rejected"}]
    /\ this \in [Tasks -> Nat]
    /\ todo \in [Tasks -> Seq(Infos)] /\ toCommit \in [Tasks -> Seq(Entries)]

CacheTypes ==
    /\ caches \in Seq([name : Names, list : Nat])
    /\ lists \in Seq(Seq(Entries))
    /\ FutureTypes

Working(t) == pc[t] \in {"called", "fetching", "putting", "reading"}

(* What a future holds where it is.                                         *)
TaskSound(t) ==
    /\ Working(t) => this[t] \in 1..Len(lists)
    /\ pc[t] = "fetching" => todo[t] # <<>>
    /\ pc[t] \in {"putting", "reading"} => toCommit[t] # <<>>
    /\ pc[t] = "reading" => Cacheable(Head(toCommit[t]))

TasksSound == \A t \in Tasks : TaskSound(t)

CachesSound ==
    StorageWellFormed /\ \A i \in 1..Len(caches) : caches[i].list \in 1..Len(lists)

(* No entry answers the request of a later one.                             *)
Shadowless(s) ==
    \A i, j \in 1..Len(s) : i < j => ~IsMatch(s[j].req, s[i], NoOptions)

ListSound(s) ==
    Shadowless(s) /\ \A e \in Range(s) : IsMatch(e.req, e, NoOptions)

ListsSound == \A l \in 1..Len(lists) : ListSound(lists[l])

(* What t fetched is put by t only, after all its fetches; and the pairs    *)
(* still to be put match none that were put before.                         *)
BatchSound(t) ==
    /\ Shadowless(toCommit[t])
    /\ \A e \in Range(toCommit[t]) : e.resp.id[1] \in Tasks => e.resp.id[1] = t
    /\ \A l \in 1..Len(lists) : \A e \in Range(lists[l]) :
          e.resp.id[1] = t =>
              /\ pc[t] \notin {"idle", "called", "fetching"}
              /\ \A c \in Range(toCommit[t]) : ~IsMatch(c.req, e, NoOptions)

BatchesSound == \A t \in Tasks : BatchSound(t)

CacheInv ==
    CacheTypes /\ TasksSound /\ CachesSound /\ ListsSound /\ BatchesSound

-----------------------------------------------------------------------------
(* Entry lists.                                                             *)

LEMMA RangeFacts ==
    ASSUME NEW S, NEW s \in Seq(S)
    PROVE  Range(s) = {s[i] : i \in 1..Len(s)} /\ Range(s) \subseteq S
BY DEF Range

LEMMA RangeOfAppend ==
    ASSUME NEW S, NEW s \in Seq(S), NEW e \in S
    PROVE  Append(s, e) \in Seq(S) /\ Range(Append(s, e)) = Range(s) \cup {e}
<1>1. PICK n \in Nat : n = Len(s) /\ DOMAIN s = 1..n
  OBVIOUS
<1>2. PICK t : t = Append(s, e)
  OBVIOUS
<1>3. /\ t \in Seq(S) /\ DOMAIN t = 1..(n + 1) /\ t[n + 1] = e
      /\ \A i \in 1..n : t[i] = s[i]
  BY <1>1, <1>2
<1>4. 1..(n + 1) = 1..n \cup {n + 1}
  BY <1>1
<1>5. Range(t) = Range(s) \cup {e}
  BY <1>1, <1>3, <1>4 DEF Range
<1> QED
  BY <1>2, <1>3, <1>5

(* What put_impl accepts is found by its own request.                       *)
LEMMA CacheableMatches ==
    ASSUME NEW e \in Entries, Cacheable(e)
    PROVE  IsMatch(e.req, e, NoOptions)
<1>1. e.resp \in Responses \cup Fetched
  BY DEF Entries
<1>2. e.resp.vary \in {"none", "hdr", "star", "invalid"}
  <2>1. CASE e.resp \in Fetched
    BY <2>1 DEF Fetched
  <2>2. CASE e.resp \in Responses
    <3>1. [status |-> e.resp.status, type |-> e.resp.type, vary |-> e.resp.vary] \in ResponseHead
      BY <2>2, CacheAssumption
    <3> QED
      BY <3>1 DEF ResponseHead
  <2> QED
    BY <1>1, <2>1, <2>2
<1> QED
  BY <1>2 DEF Cacheable, IsMatch, NoOptions

(* delete_impl.                                                             *)
LEMMA DeletedList ==
    ASSUME NEW s \in Seq(Entries), NEW q, NEW options
    PROVE  /\ DeleteImpl(s, q, options) \in Seq(Entries)
           /\ Range(DeleteImpl(s, q, options)) = {e \in Range(s) : ~IsMatch(q, e, options)}
           /\ Shadowless(s) => Shadowless(DeleteImpl(s, q, options))
<1>1. PICK keep : keep = {e \in Range(s) : ~IsMatch(q, e, options)}
  OBVIOUS
<1>2. PICK t : t = Filter(s, keep)
  OBVIOUS
<1>3. DeleteImpl(s, q, options) = t
  BY <1>1, <1>2 DEF DeleteImpl
<1>4. t \in Seq(Entries) /\ Range(t) = Range(s) \cap keep
  BY <1>2, FilterPositions, FilterRange
<1>5. PICK m \in Nat : \E pos \in [1..m -> 1..Len(s)] : AtPositions(t, s, keep, m, pos)
  BY <1>2, FilterPositions
<1>6. PICK pos \in [1..m -> 1..Len(s)] : AtPositions(t, s, keep, m, pos)
  BY <1>5
<1>7. ASSUME Shadowless(s), NEW i \in 1..Len(t), NEW j \in 1..Len(t), i < j
      PROVE  ~IsMatch(t[j].req, t[i], NoOptions)
  <2>1. /\ pos[i] < pos[j] /\ pos[i] \in 1..Len(s) /\ pos[j] \in 1..Len(s)
        /\ t[i] = s[pos[i]] /\ t[j] = s[pos[j]]
    BY <1>6, <1>7 DEF AtPositions
  <2> QED
    BY <1>7, <2>1 DEF Shadowless
<1>8. Shadowless(s) => Shadowless(t)
  BY <1>7 DEF Shadowless
<1> QED
  BY <1>1, <1>3, <1>4, <1>8

(* The end of put_impl.                                                     *)
LEMMA CommittedList ==
    ASSUME NEW s \in Seq(Entries), ListSound(s), NEW e \in Entries, Cacheable(e), NEW new,
           new = Append(DeleteImpl(s, e.req, NoOptions), e)
    PROVE  /\ new \in Seq(Entries) /\ ListSound(new)
           /\ Range(new) = {x \in Range(s) : ~IsMatch(e.req, x, NoOptions)} \cup {e}
<1>1. PICK t : t = DeleteImpl(s, e.req, NoOptions)
  OBVIOUS
<1>2. /\ t \in Seq(Entries) /\ Shadowless(t)
      /\ Range(t) = {x \in Range(s) : ~IsMatch(e.req, x, NoOptions)}
  BY <1>1, DeletedList DEF ListSound
<1>3. new \in Seq(Entries) /\ Range(new) = Range(t) \cup {e}
  BY <1>1, <1>2, RangeOfAppend
<1>4. PICK n \in Nat : n = Len(t)
  BY <1>2
<1>5. Len(new) = n + 1 /\ new[n + 1] = e /\ \A i \in 1..n : new[i] = t[i]
  BY <1>1, <1>2, <1>4
<1>6. ASSUME NEW i \in 1..(n + 1), NEW j \in 1..(n + 1), i < j
      PROVE  ~IsMatch(new[j].req, new[i], NoOptions)
  <2>1. i \in 1..n
    BY <1>4, <1>6
  <2>2. CASE j = n + 1
    <3>1. t[i] \in Range(t)
      BY <1>2, <1>4, <2>1 DEF Range
    <3> QED
      BY <1>2, <1>5, <2>1, <2>2, <3>1
  <2>3. CASE j \in 1..n
    BY <1>2, <1>4, <1>5, <1>6, <2>1, <2>3 DEF Shadowless
  <2>4. j = n + 1 \/ j \in 1..n
    BY <1>4
  <2> QED
    BY <2>2, <2>3, <2>4
<1>7. Shadowless(new)
  BY <1>5, <1>6 DEF Shadowless
<1>8. \A x \in Range(new) : IsMatch(x.req, x, NoOptions)
  BY <1>2, <1>3, CacheableMatches DEF ListSound
<1> QED
  BY <1>2, <1>3, <1>7, <1>8 DEF ListSound

-----------------------------------------------------------------------------
(* What each action does to the lists: entries are removed, and put_impl    *)
(* adds the pair it works on.                                               *)

Commits(t, e) == PutCommit(t) /\ e = Head(toCommit[t])

LEMMA HeadFacts ==
    ASSUME NEW S, NEW s \in Seq(S), s # <<>>
    PROVE  /\ Head(s) \in S /\ Head(s) = s[1] /\ Head(s) \in Range(s)
           /\ Tail(s) \in Seq(S) /\ Len(s) \in Nat \ {0} /\ Len(Tail(s)) = Len(s) - 1
           /\ \A i \in 1..(Len(s) - 1) : Tail(s)[i] = s[i + 1]
           /\ Range(Tail(s)) \subseteq Range(s)
<1>1. Len(s) \in Nat \ {0} /\ Head(s) = s[1] /\ s[1] \in S /\ DOMAIN s = 1..Len(s)
  OBVIOUS
<1>2. /\ Tail(s) \in Seq(S) /\ Len(Tail(s)) = Len(s) - 1
      /\ \A i \in 1..(Len(s) - 1) : Tail(s)[i] = s[i + 1]
  OBVIOUS
<1>3. DOMAIN Tail(s) = 1..(Len(s) - 1) /\ \A i \in 1..(Len(s) - 1) : i + 1 \in 1..Len(s)
  BY <1>1, <1>2
<1>4. Range(Tail(s)) \subseteq Range(s)
  BY <1>1, <1>2, <1>3 DEF Range
<1>5. Head(s) \in Range(s)
  BY <1>1 DEF Range
<1> QED
  BY <1>1, <1>2, <1>4, <1>5

LEMMA ListReplaced ==
    ASSUME CacheTypes, ListsSound, NEW l \in 1..Len(lists), NEW new \in Seq(Entries),
           ListSound(new), lists' = [lists EXCEPT ![l] = new]
    PROVE  /\ lists' \in Seq(Seq(Entries)) /\ Len(lists') = Len(lists) /\ ListsSound'
           /\ \A k \in 1..Len(lists) : lists'[k] = IF k = l THEN new ELSE lists[k]
<1>1. lists \in Seq(Seq(Entries))
  BY DEF CacheTypes
<1>2. /\ lists' \in Seq(Seq(Entries)) /\ Len(lists') = Len(lists)
      /\ \A k \in 1..Len(lists) : lists'[k] = IF k = l THEN new ELSE lists[k]
  BY <1>1
<1>3. \A k \in 1..Len(lists') : ListSound(lists'[k])
  BY <1>2 DEF ListsSound
<1>4. ListsSound'
  BY <1>3 DEF ListsSound, ListSound, Shadowless
<1> QED
  BY <1>2, <1>4

LEMMA Committed ==
    ASSUME CacheInv, NEW t \in Tasks, PutCommit(t), NEW e, e = Head(toCommit[t])
    PROVE  /\ toCommit[t] \in Seq(Entries) /\ toCommit[t] # <<>> /\ e \in Entries
           /\ lists' \in Seq(Seq(Entries)) /\ Len(lists') = Len(lists) /\ ListsSound'
           /\ this[t] \in 1..Len(lists)
           /\ Range(lists'[this[t]]) =
                 {x \in Range(lists[this[t]]) : ~IsMatch(e.req, x, NoOptions)} \cup {e}
           /\ \A l \in 1..Len(lists) : l # this[t] => lists'[l] = lists[l]
<1>1. /\ CacheTypes /\ ListsSound /\ TasksSound /\ lists \in Seq(Seq(Entries))
      /\ toCommit \in [Tasks -> Seq(Entries)]
  BY DEF CacheInv, CacheTypes, FutureTypes
<1>2. /\ pc[t] = "reading" /\ toCommit[t] \in Seq(Entries) /\ toCommit[t] # <<>>
      /\ this[t] \in 1..Len(lists) /\ Cacheable(Head(toCommit[t]))
  BY <1>1 DEF PutCommit, TasksSound, TaskSound, Working
<1>3. PICK l \in 1..Len(lists) : l = this[t]
  BY <1>2
<1>4. e \in Entries /\ Cacheable(e)
  BY <1>2, HeadFacts
<1>5. lists[l] \in Seq(Entries) /\ ListSound(lists[l])
  BY <1>1 DEF ListsSound
<1>6. PICK new : new = Append(DeleteImpl(lists[l], e.req, NoOptions), e)
  OBVIOUS
<1>7. /\ new \in Seq(Entries) /\ ListSound(new)
      /\ Range(new) = {x \in Range(lists[l]) : ~IsMatch(e.req, x, NoOptions)} \cup {e}
  BY <1>4, <1>5, <1>6, CommittedList
<1>8. lists' = [lists EXCEPT ![l] = new]
  BY <1>3, <1>6 DEF PutCommit
<1>9. /\ lists' \in Seq(Seq(Entries)) /\ Len(lists') = Len(lists) /\ ListsSound'
      /\ \A k \in 1..Len(lists) : lists'[k] = IF k = l THEN new ELSE lists[k]
  BY <1>1, <1>7, <1>8, ListReplaced
<1> QED
  BY <1>2, <1>3, <1>4, <1>7, <1>9

LEMMA ListsStep ==
    ASSUME CacheInv, [Next]_vars
    PROVE  /\ lists' \in Seq(Seq(Entries)) /\ Len(lists') >= Len(lists) /\ ListsSound'
           /\ \A l \in 1..Len(lists') : \A e \in Range(lists'[l]) :
                 \/ l \in 1..Len(lists) /\ e \in Range(lists[l])
                 \/ \E t \in Tasks : Commits(t, e)
<1> DEFINE Goal ==
        /\ lists' \in Seq(Seq(Entries)) /\ Len(lists') >= Len(lists) /\ ListsSound'
        /\ \A l \in 1..Len(lists') : \A e \in Range(lists'[l]) :
              \/ l \in 1..Len(lists) /\ e \in Range(lists[l])
              \/ \E t \in Tasks : Commits(t, e)
<1>1. /\ CacheTypes /\ ListsSound /\ TasksSound /\ lists \in Seq(Seq(Entries))
      /\ Len(lists) \in Nat /\ toCommit \in [Tasks -> Seq(Entries)]
      /\ pc \in [Tasks -> {"idle", "called", "fetching", "putting", "reading",
                           "resolved", "rejected"}]
  BY DEF CacheInv, CacheTypes, FutureTypes
<1>2. CASE UNCHANGED lists
  BY <1>1, <1>2 DEF ListsSound
<1>3. ASSUME NEW name \in Names, Open(name) PROVE Goal
  <2>1. PICK n \in Nat : n = Len(lists)
    BY <1>1
  <2>2. /\ lists' \in Seq(Seq(Entries)) /\ Len(lists') = n + 1 /\ lists'[n + 1] = <<>>
        /\ \A l \in 1..n : lists'[l] = lists[l]
    <3>1. lists' = Append(lists, <<>>) /\ <<>> \in Seq(Entries)
      BY <1>3 DEF Open
    <3> QED
      BY <1>1, <2>1, <3>1
  <2>3. Range(<<>>) = {} /\ ListSound(<<>>)
    <3>1. Range(<<>>) = {}
      BY DEF Range
    <3>2. Shadowless(<<>>)
      BY DEF Shadowless
    <3> QED
      BY <3>1, <3>2 DEF ListSound
  <2>4. \A l \in 1..Len(lists') : l = n + 1 \/ l \in 1..n
    BY <2>1, <2>2
  <2>5. \A l \in 1..Len(lists') : ListSound(lists'[l])
    BY <1>1, <2>1, <2>2, <2>3, <2>4 DEF ListsSound
  <2>6. ListsSound'
    BY <2>5 DEF ListsSound
  <2>7. \A l \in 1..Len(lists') : \A e \in Range(lists'[l]) :
            l \in 1..Len(lists) /\ e \in Range(lists[l])
    BY <2>1, <2>2, <2>3, <2>4
  <2> QED
    BY <2>1, <2>2, <2>6, <2>7
<1>4. ASSUME NEW l \in Lists, NEW q \in Infos, NEW options \in CacheQueryOptions,
             Delete(l, q, options)
      PROVE  Goal
  <2>1. l \in 1..Len(lists) /\ lists[l] \in Seq(Entries) /\ ListSound(lists[l])
    BY <1>1 DEF Lists, ListsSound
  <2>2. PICK new : new = DeleteImpl(lists[l], q, options)
    OBVIOUS
  <2>3. /\ new \in Seq(Entries) /\ Range(new) = {e \in Range(lists[l]) : ~IsMatch(q, e, options)}
        /\ Shadowless(new)
    BY <2>1, <2>2, DeletedList DEF ListSound
  <2>4. ListSound(new)
    BY <2>1, <2>3 DEF ListSound
  <2>5. lists' = [lists EXCEPT ![l] = new]
    BY <1>4, <2>2 DEF Delete
  <2>6. /\ lists' \in Seq(Seq(Entries)) /\ Len(lists') = Len(lists) /\ ListsSound'
        /\ \A k \in 1..Len(lists) : lists'[k] = IF k = l THEN new ELSE lists[k]
    BY <1>1, <2>1, <2>3, <2>4, <2>5, ListReplaced
  <2>7. Range(lists'[l]) \subseteq Range(lists[l])
    BY <2>1, <2>3, <2>6
  <2>8. \A k \in 1..Len(lists') : k # l => lists'[k] = lists[k]
    BY <2>6
  <2>9. \A k \in 1..Len(lists') : \A e \in Range(lists'[k]) :
            k \in 1..Len(lists) /\ e \in Range(lists[k])
    BY <2>6, <2>7, <2>8, Zenon
  <2> QED
    BY <2>6, <2>9
<1>5. ASSUME NEW t \in Tasks, PutCommit(t) PROVE Goal
  <2>1. PICK e : e = Head(toCommit[t])
    OBVIOUS
  <2>2. Commits(t, e)
    BY <1>5, <2>1 DEF Commits
  <2>3. /\ lists' \in Seq(Seq(Entries)) /\ Len(lists') = Len(lists) /\ ListsSound'
        /\ this[t] \in 1..Len(lists)
        /\ Range(lists'[this[t]]) =
              {x \in Range(lists[this[t]]) : ~IsMatch(e.req, x, NoOptions)} \cup {e}
        /\ \A l \in 1..Len(lists) : l # this[t] => lists'[l] = lists[l]
    BY <1>5, <2>1, Committed
  <2>4. ASSUME NEW l \in 1..Len(lists'), NEW x \in Range(lists'[l])
        PROVE  \/ l \in 1..Len(lists) /\ x \in Range(lists[l])
               \/ \E u \in Tasks : Commits(u, x)
    <3>1. CASE l # this[t]
      BY <2>3, <3>1
    <3>2. CASE l = this[t] /\ x = e
      BY <2>2, <3>2
    <3>3. CASE l = this[t] /\ x # e
      BY <2>3, <3>3
    <3> QED
      BY <3>1, <3>2, <3>3
  <2>5. Len(lists') >= Len(lists)
    BY <1>1, <2>3
  <2> QED
    BY <2>3, <2>4, <2>5, Zenon
<1> QED
  BY <1>2, <1>3, <1>4, <1>5 DEF Next, vars, Step, DeleteCache, ConsumeBody, Put, Fail, PutRefused,
       PutBegin, PutFailed, AddAll, AddAllRefused, AddAllBegin, AddAllFetched, AddAllFailed
(* What a turn of addAll's second loop adds.                                *)
LEMMA FetchedPair ==
    ASSUME CacheInv, NEW t \in Tasks, AddAllFetched(t)
    PROVE  \E e \in Entries : /\ e.resp.id[1] = t
                              /\ e.req = Head(todo[t])
                              /\ toCommit' = [toCommit EXCEPT ![t] = Append(toCommit[t], e)]
<1>1. FutureTypes /\ TasksSound
  BY DEF CacheInv, CacheTypes
<1>2. todo[t] \in Seq(Infos) /\ todo[t] # <<>> /\ toCommit[t] \in Seq(Entries)
  BY <1>1 DEF AddAllFetched, FutureTypes, TasksSound, TaskSound
<1>3. Head(todo[t]) \in Infos
  BY <1>2, HeadFacts
<1>4. PICK n \in Nat : n = Len(toCommit[t]) + 1
  BY <1>2
<1>5. PICK head \in Network :
          toCommit' = [toCommit EXCEPT ![t] =
             Append(@, [req |-> Head(todo[t]),
                        resp |-> [id |-> <<t, Len(@) + 1>>, status |-> head.status,
                                  type |-> head.type, vary |-> head.vary]])]
  BY DEF AddAllFetched
<1>6. /\ head.status \in 0..599 /\ head.type \in {"default", "error", "opaque"}
      /\ head.vary \in {"none", "hdr", "star", "invalid"}
  <2>1. head \in ResponseHead
    BY <1>5, CacheAssumption
  <2> QED
    BY <2>1 DEF ResponseHead
<1>7. PICK r : r = [id |-> <<t, n>>, status |-> head.status, type |-> head.type,
                    vary |-> head.vary]
  OBVIOUS
<1>8. r \in Fetched /\ r.id[1] = t
  BY <1>4, <1>6, <1>7 DEF Fetched
<1>9. PICK e : e = [req |-> Head(todo[t]), resp |-> r]
  OBVIOUS
<1>10. e \in Entries /\ e.resp.id[1] = t /\ e.req = Head(todo[t])
  BY <1>3, <1>8, <1>9 DEF Entries
<1>11. toCommit' = [toCommit EXCEPT ![t] = Append(toCommit[t], e)]
  BY <1>4, <1>5, <1>7, <1>9
<1> QED
  BY <1>10, <1>11

-----------------------------------------------------------------------------
(* What the futures hold.                                                   *)

LEMMA TaskKept ==
    ASSUME CacheInv, [Next]_vars, NEW u \in Tasks, pc'[u] = pc[u], this'[u] = this[u],
           todo'[u] = todo[u], toCommit'[u] = toCommit[u]
    PROVE  TaskSound(u)'
<1>1. TaskSound(u) /\ lists \in Seq(Seq(Entries))
  BY DEF CacheInv, CacheTypes, TasksSound
<1>2. lists' \in Seq(Seq(Entries)) /\ Len(lists') >= Len(lists)
  BY ListsStep
<1>3. this[u] \in 1..Len(lists) => this[u] \in 1..Len(lists')
  BY <1>1, <1>2
<1> QED
  BY <1>1, <1>3 DEF TaskSound, Working, Cacheable

LEMMA TaskMoved ==
    ASSUME CacheInv, [Next]_vars, NEW t \in Tasks, FutureTypes', TaskSound(t)',
           \A u \in Tasks \ {t} : /\ pc'[u] = pc[u] /\ this'[u] = this[u]
                                  /\ todo'[u] = todo[u] /\ toCommit'[u] = toCommit[u]
    PROVE  FutureTypes' /\ TasksSound'
<1>1. ASSUME NEW u \in Tasks PROVE TaskSound(u)'
  <2>1. CASE u = t
    BY <2>1
  <2>2. CASE u # t
    BY <2>2, TaskKept
  <2> QED
    BY <2>1, <2>2
<1> QED
  BY <1>1 DEF TasksSound

LEMMA TasksStep ==
    ASSUME CacheInv, [Next]_vars
    PROVE  FutureTypes' /\ TasksSound'
<1>1. FutureTypes /\ TasksSound /\ lists \in Seq(Seq(Entries)) /\ Len(lists) \in Nat
  BY DEF CacheInv, CacheTypes
<1>2. lists' \in Seq(Seq(Entries)) /\ Len(lists') >= Len(lists) /\ Len(lists') \in Nat
  BY ListsStep
<1>3. \A l \in 1..Len(lists) : l \in 1..Len(lists') /\ l \in Nat
  BY <1>1, <1>2
<1>4. CASE UNCHANGED <<pc, this, todo, toCommit>> /\ used' \subseteq Responses
  <2>1. FutureTypes'
    BY <1>1, <1>4 DEF FutureTypes
  <2>2. \A u \in Tasks : TaskSound(u)'
    BY <1>4, TaskKept
  <2> QED
    BY <2>1, <2>2 DEF TasksSound
<1>5. ASSUME NEW t \in Tasks, NEW l \in Lists, NEW q \in Infos, NEW r \in Responses,
             Put(t, l, q, r)
      PROVE  FutureTypes' /\ TasksSound'
  <2>1. PICK b : b = <<[req |-> q, resp |-> r]>>
    OBVIOUS
  <2>2. b \in Seq(Entries) /\ b # <<>>
    BY <2>1 DEF Entries
  <2>3. l \in 1..Len(lists') /\ l \in Nat
    BY <1>3 DEF Lists
  <2>4. /\ pc' = [pc EXCEPT ![t] = "putting"] /\ this' = [this EXCEPT ![t] = l]
        /\ toCommit' = [toCommit EXCEPT ![t] = b] /\ todo' = todo /\ used' = used
    BY <1>5, <2>1 DEF Put
  <2>5. FutureTypes'
    BY <1>1, <2>2, <2>3, <2>4 DEF FutureTypes
  <2>6. TaskSound(t)'
    BY <1>1, <2>2, <2>3, <2>4 DEF FutureTypes, TaskSound, Working
  <2>7. \A u \in Tasks \ {t} : /\ pc'[u] = pc[u] /\ this'[u] = this[u]
                               /\ todo'[u] = todo[u] /\ toCommit'[u] = toCommit[u]
    BY <1>1, <2>4 DEF FutureTypes
  <2> QED
    BY <2>5, <2>6, <2>7, TaskMoved
<1>6. ASSUME NEW t \in Tasks, NEW l \in Lists, NEW batch \in Batches, AddAll(t, l, batch)
      PROVE  FutureTypes' /\ TasksSound'
  <2>1. batch \in Seq(Infos)
    BY DEF Batches
  <2>2. l \in 1..Len(lists') /\ l \in Nat
    BY <1>3 DEF Lists
  <2>3. FutureTypes'
    BY <1>1, <1>6, <2>1, <2>2 DEF FutureTypes, AddAll
  <2>4. TaskSound(t)'
    BY <1>1, <1>6, <2>2 DEF FutureTypes, TaskSound, Working, AddAll
  <2>5. \A u \in Tasks \ {t} : /\ pc'[u] = pc[u] /\ this'[u] = this[u]
                               /\ todo'[u] = todo[u] /\ toCommit'[u] = toCommit[u]
    BY <1>1, <1>6 DEF FutureTypes, AddAll
  <2> QED
    BY <2>3, <2>4, <2>5, TaskMoved
<1>7. ASSUME NEW t \in Tasks, Fail(t), UNCHANGED used
      PROVE  FutureTypes' /\ TasksSound'
  <2>1. FutureTypes' /\ pc'[t] = "rejected"
    BY <1>1, <1>7 DEF FutureTypes, Fail
  <2>2. TaskSound(t)'
    BY <2>1 DEF TaskSound, Working
  <2>3. \A u \in Tasks \ {t} : /\ pc'[u] = pc[u] /\ this'[u] = this[u]
                               /\ todo'[u] = todo[u] /\ toCommit'[u] = toCommit[u]
    BY <1>1, <1>7 DEF FutureTypes, Fail
  <2> QED
    BY <2>1, <2>2, <2>3, TaskMoved
<1>8. ASSUME NEW t \in Tasks, PutBegin(t)
      PROVE  FutureTypes' /\ TasksSound'
  <2>1. FutureTypes'
    BY <1>1, <1>8 DEF FutureTypes, PutBegin
  <2>2. TaskSound(t) /\ this[t] \in 1..Len(lists)
    BY <1>1, <1>8 DEF TasksSound, TaskSound, Working, PutBegin
  <2>3. /\ pc'[t] = "reading" /\ toCommit' = toCommit /\ this' = this
        /\ Cacheable(Head(toCommit[t]))
    BY <1>1, <1>8 DEF FutureTypes, PutBegin
  <2>4. TaskSound(t)'
    BY <1>3, <1>8, <2>2, <2>3 DEF TaskSound, Working, PutBegin
  <2>5. \A u \in Tasks \ {t} : /\ pc'[u] = pc[u] /\ this'[u] = this[u]
                               /\ todo'[u] = todo[u] /\ toCommit'[u] = toCommit[u]
    BY <1>1, <1>8 DEF FutureTypes, PutBegin
  <2> QED
    BY <2>1, <2>4, <2>5, TaskMoved
<1>9. ASSUME NEW t \in Tasks, PutCommit(t)
      PROVE  FutureTypes' /\ TasksSound'
  <2>1. /\ toCommit[t] \in Seq(Entries) /\ toCommit[t] # <<>> /\ this[t] \in 1..Len(lists)
        /\ Tail(toCommit[t]) \in Seq(Entries)
        /\ Len(toCommit[t]) # 1 => Tail(toCommit[t]) # <<>>
    <3>1. toCommit[t] \in Seq(Entries) /\ toCommit[t] # <<>> /\ this[t] \in 1..Len(lists)
      BY <1>9, Committed
    <3>2. PICK b \in Seq(Entries) : b = toCommit[t] /\ b # <<>>
      BY <3>1
    <3>3. Tail(b) \in Seq(Entries) /\ Len(b) \in Nat \ {0} /\ Len(Tail(b)) = Len(b) - 1
      BY <3>2, HeadFacts
    <3>4. Len(b) # 1 => Len(Tail(b)) # 0
      BY <3>3
    <3> QED
      BY <3>1, <3>2, <3>3, <3>4
  <2>2. /\ toCommit' = [toCommit EXCEPT ![t] = Tail(toCommit[t])] /\ todo' = todo /\ used' = used
        /\ \/ Len(toCommit[t]) = 1 /\ pc' = [pc EXCEPT ![t] = "resolved"]
              /\ this' = [this EXCEPT ![t] = 0]
           \/ Len(toCommit[t]) # 1 /\ pc' = [pc EXCEPT ![t] = "putting"] /\ this' = this
    BY <1>9 DEF PutCommit
  <2>3. FutureTypes'
    <3>1. CASE Len(toCommit[t]) = 1
      <4>1. this' \in [Tasks -> Nat]
        BY <1>1, <2>2, <3>1 DEF FutureTypes
      <4>2. toCommit' \in [Tasks -> Seq(Entries)]
        BY <1>1, <2>1, <2>2 DEF FutureTypes
      <4> QED
        BY <1>1, <2>2, <3>1, <4>1, <4>2 DEF FutureTypes
    <3>2. CASE Len(toCommit[t]) # 1
      BY <1>1, <2>1, <2>2, <3>2 DEF FutureTypes
    <3> QED
      BY <3>1, <3>2
  <2>4. TaskSound(t)'
    <3>1. CASE Len(toCommit[t]) = 1
      BY <1>1, <2>2, <3>1 DEF FutureTypes, TaskSound, Working
    <3>2. CASE Len(toCommit[t]) # 1
      BY <1>1, <1>3, <2>1, <2>2, <3>2 DEF FutureTypes, TaskSound, Working
    <3> QED
      BY <3>1, <3>2
  <2>5. \A u \in Tasks \ {t} : /\ pc'[u] = pc[u] /\ this'[u] = this[u]
                               /\ todo'[u] = todo[u] /\ toCommit'[u] = toCommit[u]
    BY <1>1, <2>2 DEF FutureTypes
  <2> QED
    BY <2>3, <2>4, <2>5, TaskMoved
<1>10. ASSUME NEW t \in Tasks, AddAllBegin(t)
       PROVE  FutureTypes' /\ TasksSound'
  <2>1. this[t] \in 1..Len(lists)
    BY <1>1, <1>10 DEF AddAllBegin, TasksSound, TaskSound, Working
  <2>2. FutureTypes'
    <3>1. CASE todo[t] = <<>>
      <4>1. this' = [this EXCEPT ![t] = 0] /\ this \in [Tasks -> Nat]
        BY <1>1, <1>10, <3>1 DEF FutureTypes, AddAllBegin
      <4>2. this' \in [Tasks -> Nat]
        BY <4>1
      <4> QED
        BY <1>1, <1>10, <3>1, <4>2 DEF FutureTypes, AddAllBegin
    <3>2. CASE todo[t] # <<>>
      BY <1>1, <1>10, <3>2 DEF FutureTypes, AddAllBegin
    <3> QED
      BY <3>1, <3>2
  <2>3. TaskSound(t)'
    BY <1>1, <1>3, <1>10, <2>1 DEF FutureTypes, AddAllBegin, TaskSound, Working
  <2>4. \A u \in Tasks \ {t} : /\ pc'[u] = pc[u] /\ this'[u] = this[u]
                               /\ todo'[u] = todo[u] /\ toCommit'[u] = toCommit[u]
    BY <1>1, <1>10 DEF FutureTypes, AddAllBegin
  <2> QED
    BY <2>2, <2>3, <2>4, TaskMoved
<1>11. ASSUME NEW t \in Tasks, AddAllFetched(t)
       PROVE  FutureTypes' /\ TasksSound'
  <2>1. PICK e \in Entries : /\ e.resp.id[1] = t
                             /\ e.req = Head(todo[t])
                             /\ toCommit' = [toCommit EXCEPT ![t] = Append(toCommit[t], e)]
    BY <1>11, FetchedPair
  <2>2. /\ todo[t] \in Seq(Infos) /\ todo[t] # <<>> /\ this[t] \in 1..Len(lists)
        /\ toCommit[t] \in Seq(Entries)
    BY <1>1, <1>11 DEF AddAllFetched, FutureTypes, TasksSound, TaskSound, Working
  <2>3. PICK b : b = Append(toCommit[t], e)
    OBVIOUS
  <2>4. b \in Seq(Entries) /\ b # <<>>
    BY <2>2, <2>3
  <2>5. Tail(todo[t]) \in Seq(Infos) /\ (Len(todo[t]) # 1 => Tail(todo[t]) # <<>>)
    <3>1. PICK s \in Seq(Infos) : s = todo[t] /\ s # <<>>
      BY <2>2
    <3>2. Tail(s) \in Seq(Infos) /\ Len(s) \in Nat \ {0} /\ Len(Tail(s)) = Len(s) - 1
      BY <3>1, HeadFacts
    <3>3. Len(s) # 1 => Len(Tail(s)) # 0
      BY <3>2
    <3> QED
      BY <3>1, <3>2, <3>3
  <2>6. /\ toCommit' = [toCommit EXCEPT ![t] = b] /\ this' = this /\ used' = used
        /\ todo' = [todo EXCEPT ![t] = Tail(todo[t])]
        /\ pc' = [pc EXCEPT ![t] = IF Len(todo[t]) = 1 THEN "putting" ELSE "fetching"]
    BY <1>11, <2>1, <2>3 DEF AddAllFetched
  <2>7. FutureTypes'
    BY <1>1, <2>4, <2>5, <2>6 DEF FutureTypes
  <2>8. TaskSound(t)'
    BY <1>1, <1>3, <2>2, <2>4, <2>5, <2>6 DEF FutureTypes, TaskSound, Working
  <2>9. \A u \in Tasks \ {t} : /\ pc'[u] = pc[u] /\ this'[u] = this[u]
                               /\ todo'[u] = todo[u] /\ toCommit'[u] = toCommit[u]
    BY <1>1, <2>6 DEF FutureTypes
  <2> QED
    BY <2>7, <2>8, <2>9, TaskMoved
<1>12. ASSUME Next PROVE FutureTypes' /\ TasksSound'
  <2>1. ASSUME NEW t \in Tasks, Step(t) PROVE FutureTypes' /\ TasksSound'
    BY <1>7, <1>8, <1>9, <1>10, <1>11, <2>1
       DEF Step, PutRefused, PutFailed, AddAllRefused, AddAllFailed
  <2>2. ASSUME NEW name \in Names, Open(name) \/ DeleteCache(name)
        PROVE  FutureTypes' /\ TasksSound'
    BY <1>1, <1>4, <2>2 DEF Open, DeleteCache, FutureTypes
  <2>3. ASSUME NEW l \in Lists, NEW q \in Infos, NEW options \in CacheQueryOptions,
               Delete(l, q, options)
        PROVE  FutureTypes' /\ TasksSound'
    BY <1>1, <1>4, <2>3 DEF Delete, FutureTypes
  <2>4. ASSUME NEW r \in Responses, ConsumeBody(r) PROVE FutureTypes' /\ TasksSound'
    BY <1>1, <1>4, <2>4 DEF ConsumeBody, FutureTypes
  <2> QED
    BY <1>5, <1>6, <1>12, <2>1, <2>2, <2>3, <2>4 DEF Next
<1>13. CASE UNCHANGED vars
  BY <1>1, <1>4, <1>13 DEF vars, FutureTypes
<1> QED
  BY <1>12, <1>13

-----------------------------------------------------------------------------
(* The caches: open appends one with a new name and a new list, and delete  *)
(* removes one other than the first.                                        *)

CacheRecord == [name : Names, list : Nat]

LEMMA CacheRemoved ==
    ASSUME CacheInv, NEW name, DeleteCache(name)
    PROVE  \E k \in 2..Len(caches) : caches' = RemoveAt(caches, k)
<1>1. caches \in Seq(CacheRecord) /\ CachesSound
  BY DEF CacheInv, CacheTypes, CacheRecord
<1>2. PICK N \in Nat : N = Len(caches) /\ DOMAIN caches = 1..N
  BY <1>1
<1>3. PICK c \in Range(caches) : c.name = name
  BY DEF DeleteCache
<1>4. PICK k \in 1..N : caches[k].name = name
  BY <1>2, <1>3 DEF Range
<1>5. \A i \in 1..N : caches[i].name = name => i = k
  BY <1>1, <1>2, <1>4 DEF CachesSound, StorageWellFormed
<1>6. k \in 2..N
  <2>1. caches[1].name = Default
    BY <1>1 DEF CachesSound, StorageWellFormed
  <2>2. k # 1
    BY <1>4, <2>1 DEF DeleteCache
  <2> QED
    BY <1>2, <2>2
<1>7. {i \in 1..Len(caches) : caches[i].name = name} = {k}
  BY <1>2, <1>4, <1>5
<1>8. Min({k}) = k
  BY <1>2 DEF Min
<1>9. SelectInSeq(caches, LAMBDA x : x.name = name) = k
  BY <1>7, <1>8 DEF SelectInSeq
<1>10. RemoveFirstMatch(caches, LAMBDA x : x.name = name) = RemoveAt(caches, k)
  BY <1>2, <1>4, <1>9 DEF RemoveFirstMatch
<1> QED
  BY <1>2, <1>6, <1>10 DEF DeleteCache

LEMMA CachesStep ==
    ASSUME CacheInv, [Next]_vars
    PROVE  /\ caches' \in Seq(CacheRecord) /\ CachesSound'
           /\ Named' \subseteq Named \cup {Len(lists) + 1}
<1>1. /\ caches \in Seq(CacheRecord) /\ CachesSound /\ lists \in Seq(Seq(Entries))
      /\ Len(lists) \in Nat
  BY DEF CacheInv, CacheTypes, CacheRecord
<1>2. lists' \in Seq(Seq(Entries)) /\ Len(lists') >= Len(lists) /\ Len(lists') \in Nat
  BY ListsStep
<1>3. \A l \in 1..Len(lists) : l \in 1..Len(lists')
  BY <1>1, <1>2
<1>4. PICK N \in Nat : N = Len(caches) /\ DOMAIN caches = 1..N
  BY <1>1
<1>5. /\ N # 0 /\ caches[1] = [name |-> Default, list |-> 1]
      /\ \A i, j \in 1..N : i # j => caches[i].name # caches[j].name /\ caches[i].list # caches[j].list
      /\ \A i \in 1..N : caches[i].list \in 1..Len(lists)
  BY <1>1, <1>4 DEF CachesSound, StorageWellFormed
<1>6. CASE UNCHANGED caches
  BY <1>1, <1>3, <1>6 DEF CachesSound, StorageWellFormed, Named
<1>7. ASSUME NEW name \in Names, Open(name)
      PROVE  /\ caches' \in Seq(CacheRecord) /\ CachesSound'
             /\ Named' \subseteq Named \cup {Len(lists) + 1}
  <2>1. PICK c : c = [name |-> name, list |-> Len(lists) + 1]
    OBVIOUS
  <2>2. c \in CacheRecord /\ c.name = name /\ c.list = Len(lists) + 1
    BY <1>1, <2>1 DEF CacheRecord
  <2>3. caches' = Append(caches, c) /\ Len(lists') = Len(lists) + 1
    BY <1>1, <1>7, <2>1 DEF Open
  <2>4. /\ caches' \in Seq(CacheRecord) /\ Len(caches') = N + 1 /\ DOMAIN caches' = 1..(N + 1)
        /\ caches'[N + 1] = c /\ \A i \in 1..N : caches'[i] = caches[i]
    BY <1>1, <1>4, <2>2, <2>3
  <2>5. \A i \in 1..(N + 1) : i = N + 1 \/ i \in 1..N
    BY <1>4
  <2>6. \A i \in 1..N : caches[i].name # name /\ caches[i].list # Len(lists) + 1
    <3>1. \A i \in 1..N : caches[i].list # Len(lists) + 1
      BY <1>1, <1>5
    <3>2. \A i \in 1..N : caches[i].name # name
      BY <1>4, <1>7 DEF Open, Range
    <3> QED
      BY <3>1, <3>2
  <2>7. \A i, j \in 1..(N + 1) :
            i # j => caches'[i].name # caches'[j].name /\ caches'[i].list # caches'[j].list
    BY <1>5, <2>2, <2>4, <2>5, <2>6
  <2>8. \A i \in 1..(N + 1) : caches'[i].list \in 1..Len(lists')
    <3>1. Len(lists) + 1 \in 1..Len(lists')
      BY <1>1, <2>3
    <3> QED
      BY <1>3, <1>5, <2>2, <2>4, <2>5, <3>1
  <2>9. caches' # <<>> /\ caches'[1] = [name |-> Default, list |-> 1]
    <3>1. 1 \in 1..N
      BY <1>4, <1>5
    <3> QED
      BY <1>4, <1>5, <2>4, <3>1
  <2>10. CachesSound'
    BY <2>4, <2>7, <2>8, <2>9 DEF CachesSound, StorageWellFormed
  <2>11. \A i \in 1..(N + 1) : caches'[i].list \in Named \cup {Len(lists) + 1}
    BY <1>4, <2>2, <2>4, <2>5 DEF Named
  <2> QED
    BY <2>4, <2>10, <2>11 DEF Named
<1>8. ASSUME NEW name \in Names, DeleteCache(name)
      PROVE  /\ caches' \in Seq(CacheRecord) /\ CachesSound'
             /\ Named' \subseteq Named \cup {Len(lists) + 1}
  <2>1. PICK k \in 2..N : caches' = RemoveAt(caches, k)
    BY <1>4, <1>8, CacheRemoved
  <2>2. k \in 1..Len(caches) /\ k \in 1..N /\ k > 1
    BY <1>4
  <2>3. /\ caches' \in Seq(CacheRecord) /\ Len(caches') = N - 1 /\ DOMAIN caches' = 1..(N - 1)
        /\ \A n \in 1..(N - 1) : n < k => caches'[n] = caches[n]
        /\ \A n \in 1..(N - 1) : n >= k => caches'[n] = caches[n + 1]
    <3>1. /\ RemoveAt(caches, k) \in Seq(CacheRecord)
          /\ Len(RemoveAt(caches, k)) = Len(caches) - 1
          /\ \A n \in 1..(Len(caches) - 1) : n < k => RemoveAt(caches, k)[n] = caches[n]
          /\ \A n \in 1..(Len(caches) - 1) : n >= k => RemoveAt(caches, k)[n] = caches[n + 1]
      BY <1>1, <2>2, ElementRemoved
    <3> QED
      BY <1>4, <2>1, <3>1
  <2>4. PICK pos : pos = [n \in 1..(N - 1) |-> IF n < k THEN n ELSE n + 1]
    OBVIOUS
  <2>5. /\ \A n \in 1..(N - 1) : pos[n] \in 1..N /\ caches'[n] = caches[pos[n]]
        /\ \A a, b \in 1..(N - 1) : a # b => pos[a] # pos[b]
        /\ N - 1 \in Nat \ {0} /\ pos[1] = 1 /\ 1 \in 1..(N - 1)
    BY <1>4, <2>2, <2>3, <2>4
  <2>6. /\ \A i, j \in 1..(N - 1) :
              i # j => caches'[i].name # caches'[j].name /\ caches'[i].list # caches'[j].list
        /\ \A i \in 1..(N - 1) : caches'[i].list \in 1..Len(lists')
        /\ caches'[1] = [name |-> Default, list |-> 1] /\ caches' # <<>>
    <3>1. ASSUME NEW i \in 1..(N - 1), NEW j \in 1..(N - 1), i # j
          PROVE  caches'[i].name # caches'[j].name /\ caches'[i].list # caches'[j].list
      <4>1. pos[i] \in 1..N /\ pos[j] \in 1..N /\ pos[i] # pos[j]
        BY <2>5, <3>1
      <4>2. caches'[i] = caches[pos[i]] /\ caches'[j] = caches[pos[j]]
        BY <2>5
      <4> QED
        BY <1>5, <4>1, <4>2
    <3>2. \A i \in 1..(N - 1) : caches'[i].list \in 1..Len(lists')
      BY <1>3, <1>5, <2>5
    <3>3. caches'[1] = [name |-> Default, list |-> 1] /\ caches' # <<>>
      BY <1>5, <2>3, <2>5
    <3> QED
      BY <3>1, <3>2, <3>3
  <2>7. CachesSound'
    BY <2>3, <2>6 DEF CachesSound, StorageWellFormed
  <2>8. \A i \in 1..(N - 1) : caches'[i].list \in Named
    BY <1>4, <2>5 DEF Named
  <2> QED
    BY <2>3, <2>7, <2>8 DEF Named
<1> QED
  BY <1>6, <1>7, <1>8 DEF Next, vars, Step, Delete, ConsumeBody, Put, Fail, PutRefused, PutBegin,
       PutFailed, PutCommit, AddAll, AddAllRefused, AddAllBegin, AddAllFetched, AddAllFailed

-----------------------------------------------------------------------------
(* The pairs of an addAll.                                                  *)

Early == {"idle", "called", "fetching"}

(* An entry that t fetched was in the cache before, or t puts it now.       *)
LEMMA OwnEntries ==
    ASSUME CacheInv, [Next]_vars, NEW t \in Tasks, NEW l \in 1..Len(lists'),
           NEW e \in Range(lists'[l]), e.resp.id[1] = t
    PROVE  \/ l \in 1..Len(lists) /\ e \in Range(lists[l])
           \/ PutCommit(t) /\ e = Head(toCommit[t])
<1>1. CASE l \in 1..Len(lists) /\ e \in Range(lists[l])
  BY <1>1
<1>2. CASE \E u \in Tasks : Commits(u, e)
  <2>1. PICK u \in Tasks : PutCommit(u) /\ e = Head(toCommit[u])
    BY <1>2 DEF Commits
  <2>2. toCommit[u] \in Seq(Entries) /\ toCommit[u] # <<>>
    BY <2>1, Committed
  <2>3. e \in Range(toCommit[u])
    BY <2>1, <2>2, HeadFacts
  <2>4. u = t
    BY <2>3 DEF CacheInv, BatchesSound, BatchSound
  <2> QED
    BY <2>1, <2>4
<1> QED
  BY <1>1, <1>2, ListsStep

LEMMA BatchKept ==
    ASSUME CacheInv, [Next]_vars, NEW u \in Tasks, ~PutCommit(u),
           toCommit'[u] = toCommit[u] \/ toCommit'[u] = <<>>,
           pc[u] \notin Early => pc'[u] \notin Early
    PROVE  BatchSound(u)'
<1>1. BatchSound(u)
  BY DEF CacheInv, BatchesSound
<1>2. Range(toCommit'[u]) \subseteq Range(toCommit[u]) /\ Shadowless(toCommit'[u])
  <2>1. Range(<<>>) = {} /\ Shadowless(<<>>)
    BY DEF Range, Shadowless
  <2> QED
    BY <1>1, <2>1 DEF BatchSound
<1>3. ASSUME NEW l \in 1..Len(lists'), NEW e \in Range(lists'[l]), e.resp.id[1] = u
      PROVE  pc'[u] \notin Early /\ \A c \in Range(toCommit'[u]) : ~IsMatch(c.req, e, NoOptions)
  <2>1. l \in 1..Len(lists) /\ e \in Range(lists[l])
    BY <1>3, OwnEntries
  <2> QED
    BY <1>1, <1>2, <1>3, <2>1 DEF BatchSound, Early
<1>4. \A e \in Range(toCommit'[u]) : e.resp.id[1] \in Tasks => e.resp.id[1] = u
  BY <1>1, <1>2 DEF BatchSound
<1> QED
  BY <1>2, <1>3, <1>4 DEF BatchSound, Early, Shadowless

LEMMA BatchStarts ==
    ASSUME CacheInv, [Next]_vars, NEW t \in Tasks, pc[t] \in Early, NEW b,
           toCommit'[t] = b, Shadowless(b),
           \A e \in Range(b) : e.resp.id[1] \in Tasks => e.resp.id[1] = t
    PROVE  BatchSound(t)'
<1>1. BatchSound(t) /\ ~PutCommit(t)
  BY DEF CacheInv, BatchesSound, Early, PutCommit
<1>2. ASSUME NEW l \in 1..Len(lists'), NEW e \in Range(lists'[l]), e.resp.id[1] = t
      PROVE  FALSE
  <2>1. l \in 1..Len(lists) /\ e \in Range(lists[l])
    BY <1>1, <1>2, OwnEntries
  <2> QED
    BY <1>1, <1>2, <2>1 DEF BatchSound, Early
<1> QED
  BY <1>2 DEF BatchSound, Shadowless

LEMMA BatchPut ==
    ASSUME CacheInv, [Next]_vars, NEW t \in Tasks, NEW l \in Lists, NEW q \in Infos,
           NEW r \in Responses, Put(t, l, q, r)
    PROVE  BatchSound(t)'
<1>1. PICK e : e = [req |-> q, resp |-> r]
  OBVIOUS
<1>2. PICK b : b = <<e>>
  OBVIOUS
<1>3. pc[t] \in Early /\ toCommit'[t] = b
  BY <1>1, <1>2 DEF Put, Early, CacheInv, CacheTypes, FutureTypes
<1>4. Len(b) = 1 /\ Range(b) = {e}
  BY <1>2 DEF Range
<1>5. Shadowless(b)
  BY <1>4 DEF Shadowless
<1>6. e.resp.id[1] \notin Tasks
  BY <1>1, CacheAssumption
<1> QED
  BY <1>3, <1>4, <1>5, <1>6, BatchStarts

LEMMA BatchFetched ==
    ASSUME CacheInv, [Next]_vars, NEW t \in Tasks, AddAllFetched(t)
    PROVE  BatchSound(t)'
<1>1. toCommit \in [Tasks -> Seq(Entries)] /\ BatchSound(t) /\ pc[t] \in Early
  BY DEF CacheInv, CacheTypes, FutureTypes, BatchesSound, AddAllFetched, Early
<1>2. PICK e \in Entries : /\ e.resp.id[1] = t
                           /\ e.req = Head(todo[t])
                           /\ toCommit' = [toCommit EXCEPT ![t] = Append(toCommit[t], e)]
  BY FetchedPair
<1>3. PICK s \in Seq(Entries) : s = toCommit[t]
  BY <1>1
<1>4. PICK b : b = Append(s, e)
  OBVIOUS
<1>5. toCommit'[t] = b /\ b \in Seq(Entries) /\ Range(b) = Range(s) \cup {e}
  BY <1>1, <1>2, <1>3, <1>4, RangeOfAppend
<1>6. PICK n \in Nat : n = Len(s)
  BY <1>3
<1>7. Len(b) = n + 1 /\ b[n + 1] = e /\ \A i \in 1..n : b[i] = s[i]
  BY <1>3, <1>4, <1>6
<1>8. ASSUME NEW i \in 1..(n + 1), NEW j \in 1..(n + 1), i < j
      PROVE  ~IsMatch(b[j].req, b[i], NoOptions)
  <2>1. i \in 1..n
    BY <1>6, <1>8
  <2>2. CASE j = n + 1
    <3>1. s[i] \in Range(s)
      BY <1>3, <1>6, <2>1 DEF Range
    <3>2. ~IsMatch(Head(todo[t]), s[i], NoOptions)
      BY <1>3, <3>1 DEF AddAllFetched, Duplicate
    <3> QED
      BY <1>2, <1>7, <2>1, <2>2, <3>2
  <2>3. CASE j \in 1..n
    BY <1>1, <1>3, <1>6, <1>7, <1>8, <2>1, <2>3 DEF BatchSound, Shadowless
  <2>4. j = n + 1 \/ j \in 1..n
    BY <1>6
  <2> QED
    BY <2>2, <2>3, <2>4
<1>9. Shadowless(b)
  BY <1>7, <1>8 DEF Shadowless
<1>10. \A x \in Range(b) : x.resp.id[1] \in Tasks => x.resp.id[1] = t
  BY <1>1, <1>2, <1>3, <1>5 DEF BatchSound
<1> QED
  BY <1>1, <1>5, <1>9, <1>10, BatchStarts

LEMMA BatchCommitted ==
    ASSUME CacheInv, [Next]_vars, NEW t \in Tasks, PutCommit(t)
    PROVE  BatchSound(t)'
<1>1. /\ toCommit \in [Tasks -> Seq(Entries)] /\ BatchSound(t) /\ toCommit[t] # <<>>
      /\ pc \in [Tasks -> {"idle", "called", "fetching", "putting", "reading",
                           "resolved", "rejected"}]
  BY DEF CacheInv, CacheTypes, FutureTypes, BatchesSound, PutCommit, TasksSound, TaskSound
<1>2. PICK s \in Seq(Entries) : s = toCommit[t] /\ s # <<>>
  BY <1>1
<1>3. PICK b : b = Tail(s)
  OBVIOUS
<1>4. PICK N \in Nat \ {0} : N = Len(s)
  BY <1>2, HeadFacts
<1>5. /\ Head(s) = s[1] /\ b \in Seq(Entries) /\ Len(b) = N - 1
      /\ \A i \in 1..(N - 1) : b[i] = s[i + 1]
      /\ Range(b) \subseteq Range(s)
  BY <1>2, <1>3, <1>4, HeadFacts
<1>6. toCommit'[t] = b /\ pc'[t] \notin Early /\ pc[t] \notin Early
  BY <1>1, <1>2, <1>3 DEF PutCommit, Early
<1>7. Shadowless(s)
  BY <1>1, <1>2 DEF BatchSound
<1>8. Shadowless(b)
  <2>1. ASSUME NEW i \in 1..(N - 1), NEW j \in 1..(N - 1), i < j
        PROVE  ~IsMatch(b[j].req, b[i], NoOptions)
    <3>1. i + 1 \in 1..N /\ j + 1 \in 1..N /\ i + 1 < j + 1
      BY <1>4, <2>1
    <3> QED
      BY <1>4, <1>5, <1>7, <3>1 DEF Shadowless
  <2> QED
    BY <1>5, <2>1 DEF Shadowless
<1>9. ASSUME NEW c \in Range(b) PROVE ~IsMatch(c.req, s[1], NoOptions)
  <2>1. PICK i \in 1..(N - 1) : c = b[i]
    BY <1>5 DEF Range
  <2>2. i + 1 \in 1..N /\ 1 \in 1..N /\ 1 < i + 1
    BY <1>4
  <2> QED
    BY <1>4, <1>5, <1>7, <2>1, <2>2 DEF Shadowless
<1>10. ASSUME NEW l \in 1..Len(lists'), NEW e \in Range(lists'[l]), e.resp.id[1] = t
       PROVE  \A c \in Range(b) : ~IsMatch(c.req, e, NoOptions)
  <2>1. CASE l \in 1..Len(lists) /\ e \in Range(lists[l])
    BY <1>1, <1>2, <1>5, <1>10, <2>1 DEF BatchSound
  <2>2. CASE e = Head(toCommit[t])
    BY <1>2, <1>5, <1>9, <2>2
  <2> QED
    BY <1>10, <2>1, <2>2, OwnEntries
<1>11. \A e \in Range(b) : e.resp.id[1] \in Tasks => e.resp.id[1] = t
  BY <1>1, <1>2, <1>5 DEF BatchSound
<1> QED
  BY <1>6, <1>8, <1>10, <1>11 DEF BatchSound, Shadowless, Early

LEMMA BatchesStep ==
    ASSUME CacheInv, [Next]_vars, NEW u \in Tasks
    PROVE  BatchSound(u)'
<1>1. FutureTypes
  BY DEF CacheInv, CacheTypes
<1> DEFINE Puts == \E l \in Lists, q \in Infos, r \in Responses : Put(u, l, q, r)
           Quiet == /\ toCommit'[u] = toCommit[u] \/ toCommit'[u] = <<>>
                    /\ pc[u] \notin Early => pc'[u] \notin Early
<1>2. CASE PutCommit(u)
  BY <1>2, BatchCommitted
<1>3. CASE AddAllFetched(u)
  BY <1>3, BatchFetched
<1>4. CASE Puts
  BY <1>4, BatchPut
<1>5. CASE ~PutCommit(u) /\ ~AddAllFetched(u) /\ ~Puts
  <2>1. ASSUME UNCHANGED <<pc, toCommit>> PROVE Quiet
    BY <2>1
  <2>2. ASSUME NEW t \in Tasks, NEW l \in Lists, NEW q \in Infos, NEW r \in Responses,
               Put(t, l, q, r)
        PROVE  Quiet
    <3>1. t # u
      BY <1>5, <2>2
    <3> QED
      BY <1>1, <2>2, <3>1 DEF Put, FutureTypes
  <2>3. ASSUME NEW t \in Tasks, NEW l \in Lists, NEW batch \in Batches, AddAll(t, l, batch)
        PROVE  Quiet
    BY <1>1, <2>3 DEF AddAll, FutureTypes, Early
  <2>4. ASSUME NEW t \in Tasks, Fail(t) PROVE Quiet
    BY <1>1, <2>4 DEF Fail, FutureTypes, Early
  <2>5. ASSUME NEW t \in Tasks, PutBegin(t) PROVE Quiet
    BY <1>1, <2>5 DEF PutBegin, FutureTypes, Early
  <2>6. ASSUME NEW t \in Tasks, AddAllBegin(t) PROVE Quiet
    BY <1>1, <2>6 DEF AddAllBegin, FutureTypes, Early
  <2>7. ASSUME NEW t \in Tasks, PutCommit(t) PROVE Quiet
    <3>1. t # u
      BY <1>5, <2>7
    <3> QED
      BY <1>1, <2>7, <3>1 DEF PutCommit, FutureTypes
  <2>8. ASSUME NEW t \in Tasks, AddAllFetched(t) PROVE Quiet
    <3>1. t # u
      BY <1>5, <2>8
    <3> QED
      BY <1>1, <2>8, <3>1 DEF AddAllFetched, FutureTypes
  <2>9. Quiet
    BY <2>1, <2>2, <2>3, <2>4, <2>5, <2>6, <2>7, <2>8
       DEF Next, vars, Step, Open, DeleteCache, Delete, ConsumeBody, PutRefused, PutFailed,
           AddAllRefused, AddAllFailed
  <2> QED
    BY <1>5, <2>9, BatchKept
<1> QED
  BY <1>2, <1>3, <1>4, <1>5

-----------------------------------------------------------------------------

LEMMA InitCacheInv ==
    ASSUME Init
    PROVE  CacheInv
<1>1. /\ caches = <<[name |-> Default, list |-> 1]>> /\ lists = <<<<>>>> /\ used = {}
      /\ pc = [t \in Tasks |-> "idle"] /\ this = [t \in Tasks |-> 0]
      /\ todo = [t \in Tasks |-> <<>>] /\ toCommit = [t \in Tasks |-> <<>>]
  BY DEF Init
<1>2. Default \in Names
  BY CacheAssumption
<1>3. CacheTypes
  <2>1. caches \in Seq([name : Names, list : Nat])
    BY <1>1, <1>2
  <2>2. lists \in Seq(Seq(Entries))
    BY <1>1
  <2>3. FutureTypes
    BY <1>1 DEF FutureTypes
  <2> QED
    BY <2>1, <2>2, <2>3 DEF CacheTypes
<1>4. TasksSound
  BY <1>1 DEF TasksSound, TaskSound, Working
<1>5. Len(lists) = 1 /\ lists[1] = <<>> /\ Len(caches) = 1 /\ DOMAIN caches = 1..1
  BY <1>1
<1>6. CachesSound
  BY <1>1, <1>5 DEF CachesSound, StorageWellFormed
<1>7. Range(<<>>) = {} /\ Shadowless(<<>>)
  BY DEF Range, Shadowless
<1>8. \A l \in 1..Len(lists) : lists[l] = <<>>
  BY <1>5
<1>9. ListsSound
  BY <1>7, <1>8 DEF ListsSound, ListSound
<1>10. BatchesSound
  BY <1>1, <1>7, <1>8 DEF BatchesSound, BatchSound
<1> QED
  BY <1>3, <1>4, <1>6, <1>9, <1>10 DEF CacheInv

LEMMA NextCacheInv ==
    ASSUME CacheInv, [Next]_vars
    PROVE  CacheInv'
<1>1. CacheTypes'
  BY ListsStep, TasksStep, CachesStep DEF CacheTypes, CacheRecord
<1>2. TasksSound' /\ ListsSound' /\ CachesSound'
  BY ListsStep, TasksStep, CachesStep
<1>3. BatchesSound'
  BY BatchesStep DEF BatchesSound
<1> QED
  BY <1>1, <1>2, <1>3 DEF CacheInv

(* The inductive invariant of the Cache API: no entry of a list answers the *)
(* request of a later one, every entry answers its own, names and lists of  *)
(* caches are unique, and what an addAll fetched enters a list only after   *)
(* all its fetches and never matches what it has still to put.              *)
THEOREM CacheInvariant == Spec => []CacheInv
BY InitCacheInv, NextCacheInv, PTL DEF Spec

-----------------------------------------------------------------------------
(* What a query finds.                                                      *)

LEMMA MatchedFirst ==
    ASSUME NEW s \in Seq(Entries), ListSound(s), NEW e \in Range(s)
    PROVE  MatchAll(s, <<e.req>>, 1, NoOptions) = <<e>>
<1>1. PICK keep : keep = {x \in Range(s) : \A q \in Range(<<e.req>>) : IsMatch(q, x, NoOptions)}
  OBVIOUS
<1>2. PICK found : found = Filter(s, keep)
  OBVIOUS
<1>3. Range(<<e.req>>) = {e.req}
  BY DEF Range
<1>4. e \in keep /\ \A x \in keep : IsMatch(e.req, x, NoOptions)
  BY <1>1, <1>3 DEF ListSound
<1>5. PICK k \in 1..Len(s) : s[k] = e
  BY RangeFacts
<1>6. \A i \in 1..Len(s) : i < k => s[i] \notin keep
  BY <1>4, <1>5 DEF ListSound, Shadowless
<1>7. found \in Seq(Entries) /\ found # <<>> /\ found[1] = e
  BY <1>2, <1>4, <1>5, <1>6, FilterFirst, FilterPositions
<1>8. PICK n \in Nat \ {0} : n = Len(found)
  BY <1>7
<1>9. SubSeq(found, 1, 1) = <<e>>
  <2>1. PICK one : one = SubSeq(found, 1, 1)
    OBVIOUS
  <2>2. \A i \in 1..1 : found[i] \in Entries
    BY <1>7, <1>8
  <2>3. /\ one \in Seq(Entries) /\ Len(one) = IF 1 <= 1 THEN 1 - 1 + 1 ELSE 0
        /\ \A i \in 1..(1 - 1 + 1) : one[i] = found[1 + i - 1]
    BY <2>1, <2>2, SubSeqProperties
  <2>4. one \in Seq(Entries) /\ Len(one) = 1 /\ one[1] = e
    BY <1>7, <2>3
  <2>5. PICK single : single = <<e>>
    OBVIOUS
  <2>6. single \in Seq(Entries) /\ Len(single) = 1 /\ single[1] = e
    BY <1>7, <1>8, <2>2, <2>5
  <2>7. \A i \in 1..Len(one) : one[i] = single[i]
    BY <2>4, <2>6
  <2>8. one = single
    BY <2>4, <2>6, <2>7, SeqEqual
  <2> QED
    BY <2>1, <2>5, <2>8
<1>10. MatchAll(s, <<e.req>>, 1, NoOptions) =
           SubSeq(found, 1, IF 1 < Len(found) THEN 1 ELSE Len(found))
  BY <1>1, <1>2 DEF MatchAll
<1>11. (IF 1 < Len(found) THEN 1 ELSE Len(found)) = 1
  BY <1>8
<1> QED
  BY <1>9, <1>10, <1>11

LEMMA MatchedInCache ==
    ASSUME CacheInv, NEW c \in Range(caches), NEW e \in Range(lists[c.list])
    PROVE  StorageMatch(e.req, <<c.name>>, NoOptions) = <<e>>
<1>1. /\ caches \in Seq(CacheRecord) /\ lists \in Seq(Seq(Entries)) /\ CachesSound /\ ListsSound
  BY DEF CacheInv, CacheTypes, CacheRecord
<1>2. PICK k \in 1..Len(caches) : caches[k] = c
  BY <1>1, RangeFacts
<1>3. c.list \in 1..Len(lists) /\ \A i \in 1..Len(caches) : i < k => caches[i].name # c.name
  BY <1>1, <1>2 DEF CachesSound, StorageWellFormed
<1> DEFINE Found(x) == MatchAll(lists[x.list], <<e.req>>, 1, NoOptions)
<1>4. Found(c) = <<e>>
  BY <1>1, <1>3, MatchedFirst DEF ListsSound
<1>5. PICK keep : keep = {x \in Range(caches) :
                             Found(x) # <<>> /\ \A n \in Range(<<c.name>>) : x.name = n}
  OBVIOUS
<1>6. PICK hits : hits = Filter(caches, keep)
  OBVIOUS
<1>7. StorageMatch(e.req, <<c.name>>, NoOptions) =
          IF hits = <<>> THEN <<>> ELSE Found(Head(hits))
  BY <1>5, <1>6 DEF StorageMatch
<1> HIDE DEF Found
<1>8. Range(<<c.name>>) = {c.name}
  BY DEF Range
<1>9. c \in keep /\ \A x \in keep : x.name = c.name
  <2>1. Found(c) # <<>>
    BY <1>4
  <2>2. c \in keep
    BY <1>5, <1>8, <2>1
  <2>3. \A x \in keep : x.name = c.name
    BY <1>5, <1>8
  <2> QED
    BY <2>2, <2>3
<1>10. hits \in Seq(CacheRecord) /\ hits # <<>> /\ hits[1] = c
  <2>1. caches[k] \in keep /\ \A i \in 1..Len(caches) : i < k => caches[i] \notin keep
    BY <1>2, <1>3, <1>9
  <2>2. /\ Filter(caches, keep) \in Seq(CacheRecord)
        /\ Len(Filter(caches, keep)) \in Nat \ {0}
        /\ Filter(caches, keep)[1] = caches[k]
    <3>1. caches \in Seq(CacheRecord) /\ k \in 1..Len(caches)
      BY <1>1, <1>2
    <3> QED
      BY ONLY <3>1, <2>1, FilterFirst
  <2>3. hits \in Seq(CacheRecord) /\ Len(hits) # 0 /\ hits[1] = c
    BY <1>2, <1>6, <2>2
  <2>4. Len(<<>>) = 0
    OBVIOUS
  <2> QED
    BY <2>3, <2>4
<1>11. Head(hits) = c
  BY <1>10
<1> QED
  BY <1>4, <1>7, <1>10, <1>11

(* Whatever puts, addAlls and deletes interleave at their awaits, match     *)
(* with the request of an entry answers with that entry, and so does        *)
(* caches.match with the name of its cache.                                 *)
THEOREM CacheEntryFound == Spec => []EntryFound
<1>1. ASSUME CacheInv PROVE EntryFound
  <2>1. lists \in Seq(Seq(Entries)) /\ ListsSound
    BY <1>1 DEF CacheInv, CacheTypes
  <2>2. ASSUME NEW l \in Lists, NEW e \in Range(lists[l])
        PROVE  /\ MatchAll(lists[l], <<e.req>>, 1, NoOptions) = <<e>>
               /\ \A c \in Range(caches) :
                     c.list = l => StorageMatch(e.req, <<c.name>>, NoOptions) = <<e>>
    <3>1. lists[l] \in Seq(Entries) /\ ListSound(lists[l])
      BY <2>1 DEF Lists, ListsSound
    <3>2. MatchAll(lists[l], <<e.req>>, 1, NoOptions) = <<e>>
      BY <3>1, MatchedFirst
    <3>3. ASSUME NEW c \in Range(caches), c.list = l
          PROVE  StorageMatch(e.req, <<c.name>>, NoOptions) = <<e>>
      BY <1>1, <3>3, MatchedInCache
    <3> QED
      BY <3>2, <3>3
  <2> QED
    BY <2>2 DEF EntryFound
<1> QED
  BY <1>1, CacheInvariant, PTL

(* The default cache is always there and first, and neither a name nor an   *)
(* entry list belongs to single caches.                                        *)
THEOREM CacheStorageWellFormed == Spec => []StorageWellFormed
<1>1. CacheInv => StorageWellFormed
  BY DEF CacheInv, CachesSound
<1> QED
  BY <1>1, CacheInvariant, PTL

(* Entries have requests that user code made, and a future that works has a *)
(* list, and a pair while it puts.                                          *)
THEOREM CacheTypeCorrect == Spec => []TypeOK
<1>1. ASSUME CacheInv PROVE TypeOK
  <2>1. /\ caches \in Seq(CacheRecord) /\ lists \in Seq(Seq(Entries)) /\ FutureTypes
        /\ CachesSound /\ TasksSound
    BY <1>1 DEF CacheInv, CacheTypes, CacheRecord
  <2>2. \A c \in Range(caches) : c.name \in Names /\ c.list \in Lists
    <3>1. ASSUME NEW c \in Range(caches) PROVE c.name \in Names /\ c.list \in Lists
      <4>1. PICK i \in 1..Len(caches) : c = caches[i]
        BY <2>1, RangeFacts
      <4>2. c \in CacheRecord /\ caches[i].list \in 1..Len(lists)
        BY <2>1, <4>1 DEF CachesSound
      <4> QED
        BY <4>1, <4>2 DEF CacheRecord, Lists
    <3> QED
      BY <3>1
  <2>3. ASSUME NEW l \in Lists, NEW e \in Range(lists[l]) PROVE e.req \in Infos
    <3>1. lists[l] \in Seq(Entries)
      BY <2>1 DEF Lists
    <3>2. e \in Entries
      BY <3>1, RangeFacts
    <3> QED
      BY <3>2 DEF Entries
  <2>4. \A t \in Tasks : /\ pc[t] \in {"idle", "resolved", "rejected"} \/ this[t] \in Lists
                         /\ pc[t] \in {"putting", "reading"} => toCommit[t] # <<>>
    BY <2>1 DEF FutureTypes, TasksSound, TaskSound, Working, Lists
  <2> QED
    BY <2>1, <2>2, <2>3, <2>4 DEF TypeOK, FutureTypes
<1> QED
  BY <1>1, CacheInvariant, PTL

(* A list that no cache of `caches' has any more is never found there       *)
(* again, whatever Cache objects still write to it.                         *)
THEOREM CacheDeletedStaysDeleted == Spec => DeletedStaysDeleted
<1>1. ASSUME CacheInv, [Next]_vars
      PROVE  [\A l \in Lists : l \notin Named => l \notin Named']_vars
  <2>1. Named' \subseteq Named \cup {Len(lists) + 1} /\ Len(lists) \in Nat
    BY <1>1, CachesStep DEF CacheInv, CacheTypes
  <2>2. \A l \in Lists : l # Len(lists) + 1
    BY <2>1 DEF Lists
  <2> QED
    BY <2>1, <2>2
<1> QED
  BY <1>1, CacheInvariant, PTL DEF Spec, DeletedStaysDeleted

(* An addAll that ends before its last loop has stored nothing.             *)
THEOREM CacheAddAllAllOrNothing == Spec => AddAllAllOrNothing
<1>1. CacheInv => \A t \in Tasks : pc[t] \in {"called", "fetching"} /\ pc'[t] = "rejected" =>
                     \A l \in Lists : \A e \in Range(lists[l]) : e.resp.id[1] # t
  BY DEF CacheInv, BatchesSound, BatchSound, Lists
<1> QED
  BY <1>1, CacheInvariant, PTL DEF Spec, AddAllAllOrNothing

(* The delete_impl of one turn of addAll's last loop removes nothing that   *)
(* an earlier turn of the same addAll put.                                  *)
THEOREM CacheAddAllKeepsItsOwn == Spec => AddAllKeepsItsOwn
<1> DEFINE Kept == \A t \in Tasks : pc[t] = "reading" /\ toCommit'[t] # toCommit[t] =>
                      \A e \in Range(lists[this[t]]) :
                          e.resp.id[1] = t => e \in Range(lists'[this[t]])
<1>1. ASSUME CacheInv, [Next]_vars PROVE [Kept]_vars
  <2> SUFFICES ASSUME NEW t \in Tasks, pc[t] = "reading", toCommit'[t] # toCommit[t],
                      NEW e \in Range(lists[this[t]]), e.resp.id[1] = t
               PROVE  e \in Range(lists'[this[t]])
    OBVIOUS
  <2>1. FutureTypes
    BY <1>1 DEF CacheInv, CacheTypes
  <2>2. this[t] \in 1..Len(lists) /\ toCommit[t] \in Seq(Entries) /\ toCommit[t] # <<>>
    BY <1>1, <2>1 DEF CacheInv, TasksSound, TaskSound, Working, FutureTypes
  <2>3. CASE PutCommit(t)
    <3>1. PICK c : c = Head(toCommit[t])
      OBVIOUS
    <3>2. c \in Range(toCommit[t])
      BY <2>2, <3>1, HeadFacts
    <3>3. ~IsMatch(c.req, e, NoOptions)
      BY <1>1, <2>2, <3>2 DEF CacheInv, BatchesSound, BatchSound
    <3>4. Range(lists'[this[t]]) =
              {x \in Range(lists[this[t]]) : ~IsMatch(c.req, x, NoOptions)} \cup {c}
      BY <1>1, <2>3, <3>1, Committed
    <3> QED
      BY <3>3, <3>4
  <2>4. CASE lists' = lists
    BY <2>4
  <2>5. PutCommit(t) \/ lists' = lists
    BY <1>1, <2>1 DEF Next, vars, Step, Open, DeleteCache, Delete, ConsumeBody, Put, Fail,
         PutRefused, PutBegin, PutFailed, PutCommit, AddAll, AddAllRefused, AddAllBegin,
         AddAllFetched, AddAllFailed, FutureTypes
  <2> QED
    BY <2>3, <2>4, <2>5
<1> QED
  BY <1>1, CacheInvariant, PTL DEF Spec, AddAllKeepsItsOwn

=============================================================================

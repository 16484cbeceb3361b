---------------------------- MODULE CacheStorage ----------------------------
(***************************************************************************)
(* The Cache API of a worker: the global `caches' and the Cache objects it *)
(* hands out (src/builtins/cache/mod.rs, cache_storage.rs).                *)
(*                                                                         *)
(* `caches' is an ordered list of named, reference-counted entry lists.    *)
(* open hands out a Cache, which is a reference to one entry list and      *)
(* keeps it alive after the cache is deleted by name.  put and addAll are  *)
(* futures: they await response bodies and fetches, so they interleave     *)
(* with each other and with the synchronous operations at every await.     *)
(*                                                                         *)
(* A request is reduced to what is_match and the checks of put look at, a  *)
(* response to its status, its Vary header and its type, with an identity  *)
(* for its body.                                                           *)
(* User code is assumed not to change the headers of a request or response *)
(* it has given to put: the entry keeps the request object itself, and put *)
(* copies the response's headers after its await.                          *)
(***************************************************************************)
EXTENDS Naturals, SequencesExt, Filtering

CONSTANTS
    Tasks,          \* calls of put, add and addAll
    Names,          \* cache names
    Default,        \* DEFAULT_CACHE_KEY
    Infos,          \* the requests user code uses, each a RequestInfo
    Responses,      \* the Response objects user code owns
    Network,        \* what a fetch may answer: status, vary and type
    MaxBatch,       \* bound: requests of one addAll
    MaxLists        \* bound: entry lists ever created

(* via "string" is RequestInfo::String, from which Request::constructor     *)
(* makes a GET request without headers; hdr is the value of the one header  *)
(* that Vary headers name.                                                  *)
RequestInfo == [via : {"string", "object"},
                scheme : {"http", "https", "file", "javascript"},
                method : {"GET", "HEAD", "POST"}, path : STRING, search : STRING,
                hash : STRING, hdr : STRING]

(* vary "hdr" names the header, "star" contains `*', "invalid" is not text. *)
ResponseHead == [status : 0..599, type : {"default", "error", "opaque"},
                 vary : {"none", "hdr", "star", "invalid"}]

ASSUME CacheAssumption ==
    /\ Default \in Names
    /\ Infos \subseteq RequestInfo
    /\ \A q \in Infos : q.via = "string" => q.method = "GET" /\ q.hdr = ""
    /\ \A r \in Responses :
          /\ r.id[1] \notin Tasks
          /\ [status |-> r.status, type |-> r.type, vary |-> r.vary] \in ResponseHead
    /\ Network \subseteq ResponseHead
    /\ MaxBatch \in Nat /\ MaxLists \in Nat \ {0}

VARIABLES
    caches,         \* CacheStorage.caches: Seq of [name, list]
    lists,          \* the entry lists ever created; a list is its index
    used,           \* user responses whose body was taken, read or locked
    pc,             \* where each future is
    this,           \* the entry list it works on
    todo,           \* addAll: `requests' not fetched yet
    toCommit        \* the pairs still to be put

vars == <<caches, lists, used, pc, this, todo, toCommit>>

Lists == 1..Len(lists)
Named == {caches[i].list : i \in DOMAIN caches}

TypeOK ==
    /\ \A c \in Range(caches) : c.name \in Names /\ c.list \in Lists
    /\ \A l \in Lists : \A e \in Range(lists[l]) : e.req \in Infos
    /\ used \subseteq Responses
    /\ pc \in [Tasks -> {"idle", "called", "fetching", "putting", "reading",
                         "resolved", "rejected"}]
    /\ \A t \in Tasks :
          /\ pc[t] \in {"idle", "resolved", "rejected"} \/ this[t] \in Lists
          /\ pc[t] \in {"putting", "reading"} => toCommit[t] # <<>>

(* define(): the default cache exists from the start.                       *)
Init ==
    /\ caches = <<[name |-> Default, list |-> 1]>>
    /\ lists = <<<<>>>>
    /\ used = {}
    /\ pc = [t \in Tasks |-> "idle"]
    /\ this = [t \in Tasks |-> 0]
    /\ todo = [t \in Tasks |-> <<>>]
    /\ toCommit = [t \in Tasks |-> <<>>]

-----------------------------------------------------------------------------
(* Matching.                                                                *)

CacheQueryOptions == [ignoreSearch : BOOLEAN, ignoreMethod : BOOLEAN,
                      ignoreVary : BOOLEAN]
NoOptions == [ignoreSearch |-> FALSE, ignoreMethod |-> FALSE, ignoreVary |-> FALSE]

(* is_match: does the entry e answer the query q?  Fragments (hash) are     *)
(* stripped; every header that the entry's Vary names must be the same; no  *)
(* request has a header named `*'.                                          *)
IsMatch(q, e, options) ==
    /\ q.method = "GET" \/ options.ignoreMethod
    /\ q.scheme = e.req.scheme /\ q.path = e.req.path
    /\ options.ignoreSearch \/ q.search = e.req.search
    /\ \/ options.ignoreVary
       \/ e.resp.type = "opaque"
       \/ e.resp.vary \in {"none", "star"}
       \/ e.resp.vary = "hdr" /\ q.hdr = e.req.hdr

(* match_all_impl: the first `max' entries that match.  The key is optional *)
(* (a sequence of at most one request); without it every entry matches.     *)
MatchAll(entries, key, max, options) ==
    LET found == Filter(entries, {e \in Range(entries) :
                                     \A q \in Range(key) : IsMatch(q, e, options)})
    IN  SubSeq(found, 1, IF max < Len(found) THEN max ELSE Len(found))

(* Cache::keys, the cached requests that match_all would answer with.       *)
CacheKeys(entries, key, options) ==
    LET found == MatchAll(entries, key, Len(entries), options)
    IN  [i \in DOMAIN found |-> found[i].req]

(* CacheStorage::match: the first match in the first cache that has one, or *)
(* in the cache of the given name (at most one).                            *)
StorageMatch(q, name, options) ==
    LET Found(c) == MatchAll(lists[c.list], <<q>>, 1, options)
        hits == Filter(caches, {c \in Range(caches) :
                                   Found(c) # <<>> /\ \A n \in Range(name) : c.name = n})
    IN  IF hits = <<>> THEN <<>> ELSE Found(Head(hits))

(* Mutant of DeleteImpl: the first match only.                              *)
DeleteImplFirst(entries, q, options) ==
    RemoveFirstMatch(entries, LAMBDA e : IsMatch(q, e, options))

(* delete_impl: every entry that matches is removed.                        *)
DeleteImpl(entries, q, options) ==
    Filter(entries, {e \in Range(entries) : ~IsMatch(q, e, options)})

-----------------------------------------------------------------------------
(* CacheStorage: open and delete.  has and keys only read.                  *)

(* Mutant of Open: a list that a deleted cache left behind is used again.   *)
OpenReuses(name) ==
    /\ \A c \in Range(caches) : c.name # name
    /\ \/ \E l \in Lists \ Named : /\ caches' = Append(caches, [name |-> name, list |-> l])
                                  /\ lists' = lists
       \/ /\ Lists = Named
          /\ lists' = Append(lists, <<>>)
          /\ caches' = Append(caches, [name |-> name, list |-> Len(lists) + 1])
    /\ UNCHANGED <<used, pc, this, todo, toCommit>>

(* open of a name that does not exist; of one that does it changes nothing. *)
Open(name) ==
    /\ \A c \in Range(caches) : c.name # name
    /\ Len(lists) < MaxLists
    /\ lists' = Append(lists, <<>>)
    /\ caches' = Append(caches, [name |-> name, list |-> Len(lists) + 1])
    /\ UNCHANGED <<used, pc, this, todo, toCommit>>

(* Mutant of DeleteCache: the default cache is not protected.               *)
DeleteAnyCache(name) ==
    /\ \E c \in Range(caches) : c.name = name
    /\ caches' = RemoveFirstMatch(caches, LAMBDA c : c.name = name)
    /\ UNCHANGED <<lists, used, pc, this, todo, toCommit>>

DeleteCache(name) ==
    /\ name # Default
    /\ \E c \in Range(caches) : c.name = name
    /\ caches' = RemoveFirstMatch(caches, LAMBDA c : c.name = name)
    /\ UNCHANGED <<lists, used, pc, this, todo, toCommit>>

(* Cache::delete, through a Cache object on list l.                         *)
Delete(l, q, options) ==
    /\ lists' = [lists EXCEPT ![l] = DeleteImpl(@, q, options)]
    /\ lists' # lists
    /\ UNCHANGED <<caches, used, pc, this, todo, toCommit>>

(* User code reads, locks or disturbs the body of its response.             *)
ConsumeBody(r) ==
    /\ r \notin used
    /\ used' = used \cup {r}
    /\ UNCHANGED <<caches, lists, pc, this, todo, toCommit>>

-----------------------------------------------------------------------------
(* put_impl, run by put and by every turn of addAll's last loop.            *)

(* Cache::put hands the pair to a future.                                   *)
Put(t, l, q, r) ==
    /\ pc[t] = "idle"
    /\ pc' = [pc EXCEPT ![t] = "putting"]
    /\ this' = [this EXCEPT ![t] = l]
    /\ toCommit' = [toCommit EXCEPT ![t] = <<[req |-> q, resp |-> r]>>]
    /\ UNCHANGED <<caches, lists, used, todo>>

(* The future ends and drops what it holds.                                 *)
Fail(t) ==
    /\ pc' = [pc EXCEPT ![t] = "rejected"]
    /\ this' = [this EXCEPT ![t] = 0]
    /\ todo' = [todo EXCEPT ![t] = <<>>]
    /\ toCommit' = [toCommit EXCEPT ![t] = <<>>]
    /\ UNCHANGED <<caches, lists>>

(* The checks of put_impl on scheme, method, status and Vary.               *)
Cacheable(e) ==
    /\ e.req.scheme \in {"http", "https"}
    /\ e.req.method = "GET"
    /\ e.resp.status # 206
    /\ e.resp.type = "opaque" \/ e.resp.vary \notin {"star", "invalid"}

PutRefused(t) ==
    /\ pc[t] = "putting"
    /\ ~Cacheable(Head(toCommit[t])) \/ Head(toCommit[t]).resp \in used
    /\ Fail(t) /\ UNCHANGED used

(* take_body, then the await of into_bytes.                                 *)
PutBegin(t) ==
    /\ pc[t] = "putting"
    /\ Cacheable(Head(toCommit[t])) /\ Head(toCommit[t]).resp \notin used
    /\ used' = used \cup ({Head(toCommit[t]).resp} \cap Responses)
    /\ pc' = [pc EXCEPT ![t] = "reading"]
    /\ UNCHANGED <<caches, lists, this, todo, toCommit>>

(* The body's stream failed.                                                *)
PutFailed(t) ==
    /\ pc[t] = "reading"
    /\ Fail(t) /\ UNCHANGED used

(* The bytes are there: delete_impl and push, without an await in between.  *)
PutCommit(t) ==
    /\ pc[t] = "reading"
    /\ lists' = [lists EXCEPT ![this[t]] =
          Append(DeleteImpl(@, Head(toCommit[t]).req, NoOptions), Head(toCommit[t]))]
    /\ toCommit' = [toCommit EXCEPT ![t] = Tail(@)]
    /\ IF Len(toCommit[t]) = 1
       THEN pc' = [pc EXCEPT ![t] = "resolved"] /\ this' = [this EXCEPT ![t] = 0]
       ELSE pc' = [pc EXCEPT ![t] = "putting"] /\ UNCHANGED this
    /\ UNCHANGED <<caches, used, todo>>

-----------------------------------------------------------------------------
(* addAll, and add, which is addAll of one request.                         *)

AddAll(t, l, batch) ==
    /\ pc[t] = "idle"
    /\ pc' = [pc EXCEPT ![t] = "called"]
    /\ this' = [this EXCEPT ![t] = l]
    /\ todo' = [todo EXCEPT ![t] = batch]
    /\ UNCHANGED <<caches, lists, used, toCommit>>

(* The first loop: only Request objects are checked before the fetches.     *)
Acceptable(q) == q.via = "object" => q.scheme \in {"http", "https"} /\ q.method = "GET"

AddAllRefused(t) ==
    /\ pc[t] = "called"
    /\ \E q \in Range(todo[t]) : ~Acceptable(q)
    /\ Fail(t) /\ UNCHANGED used

AddAllBegin(t) ==
    /\ pc[t] = "called"
    /\ \A q \in Range(todo[t]) : Acceptable(q)
    /\ IF todo[t] = <<>>
       THEN pc' = [pc EXCEPT ![t] = "resolved"] /\ this' = [this EXCEPT ![t] = 0]
       ELSE pc' = [pc EXCEPT ![t] = "fetching"] /\ UNCHANGED this
    /\ UNCHANGED <<caches, lists, used, todo, toCommit>>

(* Mutant of Duplicate: whole requests are compared, not what they match.   *)
DuplicateIfEqual(t) ==
    \E e \in Range(toCommit[t]) : Head(todo[t]) = e.req

(* The next request matches a pair that is to be committed.                 *)
Duplicate(t) ==
    \E e \in Range(toCommit[t]) : IsMatch(Head(todo[t]), e, NoOptions)

(* The checks on a fetched response, which do not exempt opaque ones.       *)
Storable(head) ==
    /\ head.status \in 200..299 /\ head.status # 206
    /\ head.vary \notin {"star", "invalid"}

(* Mutant of AddAllFetched: what was fetched is put at once.                *)
AddAllFetchedPuts(t) ==
    /\ pc[t] = "fetching"
    /\ ~Duplicate(t)
    /\ \E head \in Network :
          /\ Storable(head)
          /\ lists' = [lists EXCEPT ![this[t]] =
                Append(@, [req |-> Head(todo[t]),
                           resp |-> [id |-> <<t, Len(todo[t])>>, status |-> head.status,
                                     type |-> head.type, vary |-> head.vary]])]
    /\ todo' = [todo EXCEPT ![t] = Tail(@)]
    /\ pc' = [pc EXCEPT ![t] = IF Len(todo[t]) = 1 THEN "resolved" ELSE "fetching"]
    /\ UNCHANGED <<caches, used, this, toCommit>>

(* One turn of the second loop: the fetch was answered.                     *)
AddAllFetched(t) ==
    /\ pc[t] = "fetching"
    /\ ~Duplicate(t)
    /\ \E head \in Network :
          /\ Storable(head)
          /\ toCommit' = [toCommit EXCEPT ![t] =
                Append(@, [req |-> Head(todo[t]),
                           resp |-> [id |-> <<t, Len(@) + 1>>, status |-> head.status,
                                     type |-> head.type, vary |-> head.vary]])]
    /\ todo' = [todo EXCEPT ![t] = Tail(@)]
    /\ pc' = [pc EXCEPT ![t] = IF Len(todo[t]) = 1 THEN "putting" ELSE "fetching"]
    /\ UNCHANGED <<caches, lists, used, this>>

(* A duplicate, an invalid URL, a failed fetch or a bad response.           *)
AddAllFailed(t) ==
    /\ pc[t] = "fetching"
    /\ Fail(t) /\ UNCHANGED used

-----------------------------------------------------------------------------
Batches == UNION {[1..n -> Infos] : n \in 0..MaxBatch}

Step(t) ==
    \/ PutRefused(t) \/ PutBegin(t) \/ PutFailed(t) \/ PutCommit(t)
    \/ AddAllRefused(t) \/ AddAllBegin(t) \/ AddAllFetched(t) \/ AddAllFailed(t)

Next ==
    \/ \E name \in Names : Open(name) \/ DeleteCache(name)
    \/ \E l \in Lists, q \in Infos, options \in CacheQueryOptions : Delete(l, q, options)
    \/ \E r \in Responses : ConsumeBody(r)
    \/ \E t \in Tasks, l \in Lists :
          \/ \E q \in Infos, r \in Responses : Put(t, l, q, r)
          \/ \E batch \in Batches : AddAll(t, l, batch)
    \/ \E t \in Tasks : Step(t)

Spec == Init /\ [][Next]_vars

-----------------------------------------------------------------------------
(* Properties.                                                              *)

(* match with the request of an entry returns that entry, and so does       *)
(* caches.match with the name of its cache: put's delete_impl leaves no     *)
(* older entry that would answer first, whatever Vary headers differ and    *)
(* whichever put, addAll and delete ran during its awaits.                  *)
EntryFound ==
    \A l \in Lists : \A e \in Range(lists[l]) :
        /\ MatchAll(lists[l], <<e.req>>, 1, NoOptions) = <<e>>
        /\ \A c \in Range(caches) :
              c.list = l => StorageMatch(e.req, <<c.name>>, NoOptions) = <<e>>

(* get_default's assert: the default cache exists and comes first; no name  *)
(* occurs twice, so that one delete does remove a cache; and no two names   *)
(* share a list.                                                            *)
StorageWellFormed ==
    /\ caches # <<>> /\ caches[1] = [name |-> Default, list |-> 1]
    /\ \A i, j \in DOMAIN caches :
          i # j => caches[i].name # caches[j].name /\ caches[i].list # caches[j].list

(* A deleted cache never comes back: what Cache objects that outlive it     *)
(* still write cannot be seen through `caches' again.                       *)
DeletedStaysDeleted ==
    [][\A l \in Lists : l \notin Named => l \notin Named']_vars

(* The turns of addAll's last loop do not overwrite each other: what its    *)
(* test for duplicates lets pass, delete_impl does not match.               *)
AddAllKeepsItsOwn ==
    [][\A t \in Tasks : pc[t] = "reading" /\ toCommit'[t] # toCommit[t] =>
          \A e \in Range(lists[this[t]]) :
              e.resp.id[1] = t => e \in Range(lists'[this[t]])]_vars

(* "If any response fails, no response should be added to cache": an addAll *)
(* that a duplicate, a failed fetch or a bad response ends has stored       *)
(* nothing, however many of its requests were answered before.  (A put that *)
(* fails in its last loop does leave the earlier pairs behind.)             *)
AddAllAllOrNothing ==
    [][\A t \in Tasks : pc[t] \in {"called", "fetching"} /\ pc'[t] = "rejected" =>
          \A l \in Lists : \A e \in Range(lists[l]) : e.resp.id[1] # t]_vars

=============================================================================

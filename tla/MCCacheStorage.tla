---------------------------- MODULE MCCacheStorage --------------------------
(* Small instances of CacheStorage.  The requests: one URL twice, with      *)
(* different values of the header that Vary names, another query string of  *)
(* the same URL given as a string, and what put must refuse.                *)
EXTENDS CacheStorage, TLC

Info(via, scheme, method, search, hdr) ==
    [via |-> via, scheme |-> scheme, method |-> method, path |-> "/",
     search |-> search, hash |-> "", hdr |-> hdr]

Circle == Info("object", "http", "GET", "", "circle")
Square == Info("object", "http", "GET", "", "square")
Query  == Info("string", "http", "GET", "?q", "")
Post   == Info("object", "http", "POST", "", "circle")

Response(n, status, vary) ==
    [id |-> <<"user", n>>, status |-> status, type |-> "default", vary |-> vary]

Fresh(status, vary) == [status |-> status, type |-> "default", vary |-> vary]

SomeInfos == {Circle, Square, Query, Post}
SomeResponses == {Response(1, 200, "hdr")}
SomeAnswers == {Fresh(200, "none"), Fresh(200, "hdr"), Fresh(206, "none")}

TaskSymmetry == Permutations(Tasks)

(* Filter is SelectSeq, defined without recursion.                          *)
ASSUME FilterSelects ==
    \A s \in UNION {[1..n -> 1..3] : n \in 0..4}, keep \in SUBSET (1..3) :
        Filter(s, keep) = SelectSeq(s, LAMBDA e : e \in keep)
=============================================================================

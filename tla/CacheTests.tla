----------------------------- MODULE CacheTests -----------------------------
(***************************************************************************)
(* The conformance tests of the Cache API (test-suite/js-test-app/src/     *)
(* test-files/17-cache.js) as client programs of CacheStorage.             *)
(*                                                                         *)
(* A test is the sequence of the calls it makes on `caches' and on Cache   *)
(* objects, each with the result the test asserts; the next call is made   *)
(* when the promise of the last one has settled.  The cache's part of a    *)
(* call is the action of CacheStorage, with the answers of the tests'      *)
(* backend for what addAll fetches.  Every test before `CacheStorage keys' *)
(* has a cache of its own and starts from an empty storage here; the ones  *)
(* after it look at all caches and run as one session.                     *)
(*                                                                         *)
(* Two responses are the same when their labels are: the tests compare     *)
(* attributes and headers, or the text of the body.  Tests that make the   *)
(* same calls here (a request object and a new one of the same URL, no     *)
(* argument and an undefined one) are one test.                            *)
(***************************************************************************)
EXTENDS CacheStorage

VARIABLES
    test,           \* the test that runs, an index of Tests
    made,           \* how many of its calls have returned
    result,         \* what the last one returned
    handle          \* the test's variables that hold Cache objects: entry lists

clientVars == <<test, made, result, handle>>
testVars == <<vars, clientVars>>

Task == CHOOSE t \in Tasks : TRUE

-----------------------------------------------------------------------------
(* Requests and responses.                                                  *)

Url(scheme, path, search, hash) ==
    [via |-> "string", scheme |-> scheme, method |-> "GET", path |-> path,
     search |-> search, hash |-> hash, hdr |-> ""]

Req(url) == [url EXCEPT !.via = "object"]
ReqWith(url, hdr) == [Req(url) EXCEPT !.hdr = hdr]
HeadReq(url) == [Req(url) EXCEPT !.method = "HEAD"]
PostReq(url) == [Req(url) EXCEPT !.method = "POST"]

Com(path) == Url("http", "example.com" \o path, "", "")
TestUrl == Url("https", "example.com/foo", "", "")
Nowhere == Url("http", "something-something-we-dont-have-this.com", "", "")

(* winterTestsBaseUrl, and what its backend answers to the query.           *)
Backend(search) == Url("http", "backend", search, "")

Answer(q) ==
    [status |-> CASE q.search = "?status=201" -> 201
                  [] q.search = "?status=202" -> 202
                  [] q.search = "?status=206" -> 206
                  [] q.search = "?status=404" -> 404
                  [] q.search = "?status=500" -> 500
                  [] OTHER -> 200,
     type |-> "default",
     vary |-> IF q.search = "?vary=x-shape" THEN "hdr" ELSE "none"]

NewResponse(label, status, type, vary) ==
    [id |-> <<"user", label>>, status |-> status, type |-> type, vary |-> vary]
Resp(label) == NewResponse(label, 200, "default", "none")
Fetched(label, url) == NewResponse(label, Answer(url).status, "default", "none")

(* clone(): another object, whose body is read on its own.                  *)
Clone(r) == [r EXCEPT !.id[1] = "clone"]
CloneAgain(r) == [r EXCEPT !.id[1] = "second clone"]

IgnoreSearch == [NoOptions EXCEPT !.ignoreSearch = TRUE]
IgnoreMethod == [NoOptions EXCEPT !.ignoreMethod = TRUE]
IgnoreVary   == [NoOptions EXCEPT !.ignoreVary = TRUE]

-----------------------------------------------------------------------------
(* Calls.  c is the variable that holds the Cache object.                   *)

PutCall(c, q, r, expect) == [op |-> "put", on |-> c, key |-> q, resp |-> r, expect |-> expect]
AddAllCall(c, batch, expect) == [op |-> "addAll", on |-> c, batch |-> batch, expect |-> expect]
DeleteCall(c, q, options, expect) ==
    [op |-> "delete", on |-> c, key |-> q, options |-> options, expect |-> expect]
(* match and matchAll, and the labels of the responses.                     *)
MatchCall(c, q, options, expect) ==
    [op |-> "match", on |-> c, key |-> q, options |-> options, expect |-> expect]
MatchAllCall(c, key, options, expect) ==
    [op |-> "matchAll", on |-> c, key |-> key, options |-> options, expect |-> expect]
(* match, and whether there was a response.                                 *)
FoundCall(c, q, expect) == [op |-> "found", on |-> c, key |-> q, expect |-> expect]
KeysCall(c, key, options, expect) ==
    [op |-> "keys", on |-> c, key |-> key, options |-> options, expect |-> expect]
OpenCall(c, name) == [op |-> "open", on |-> c, name |-> name, expect |-> TRUE]
DropCall(name, expect) == [op |-> "caches.delete", name |-> name, expect |-> expect]
HasCall(name, expect) == [op |-> "has", name |-> name, expect |-> expect]
NamesCall(expect) == [op |-> "caches.keys", expect |-> expect]
(* caches.match; without a cacheName all caches are searched.               *)
SearchCall(name, q, options, expect) ==
    [op |-> "caches.match", name |-> name, key |-> q, options |-> options,
     expect |-> expect]
BodyUsedCall(r, expect) == [op |-> "bodyUsed", resp |-> r, expect |-> expect]
TextCall(r) == [op |-> "text", resp |-> r, expect |-> TRUE]

(* create_temporary_cache, called by cache_test before the test function.   *)
CacheTest(name, calls) ==
    <<DropCall(name, FALSE), OpenCall("cache", name)>> \o calls
Temporary(calls) == CacheTest("temporary", calls)

Entry(path, search) == [request |-> Req(Url("http", path, search, "")),
                        response |-> Resp(path \o search)]

simple_entries ==
    <<Entry("example.com/a", ""), Entry("example.com/b", ""),
      Entry("example.com/a", "?q=r"), Entry("example.com/A", ""),
      [request |-> Req(Url("https", "example.com/a", "", "")), response |-> Resp("https")],
      Entry("example.org/a", ""), Entry("example.com/cat", ""),
      Entry("example.com/catmandu", ""), Entry("example.com/cat", "?lives=9"),
      Entry("example.com/cat/in/the/hat", ""),
      [request |-> Req(Com("/non2xx")),
       response |-> NewResponse("non2xx", 404, "default", "none")],
      [request |-> Req(Com("/error")),
       response |-> NewResponse("error", 0, "error", "none")]>>

vary_entries ==
    [i \in 1..3 |->
        LET cookie == <<"is-for-cookie", "is-good-enough-for-me", "">>[i]
        IN  [request |-> ReqWith(Com("/c"), cookie),
             response |-> NewResponse("c " \o cookie, 200, "default", "hdr")]]

Labels(entries) == [i \in DOMAIN entries |-> entries[i].response.id[2]]
RequestsOf(entries) == [i \in DOMAIN entries |-> entries[i].request]

(* prepopulated_cache_test: the entries are put one after the other.        *)
Prepopulated(entries, calls) ==
    Temporary([i \in DOMAIN entries |->
                  PutCall("cache", entries[i].request, Clone(entries[i].response), "resolved")]
              \o calls)
Simple(calls) == Prepopulated(simple_entries, calls)

A == Com("/a")
AQuery == Url("http", "example.com/a", "?q=r", "")
ALabel == "example.com/a"
AQueryLabel == "example.com/a?q=r"

VaryReq == ReqWith(Com("/c"), "is-for-cookie")
VaryResp == NewResponse("vary", 200, "default", "hdr")
Mismatched == Req(Com("/c"))

-----------------------------------------------------------------------------
(* The tests.                                                               *)

AddTests ==
  <<Temporary(<<AddAllCall("cache", <<Url("javascript", "this-is-not-http-mmkay", "", "")>>,
                           "rejected")>>),
    Temporary(<<AddAllCall("cache", <<Req(Backend(""))>>, "resolved")>>),
    Temporary(<<AddAllCall("cache", <<PostReq(Backend(""))>>, "rejected")>>),
    Temporary(<<AddAllCall("cache", <<Req(Backend(""))>>, "resolved"),
                AddAllCall("cache", <<Req(Backend(""))>>, "resolved")>>),
    Temporary(<<AddAllCall("cache", <<Backend("?status=206")>>, "rejected")>>),
    Temporary(<<AddAllCall("cache", <<Req(Backend("?status=206")), Req(Backend("?status=200"))>>,
                           "rejected")>>),
    Temporary(<<AddAllCall("cache", <<Backend("?status=404")>>, "rejected")>>),
    Temporary(<<AddAllCall("cache", <<Backend("?status=500")>>, "rejected")>>)>>

(* `Cache.addAll with ... arguments', of strings and of Request objects.    *)
AddAllOf(urls, requests, expect) ==
    Temporary(<<AddAllCall("cache", requests, expect)>>
              \o [i \in DOMAIN urls |-> FoundCall("cache", urls[i], expect = "resolved")])

AddAllTests ==
  LET Urls(second) == <<Backend("?status=200"), Backend(second), Backend("?status=202")>>
      Reqs(second) == [i \in 1..3 |-> Req(Urls(second)[i])]
      Shape(hdr) == ReqWith(Backend("?vary=x-shape"), hdr)
      Two(q1, q2, expect) == Temporary(<<AddAllCall("cache", <<q1, q2>>, expect)>>)
  IN <<Temporary(<<AddAllCall("cache", <<>>, "resolved"),
                   KeysCall("cache", <<>>, NoOptions, <<>>)>>),
       AddAllOf(Urls("?status=201"), Urls("?status=201"), "resolved"),
       AddAllOf(Urls("?status=201"), Reqs("?status=201"), "resolved"),
       AddAllOf(Urls("?status=404"), Reqs("?status=404"), "rejected"),
       Two(Req(Backend("?status=200")), Req(Backend("?status=200")), "rejected"),
       Two(Shape("circle"), Shape("square"), "resolved"),
       Two(Shape("circle"), Shape("circle"), "rejected")>>

DeleteTests ==
  LET Put1 == PutCall("cache", Req(TestUrl), Resp("r"), "resolved")
      All == MatchAllCall("cache", <<Req(AQuery)>>, IgnoreSearch, <<ALabel, AQueryLabel>>)
  IN <<Temporary(<<Put1, DeleteCall("cache", TestUrl, NoOptions, TRUE),
                   MatchCall("cache", TestUrl, NoOptions, <<>>)>>),
       Temporary(<<Put1, DeleteCall("cache", Req(TestUrl), NoOptions, TRUE)>>),
       Temporary(<<Put1, DeleteCall("cache", HeadReq(TestUrl), NoOptions, FALSE),
                   MatchCall("cache", TestUrl, NoOptions, <<"r">>),
                   DeleteCall("cache", HeadReq(TestUrl), IgnoreMethod, TRUE)>>),
       Temporary(<<PutCall("cache", VaryReq, VaryResp, "resolved"),
                   DeleteCall("cache", Mismatched, NoOptions, FALSE),
                   DeleteCall("cache", Mismatched, IgnoreVary, TRUE)>>),
       Temporary(<<DeleteCall("cache", TestUrl, NoOptions, FALSE)>>),
       Simple(<<All, DeleteCall("cache", Req(AQuery), IgnoreSearch, TRUE),
                MatchAllCall("cache", <<Req(AQuery)>>, IgnoreSearch, <<>>)>>),
       Simple(<<All, DeleteCall("cache", Req(AQuery), NoOptions, TRUE),
                MatchAllCall("cache", <<Req(AQuery)>>, IgnoreSearch, <<ALabel>>)>>)>>

(* Most tests of keys, match and matchAll make one query.                   *)
KeysTests ==
  LET One(key, options, expect) == Simple(<<KeysCall("cache", key, options, expect)>>)
  IN <<Temporary(<<KeysCall("cache", <<>>, NoOptions, <<>>)>>),
       One(<<Nowhere>>, NoOptions, <<>>),
       One(<<A>>, NoOptions, <<Req(A)>>),
       One(<<Req(A)>>, NoOptions, <<Req(A)>>),
       One(<<Req(A)>>, IgnoreSearch, <<Req(A), Req(AQuery)>>),
       One(<<Req(AQuery)>>, IgnoreSearch, <<Req(A), Req(AQuery)>>),
       Temporary(<<PutCall("cache", Req(Com("/")), Resp("foo"), "resolved"),
                   KeysCall("cache", <<HeadReq(Com("/"))>>, NoOptions, <<>>),
                   KeysCall("cache", <<HeadReq(Com("/"))>>, IgnoreMethod, <<Req(Com("/"))>>)>>),
       Temporary(<<PutCall("cache", VaryReq, VaryResp, "resolved"),
                   KeysCall("cache", <<Mismatched>>, NoOptions, <<>>),
                   KeysCall("cache", <<Mismatched>>, IgnoreVary, <<VaryReq>>)>>)>>

KeysTests2 ==
  LET Cat == Url("http", "example.com/cat", "", "#mouse")
  IN <<Simple(<<KeysCall("cache", <<Cat>>, NoOptions, <<Req(Com("/cat"))>>)>>),
       Simple(<<KeysCall("cache", <<>>, NoOptions, RequestsOf(simple_entries))>>),
       Prepopulated(vary_entries,
                    <<KeysCall("cache", <<>>, NoOptions, RequestsOf(vary_entries))>>),
       Simple(<<KeysCall("cache", <<HeadReq(Com("/cat"))>>, NoOptions, <<>>)>>)>>

MatchTests ==
  LET One(q, options, expect) == Simple(<<MatchCall("cache", q, options, expect)>>)
  IN <<One(Nowhere, NoOptions, <<>>),
       One(A, NoOptions, <<ALabel>>),
       One(Req(A), NoOptions, <<ALabel>>),
       Simple(<<OpenCall("second", "second_matching_cache"),
                PutCall("second", Req(A), NewResponse("alt", 201, "default", "none"), "resolved"),
                MatchCall("cache", Req(A), NoOptions, <<ALabel>>)>>),
       One(HeadReq(A), NoOptions, <<>>),
       One(Req(A), IgnoreSearch, <<ALabel>>),
       One(Req(AQuery), IgnoreSearch, <<ALabel>>),
       Temporary(<<PutCall("cache", Req(Com("/")), Resp("foo"), "resolved"),
                   MatchCall("cache", HeadReq(Com("/")), NoOptions, <<>>),
                   MatchCall("cache", HeadReq(Com("/")), IgnoreMethod, <<"foo">>)>>),
       Temporary(<<PutCall("cache", VaryReq, VaryResp, "resolved"),
                   MatchCall("cache", Mismatched, NoOptions, <<>>),
                   MatchCall("cache", Mismatched, IgnoreVary, <<"vary">>)>>)>>

MatchTests2 ==
  LET FetchAndPut(q) == PutCall("cache", q, Fetched("net", Backend("")), "resolved")
      Hit == MatchCall("cache", Backend(""), NoOptions, <<"net">>)
  IN <<Simple(<<MatchCall("cache", Url("http", "example.com/cat", "", "#mouse"), NoOptions,
                          <<"example.com/cat">>)>>),
       Prepopulated(vary_entries, <<MatchCall("cache", Com("/c"), NoOptions, <<"c ">>)>>),
       Temporary(<<FetchAndPut(Req(Com("/"))),
                   MatchCall("cache", Com("/"), NoOptions, <<"net">>),
                   FoundCall("cache", Backend(""), FALSE)>>),
       Temporary(<<FetchAndPut(Req(Backend(""))), Hit, Hit>>),
       Temporary(<<FetchAndPut(Req(Backend(""))), Hit>>)>>

(* The third of these is the one test that is not awaited.                  *)
MatchTests3 ==
    <<Simple(<<MatchCall("cache", PostReq(A), NoOptions, <<>>)>>),
      Simple(<<MatchCall("cache", Com("/non2xx"), NoOptions, <<"non2xx">>)>>),
      Simple(<<MatchCall("cache", Com("/error"), NoOptions, <<"error">>)>>)>>

MatchAllTests ==
  LET One(key, options, expect) == Simple(<<MatchAllCall("cache", key, options, expect)>>)
  IN <<One(<<Nowhere>>, NoOptions, <<>>),
       One(<<A>>, NoOptions, <<ALabel>>),
       One(<<Req(A)>>, NoOptions, <<ALabel>>),
       One(<<HeadReq(A)>>, IgnoreSearch, <<>>),
       One(<<Req(A)>>, IgnoreSearch, <<ALabel, AQueryLabel>>),
       One(<<Req(AQuery)>>, IgnoreSearch, <<ALabel, AQueryLabel>>),
       Temporary(<<PutCall("cache", Req(Com("/")), Resp("foo"), "resolved"),
                   MatchAllCall("cache", <<HeadReq(Com("/"))>>, NoOptions, <<>>),
                   MatchAllCall("cache", <<HeadReq(Com("/"))>>, IgnoreMethod, <<"foo">>)>>),
       Temporary(<<PutCall("cache", VaryReq, VaryResp, "resolved"),
                   MatchAllCall("cache", <<Mismatched>>, NoOptions, <<>>),
                   MatchAllCall("cache", <<Mismatched>>, IgnoreVary, <<"vary">>)>>)>>

MatchAllTests2 ==
  LET Cat == Url("http", "example.com/cat", "", "#mouse")
  IN <<Simple(<<MatchAllCall("cache", <<Cat>>, NoOptions, <<"example.com/cat">>)>>),
       Simple(<<MatchAllCall("cache", <<>>, NoOptions, Labels(simple_entries))>>),
       Prepopulated(vary_entries,
          <<MatchAllCall("cache", <<Com("/c")>>, NoOptions, <<"c ">>),
            MatchAllCall("cache", <<ReqWith(Com("/c"), "none-of-the-above")>>, NoOptions, <<>>),
            MatchAllCall("cache", <<VaryReq>>, NoOptions, <<"c is-for-cookie">>)>>),
       Prepopulated(vary_entries,
          <<MatchAllCall("cache", <<Com("/c")>>, IgnoreVary, Labels(vary_entries))>>)>>

(* A put, and a match that finds what was put.                              *)
PutAndMatch(q, r) ==
    Temporary(<<PutCall("cache", q, r, "resolved"),
                MatchCall("cache", [q EXCEPT !.via = "string"], NoOptions, <<r.id[2]>>)>>)
PutFetched(search) == PutAndMatch(Req(Backend(search)), Fetched("net", Backend(search)))

PutTests ==
    <<Temporary(<<PutCall("cache", Req(TestUrl), Resp("r"), "resolved")>>),
      PutFetched("")>>

PutTests2 ==
    LET Partial == NewResponse("partial", 206, "default", "none")
    IN  <<PutAndMatch(Req(TestUrl), Clone(Resp("r"))),
          PutAndMatch(Req(TestUrl), Resp("empty")),
          Temporary(<<PutCall("cache", Req(TestUrl), Partial, "rejected")>>),
          Temporary(<<PutCall("cache", Req(Backend("?status=206")),
                              Fetched("net", Backend("?status=206")), "rejected")>>)>>

PutTests3 ==
  LET Old == Resp("Old body")
      New == Resp("New body")
      Hashed(hash) == Req(Url("https", "example.com/foo", "", hash))
  IN <<PutFetched("?status=500"),
       Temporary(<<PutCall("cache", Req(TestUrl), Old, "resolved"),
                   PutCall("cache", Req(TestUrl), Clone(New), "resolved"),
                   MatchCall("cache", TestUrl, NoOptions, <<"New body">>)>>),
       Temporary(<<PutCall("cache", Req(TestUrl), Old, "resolved"),
                   PutCall("cache", Hashed("#(O_o)"), Clone(New), "resolved"),
                   MatchCall("cache", TestUrl, NoOptions, <<"New body">>),
                   PutCall("cache", Hashed("#fragment"), CloneAgain(New), "resolved"),
                   KeysCall("cache", <<>>, NoOptions, <<Hashed("#fragment")>>)>>),
       PutAndMatch(Com("/foo"), Resp("some body"))>>

PutTests4 ==
  LET Refused(q, r) == Temporary(<<PutCall("cache", q, r, "rejected")>>)
      Star == NewResponse("star", 200, "default", "star")
      Redirect == NewResponse("redirect", 302, "default", "none")
  IN <<Refused(Req(Url("file", "/etc/passwd", "", "")), Resp("r")),
       Refused(HeadReq(Com("/foo")), Resp("r")),
       Refused(PostReq(TestUrl), Resp("r")),
       Temporary(<<BodyUsedCall(Resp("r"), FALSE), TextCall(Resp("r")),
                   BodyUsedCall(Resp("r"), TRUE),
                   PutCall("cache", Req(TestUrl), Resp("r"), "rejected")>>),
       Temporary(<<PutCall("cache", Req(TestUrl), Resp("r"), "resolved"),
                   BodyUsedCall(Resp("r"), TRUE)>>),
       Refused(Req(TestUrl), Star),
       Temporary(<<PutCall("cache", Com("/foo.html"), Clone(Redirect), "resolved"),
                   MatchCall("cache", Com("/foo.html"), NoOptions, <<"redirect">>)>>),
       PutAndMatch(Req(TestUrl), Resp("blob")), PutAndMatch(Req(TestUrl), Resp("form data"))>>

(* create_unique_transaction.                                               *)
Transaction(n) == [request |-> Req(Com(n)), response |-> Resp(n), url |-> Com(n)]
OpenAll(names) == [i \in DOMAIN names |-> OpenCall("any", names[i])]
DropAll(names) == [i \in DOMAIN names |-> DropCall(names[i], TRUE)]

test_cache_list == <<"", "example", "Another cache name", "A", "a", "ex ample">>

(* `CacheStorage keys'; of the caches that the tests before it opened, it   *)
(* finds two here.                                                          *)
StorageKeysTest ==
    OpenAll(<<"foo", "second_matching_cache">>)
    \o <<NamesCall(<<Default, "foo", "second_matching_cache">>)>>
    \o DropAll(<<"foo", "second_matching_cache">>)
    \o OpenAll(test_cache_list)
    \o <<NamesCall(<<Default>> \o test_cache_list)>>

(* A transaction is put into a temporary cache; then the calls.             *)
AfterPut(n, calls) ==
    CacheTest("temporary" \o n,
              <<PutCall("cache", Transaction(n).request, Clone(Transaction(n).response),
                        "resolved")>> \o calls)

Anywhere(q, options, expect) == SearchCall(<<>>, q, options, expect)

StorageMatchTests ==
    AfterPut("/1", <<Anywhere(Transaction("/1").request, NoOptions, <<"/1">>)>>)
    \o AfterPut("/2", OpenAll(<<"a", "b", "c">>)
                      \o <<Anywhere(Transaction("/2").request, NoOptions, <<"/2">>)>>)
    \o OpenAll(<<"x", "y", "z">>)
    \o <<OpenCall("x", "x"),
         PutCall("x", Transaction("/3").request, Clone(Transaction("/3").response), "resolved"),
         SearchCall(<<"x">>, Transaction("/3").request, NoOptions, <<"/3">>),
         SearchCall(<<"y">>, Transaction("/3").request, NoOptions, <<>>)>>
    \o CacheTest("temporary/4",
         <<PutCall("cache", Transaction("/4").url, Clone(Transaction("/4").response), "resolved"),
           Anywhere(Transaction("/4").request, NoOptions, <<"/4">>)>>)
    \o AfterPut("/5", <<Anywhere(HeadReq(Transaction("/5").url), NoOptions, <<>>)>>)
    \o <<Anywhere(Transaction("/6").request, NoOptions, <<>>),
         DropCall("foo", FALSE), HasCall("foo", FALSE),
         SearchCall(<<"foo">>, Transaction("/7").request, NoOptions, <<>>),
         HasCall("foo", FALSE)>>

StorageMatchTests2 ==
    CacheTest("temporary/8",
         <<DropCall("", TRUE), HasCall("", FALSE),
           PutCall("cache", Transaction("/8").request, Clone(Transaction("/8").response),
                   "resolved"),
           SearchCall(<<"">>, Transaction("/8").request, NoOptions, <<>>),
           OpenCall("empty", ""),
           PutCall("empty", Transaction("/8").request, Transaction("/8").response, "resolved"),
           SearchCall(<<"">>, Transaction("/8").request, NoOptions, <<"/8">>),
           DropCall("", TRUE)>>)
    \o CacheTest("temporary/9",
         <<PutCall("cache", Req(Url("http", "example.com/", "?foo", "")), Resp("foo"), "resolved"),
           Anywhere(Req(Com("/")), NoOptions, <<>>),
           Anywhere(Req(Com("/")), IgnoreSearch, <<"foo">>)>>)
    \o CacheTest("temporary/10",
         <<PutCall("cache", Req(Com("/")), Resp("bar"), "resolved"),
           Anywhere(HeadReq(Com("/")), NoOptions, <<>>),
           Anywhere(HeadReq(Com("/")), IgnoreMethod, <<"bar">>)>>)
    \o CacheTest("temporary/11",
         <<PutCall("cache", VaryReq, VaryResp, "resolved"),
           Anywhere(Mismatched, NoOptions, <<>>),
           Anywhere(Mismatched, IgnoreVary, <<"vary">>)>>)

(* The caches of `has with existing cache' have names of their own; its     *)
(* three chains run one after the other here.                               *)
StorageTests ==
    LET HasTest(name, others) ==
            <<DropCall(name, FALSE), OpenCall("any", name), HasCall(name, TRUE)>>
            \o [i \in DOMAIN others |-> HasCall(others[i], FALSE)]
            \o <<DropCall(name, TRUE)>>
    IN  <<DropCall("cache-storage/foo", FALSE), OpenCall("any", "cache-storage/foo"),
          OpenCall("first", "cache-storage/bar"), DropCall("cache-storage/bar", TRUE),
          AddAllCall("first", <<Backend("")>>, "resolved"),
          HasCall("cache-storage/bar", FALSE),
          OpenCall("second", "cache-storage/bar"),
          KeysCall("second", <<>>, NoOptions, <<>>),
          KeysCall("first", <<>>, NoOptions, <<Backend("")>>),
          DropCall("cache-storage/bar", TRUE),
          DropCall("", FALSE), OpenCall("any", "")>>
        \o HasTest("cache-storage/lowercase",
                   <<"cache-storage/Lowercase", " cache-storage/lowercase",
                     "cache-storage/lowercase ">>)
        \o HasTest("cache-storage/has a space", <<"cache-storage/has">>)
        \o HasTest("cache-storage/has\\x00_in_the_name",
                   <<"cache-storage/has", "cache-storage/has_in_the_name">>)
        \o <<HasCall("cheezburger", FALSE)>>

StorageTests2 ==
    <<DropCall("cache-storage/open", FALSE), OpenCall("first", "cache-storage/open"),
      AddAllCall("first", <<Backend("")>>, "resolved"),
      OpenCall("second", "cache-storage/open"),
      KeysCall("first", <<>>, NoOptions, <<Backend("")>>),
      KeysCall("second", <<>>, NoOptions, <<Backend("")>>),
      DropCall("cache-storage/delete", FALSE), OpenCall("any", "cache-storage/delete"),
      DropCall("cache-storage/delete", TRUE), HasCall("cache-storage/delete", FALSE),
      DropCall("cheezburger", FALSE)>>

StorageSession ==
    StorageKeysTest \o StorageMatchTests \o StorageMatchTests2 \o StorageTests \o StorageTests2

Tests ==
    AddTests \o AddAllTests \o DeleteTests \o KeysTests \o KeysTests2 \o MatchTests
    \o MatchTests2 \o MatchTests3 \o MatchAllTests \o MatchAllTests2 \o PutTests
    \o PutTests2 \o PutTests3 \o PutTests4 \o <<StorageSession>>

-----------------------------------------------------------------------------
(* Running a test.                                                          *)

Calls == Tests[test]
Call == Calls[made + 1]

TestInit ==
    /\ Init
    /\ test \in DOMAIN Tests
    /\ made = 0
    /\ result = TRUE
    /\ handle = [c \in {"cache", "any", "first", "second", "x", "empty"} |-> 0]

Calling(op) == pc[Task] = "idle" /\ made < Len(Calls) /\ Call.op = op
Returns(value) == result' = value /\ made' = made + 1 /\ UNCHANGED test

Texts(entries) == [i \in DOMAIN entries |-> entries[i].resp.id[2]]

(* The calls that change nothing.                                           *)
Query ==
    /\ \/ /\ Calling("match")
          /\ Returns(Texts(MatchAll(lists[handle[Call.on]], <<Call.key>>, 1, Call.options)))
       \/ /\ Calling("matchAll")
          /\ Returns(Texts(MatchAll(lists[handle[Call.on]], Call.key,
                                    Len(lists[handle[Call.on]]), Call.options)))
       \/ /\ Calling("found")
          /\ Returns(MatchAll(lists[handle[Call.on]], <<Call.key>>, 1, NoOptions) # <<>>)
       \/ /\ Calling("keys")
          /\ Returns(CacheKeys(lists[handle[Call.on]], Call.key, Call.options))
       \/ /\ Calling("caches.match")
          /\ Returns(Texts(StorageMatch(Call.key, Call.name, Call.options)))
       \/ /\ Calling("has")
          /\ Returns(\E c \in Range(caches) : c.name = Call.name)
       \/ /\ Calling("caches.keys")
          /\ Returns([i \in DOMAIN caches |-> caches[i].name])
       \/ /\ Calling("bodyUsed")
          /\ Returns(Call.resp \in used)
    /\ UNCHANGED <<vars, handle>>

Text ==
    /\ Calling("text")
    /\ ConsumeBody(Call.resp)
    /\ Returns(TRUE) /\ UNCHANGED handle

(* caches.open: a Cache object on the list of that name.                    *)
OpenCache ==
    /\ Calling("open")
    /\ \/ Open(Call.name)
       \/ (\E c \in Range(caches) : c.name = Call.name) /\ UNCHANGED vars
    /\ \E c \in Range(caches') :
          c.name = Call.name /\ handle' = [handle EXCEPT ![Call.on] = c.list]
    /\ Returns(TRUE)

DropCache ==
    /\ Calling("caches.delete")
    /\ \/ DeleteCache(Call.name) /\ Returns(TRUE)
       \/ /\ \A c \in Range(caches) : c.name # Call.name
          /\ Returns(FALSE) /\ UNCHANGED vars
    /\ UNCHANGED handle

DeleteEntries ==
    /\ Calling("delete")
    /\ LET l == handle[Call.on]
       IN  \/ Delete(l, Call.key, Call.options) /\ Returns(TRUE)
           \/ /\ DeleteImpl(lists[l], Call.key, Call.options) = lists[l]
              /\ Returns(FALSE) /\ UNCHANGED vars
    /\ UNCHANGED handle

(* put, add and addAll are futures; the test awaits them.                   *)
Start ==
    /\ \/ Calling("put") /\ Put(Task, handle[Call.on], Call.key, Call.resp)
       \/ Calling("addAll") /\ AddAll(Task, handle[Call.on], Call.batch)
    /\ UNCHANGED clientVars

Settled ==
    /\ pc[Task] \in {"resolved", "rejected"}
    /\ pc' = [pc EXCEPT ![Task] = "idle"]
    /\ Returns(pc[Task])
    /\ UNCHANGED <<caches, lists, used, this, todo, toCommit, handle>>

(* The backend answers every request, bodies arrive whole, and only URLs    *)
(* with a scheme that fetch does not know fail.                             *)
Reachable(q) == q.scheme \in {"http", "https"}

Run ==
    /\ \/ PutRefused(Task) \/ PutBegin(Task) \/ PutCommit(Task)
       \/ AddAllRefused(Task) \/ AddAllBegin(Task)
       \/ /\ AddAllFetched(Task)
          /\ LET e == Last(toCommit'[Task])
             IN  Reachable(e.req) /\ \A f \in {"status", "type", "vary"} :
                                         e.resp[f] = Answer(e.req)[f]
       \/ /\ AddAllFailed(Task)
          /\ LET q == Head(todo[Task])
             IN  Duplicate(Task) \/ ~Reachable(q) \/ ~Storable(Answer(q))
    /\ UNCHANGED clientVars

(* handleRequest goes on to the next test.                                  *)
Finished == made = Len(Calls) /\ UNCHANGED testVars

TestNext ==
    \/ Query \/ Text \/ OpenCache \/ DropCache \/ DeleteEntries \/ Start
    \/ Run \/ Settled \/ Finished

TestSpec == TestInit /\ [][TestNext]_testVars

-----------------------------------------------------------------------------
(* Properties.                                                              *)

(* The assertions of the tests hold: every call returns what its test says, *)
(* over whatever the calls before it left behind.                           *)
AssertionsHold == made > 0 => result = Calls[made].expect
=============================================================================

---------------------------- MODULE MCCacheTests ----------------------------
(* The tests as an instance of CacheTests: what their calls name.           *)
EXTENDS CacheTests

TestCalls == UNION {Range(Tests[i]) : i \in DOMAIN Tests}

TestResponses == {c.resp : c \in {d \in TestCalls : d.op = "put"}}
TestNames == {c.name : c \in {d \in TestCalls : d.op = "open"}} \cup {Default}
TestBatches == {c.batch : c \in {d \in TestCalls : d.op = "addAll"}}
TestInfos == {c.key : c \in {d \in TestCalls : d.op = "put"}}
             \cup UNION {Range(b) : b \in TestBatches}
TestAnswers == {Answer(q) : q \in UNION {Range(b) : b \in TestBatches}}
=============================================================================

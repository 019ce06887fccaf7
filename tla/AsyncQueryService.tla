-------------------------- MODULE AsyncQueryService --------------------------
(***************************************************************************)
(* What the asynchronous query pool promises its callers, with no threads,  *)
(* queues or pipes (the contract in jmxd/src/dw_async_query.h): a ubus      *)
(* request handed to dw_async_query_submit is either refused on the spot or *)
(* deferred; a deferred request is settled exactly once, by a reply on the  *)
(* connection it arrived on, or silently when that connection has been lost.*)
(***************************************************************************)
EXTENDS Naturals

CONSTANTS Requests      \* ubus requests that can be handed to the pool

VARIABLES status,       \* what has become of each request
          reqGen,       \* generation of the connection a request arrived on
          connGen       \* generation of the current ubus connection

vars == <<status, reqGen, connGen>>

\* enum dw_async_submit_result, without DW_ASYNC_SUBMIT_OK
Rejections == {"unavailable", "saturated", "oom", "invalid"}
Statuses   == {"idle", "deferred", "replied", "dropped"} \cup Rejections

Init == /\ status = [r \in Requests |-> "idle"]
        /\ reqGen = [r \in Requests |-> 0]
        /\ connGen = 0

Refuse(r, why) == /\ status[r] = "idle"
                  /\ status' = [status EXCEPT ![r] = why]
                  /\ UNCHANGED <<reqGen, connGen>>

Defer(r) == /\ status[r] = "idle"
            /\ status' = [status EXCEPT ![r] = "deferred"]
            /\ reqGen' = [reqGen EXCEPT ![r] = connGen]
            /\ UNCHANGED connGen

Settle(r) == /\ status[r] = "deferred"
             /\ status' = [status EXCEPT ![r] =
                             IF reqGen[r] = connGen THEN "replied" ELSE "dropped"]
             /\ UNCHANGED <<reqGen, connGen>>

LoseConnection == /\ connGen' = connGen + 1
                  /\ UNCHANGED <<status, reqGen>>

Next == \/ \E r \in Requests : \/ \E why \in Rejections : Refuse(r, why)
                               \/ Defer(r)
                               \/ Settle(r)
        \/ LoseConnection

\* A deferred request is not left to its caller's timeout.
Fairness == \A r \in Requests : WF_vars(Settle(r))

Spec == Init /\ [][Next]_vars /\ Fairness
=============================================================================

------------------------------- MODULE MCFetch ------------------------------
(* Instances of FetchProcess for TLC. *)
EXTENDS FetchProcess, TLC

CONSTANTS p1, p2, limited, free

NoRegion == [p \in Procs |-> ""]

\* p2 also reads the queue of its region, which is empty: that consumer only waits.
OneRegion == p1 :> "" @@ p2 :> "crawl_east"

Fetching == p1 :> "http" @@ p2 :> "selenium"

AllInDefaultQueue == [m \in Msgs |-> "crawl"]

\* The job of message 3 has no rate limit; the others ask the same host.
SharedBuckets == [p \in Procs |-> [m \in Msgs |-> IF m = 3 THEN free ELSE limited]]

\* Two requests in three ticks, which are seconds here: one is the capacity.
Rates == limited :> 2 @@ free :> 0

\* One request in every tick.
FastRates == limited :> 1 @@ free :> 0

RobotsHistory == <<"allow", "down", "deny">>

OneVersion == <<"allow">>
=============================================================================

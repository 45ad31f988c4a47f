------------------------------ MODULE Services ------------------------------
(***************************************************************************)
(* What the requests of the API share with each other: the pool registry,  *)
(* the counters of the rate limiter, the connection to ElectrumX, the HTTP *)
(* client of the node and the kept supply.  None of these reads what       *)
(* another one writes.                                                     *)
(***************************************************************************)
EXTENDS PoolRegistry, RateLimit, ElectrumClient, RpcClient, SupplyCache

\* Bound: a behaviour has one of them.
VARIABLE part

vars == <<registry, limiter, electrum, rpcClient, supplies, part>>

Others(p) ==
  /\ part = p /\ part' = p
  /\ p # "registry" => UNCHANGED registry
  /\ p # "limiter"  => UNCHANGED limiter
  /\ p # "electrum" => UNCHANGED electrum
  /\ p # "rpc"      => UNCHANGED rpcClient
  /\ p # "supply"   => UNCHANGED supplies

Init ==
  /\ part \in {"registry", "limiter", "electrum", "rpc", "supply"}
  /\ RegistryInit /\ LimiterInit /\ ElectrumInit /\ RpcInit /\ SupplyInit

Next ==
  \/ Others("registry") /\ RegistryNext
  \/ Others("limiter") /\ LimiterNext
  \/ Others("electrum") /\ ElectrumNext
  \/ Others("rpc") /\ RpcNext
  \/ Others("supply") /\ SupplyNext

\* The operations of the store end, well or not, and calls to ElectrumX and the
\* node have a timeout.
Spec ==
  /\ Init /\ [][Next]_vars
  /\ WF_vars(Others("registry") /\ RegistryStep)
  /\ WF_vars(Others("limiter") /\ LimiterStep)
  /\ WF_vars(Others("electrum") /\ \E k \in Call : CallStep(k))
  /\ WF_vars(Others("rpc") /\ \E k \in Caller : RpcStep(k))
  /\ WF_vars(Others("supply") /\ \E q \in Asking : SupplyStep(q))
-----------------------------------------------------------------------------
TypeOK ==
  /\ Len(pools) <= MaxPools
  /\ \A i \in DOMAIN pools : /\ pools[i].address \in Address \cup {NoAddress}
                             /\ pools[i].status \in PoolStatus
                             /\ pools[i].by \in Applicant \cup {"admin"}
  /\ \A r \in Applicant \cup Admin : request[r].code \in {0, 200, 404, 409, 500}
  /\ \A m \in Minutes : counter[m].count <= Cardinality(Visit)
  /\ closed \in BOOLEAN /\ reader = writer /\ writer \in 0..Len(conns)
  /\ lock = 0 \/ calls[lock].pc \in {"opening", "shaking"}
  /\ pending \subseteq 1..reqId
  /\ http \in 0..made /\ shut \subseteq 1..made
  /\ scanning = Nobody \/ asking[scanning].pc \in {"scan", "fallback"}
  /\ supply.computedAt <= supply.made /\ supply.made <= time

(* Whoever shares a connection is given the answer to what he asked.          *)
AnswersMatch == AnswersAreTheirOwn /\ ResultsInOrder

AllAnswered ==
  /\ \A r \in Applicant \cup Admin : ~Working(r)
  /\ \A v \in Visit : ~Visiting(v)
  /\ \A k \in Call : ~Calling(k)
  /\ \A k \in Caller : rpc[k].pc # "posted"
  /\ \A q \in Asking : ~Asked(q)

(* No request waits for ever: for the lock of the ElectrumX connection or of  *)
(* the supply, for a connection that another one has replaced, or for an      *)
(* answer that was lost, although some of them are cancelled in the middle.   *)
(* (Requests are bounded, so all are answered when it holds for good.)        *)
RequestsEnd == []<>AllAnswered
=============================================================================

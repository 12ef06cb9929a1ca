---------------------------- MODULE QueueRouting ---------------------------
(***************************************************************************)
(* SelectCrawlQueue: the crawl queue for a new task, from the queues of    *)
(* the deployment and the weights of the job.  The choice is random, so    *)
(* the operator gives the set of its possible results.                     *)
(***************************************************************************)
EXTENDS Naturals, Sequences, FiniteSets, SequencesExt

CONSTANT WeightModulus  \* weights and their sum are uint32: 2^32 in the code

ASSUME RoutingAssumption == WeightModulus \in Nat \ {0}

\* What rand.Intn does for a sum of weights that wraps around to 0.
Panic == "panic"

QueueWeight == [queue : STRING, weight : 0 .. WeightModulus - 1]

\* The entries that are not explicitly excluded.
Candidates(weights) == {i \in DOMAIN weights : weights[i].weight # 0}

\* The sum of the first n weights; those that are 0 add nothing.
WeightUpTo(weights, n) == FoldSeq(LAMBDA w, sum : sum + w.weight, 0, SubSeq(weights, 1, n))

\* totalWeight, which may wrap around.
TotalWeight(weights) == WeightUpTo(weights, Len(weights)) % WeightModulus

\* The loop over the candidates: the first one whose weights up to and
\* including its own exceed r, and the last one if none does.
Landing(weights, r) ==
  LET hits == {i \in Candidates(weights) : r < WeightUpTo(weights, i)}
  IN  IF hits # {} THEN CHOOSE i \in hits : \A k \in hits : i <= k
      ELSE CHOOSE i \in Candidates(weights) : \A k \in Candidates(weights) : k <= i

SelectCrawlQueue(available, weights) ==
  LET cands == Candidates(weights)
      total == TotalWeight(weights)
  IN  CASE cands = {} -> IF available = <<>> THEN {""} ELSE {available[i] : i \in DOMAIN available}
        [] Cardinality(cands) = 1 -> {weights[i].queue : i \in cands}
        [] OTHER -> IF total = 0 THEN {Panic}
                    ELSE {weights[Landing(weights, r)].queue : r \in 0 .. total - 1}
=============================================================================

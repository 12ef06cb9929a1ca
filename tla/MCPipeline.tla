----------------------------- MODULE MCPipeline -----------------------------
(* Instances of CrawlPipeline for TLC. *)
EXTENDS CrawlPipeline, TLC

CONSTANTS s1, c1, c2, d1, n1, x1

\* The seed s1 links to c1, to itself and to the denied x1; c1 links back and
\* on to c2.  The depth limit of the runs decides whether c2 is reached.
MCLinks ==
  [t \in Tasks |->
     Tasks \cap CASE t = s1 -> {s1, c1, x1}
                  [] t = c1 -> {s1, c2}
                  [] OTHER -> {}]

Symmetry == Permutations(Fetchers) \cup Permutations(Parsers)
=============================================================================

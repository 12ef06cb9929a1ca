------------------------------- MODULE JobLife ------------------------------
(***************************************************************************)
(* What the crawler promises to the owner of a job, seen through the job   *)
(* page, the list of its URLs and the two reports: from the submitted      *)
(* URLs on, a page that was read adds all its links at once, each a step   *)
(* deeper; what has been found stays found, at the depth at which it was   *)
(* found, until the owner deletes the job, and nothing comes back then.    *)
(* An export meets a list that does not grow and a job that is not         *)
(* deleted under it; it names only what was found, and when it counts as   *)
(* done both reports say the same.                                         *)
(***************************************************************************)
EXTENDS Naturals

CONSTANTS
  Urls,      \* the URLs of the job
  Start,     \* those that are submitted
  LinksOf,   \* the links of a page
  Refused,   \* URLs that are not to be crawled
  Limit      \* how deep links are followed

VARIABLES
  state,      \* of the job: "none", "active" or "deleted"
  found,      \* the URLs that the job lists
  depth,      \* how deep they were found
  exporting,  \* an export is under way
  exported,   \* an export has been completed
  json, csv   \* the URLs with a result in either report

lifeVars == <<state, found, depth, exporting, exported, json, csv>>

LifeInit ==
  /\ state = "none"
  /\ found = {}
  /\ depth = [u \in Urls |-> 0]
  /\ exporting = FALSE
  /\ exported = FALSE
  /\ json = {}
  /\ csv = {}

Submit ==
  /\ state = "none"
  /\ state' = "active"
  /\ found' = Start
  /\ depth' = [u \in Urls |-> IF u \in Start THEN 0 ELSE depth[u]]
  /\ UNCHANGED <<exporting, exported, json, csv>>

\* The links of a page that are to be followed and not yet found.
Fresh(u) == {c \in LinksOf[u] \ (found \cup Refused) : depth[u] < Limit}

\* All of them, or none.
Expand(u) ==
  /\ state = "active"
  /\ ~exporting
  /\ u \in found
  /\ Fresh(u) # {}
  /\ found' = found \cup Fresh(u)
  /\ depth' = [c \in Urls |-> IF c \in Fresh(u) THEN depth[u] + 1 ELSE depth[c]]
  /\ UNCHANGED <<state, exporting, exported, json, csv>>

BeginExport ==
  /\ state = "active"
  /\ ~exporting
  /\ exporting' = TRUE
  /\ UNCHANGED <<state, found, depth, exported, json, csv>>

\* The first report is replaced.
WriteJSON(listed) ==
  /\ exporting
  /\ listed \subseteq found
  /\ json' = listed
  /\ UNCHANGED <<state, found, depth, exporting, exported, csv>>

\* The second one is, and the job counts as exported.
FinishExport ==
  /\ exporting
  /\ csv' = json
  /\ exported' = TRUE
  /\ exporting' = FALSE
  /\ UNCHANGED <<state, found, depth, json>>

\* An export fails or is lost; what it has written stays.
GiveUpExport ==
  /\ exporting
  /\ exporting' = FALSE
  /\ UNCHANGED <<state, found, depth, exported, json, csv>>

\* The reports stay in the store.
Delete ==
  /\ state = "active"
  /\ ~exporting
  /\ state' = "deleted"
  /\ found' = {}
  /\ depth' = [u \in Urls |-> 0]
  /\ UNCHANGED <<exporting, exported, json, csv>>

LifeNext ==
  \/ Submit
  \/ \E u \in Urls : Expand(u)
  \/ BeginExport
  \/ \E listed \in SUBSET Urls : WriteJSON(listed)
  \/ FinishExport
  \/ GiveUpExport
  \/ Delete

LifeSpec == LifeInit /\ [][LifeNext]_lifeVars
=============================================================================

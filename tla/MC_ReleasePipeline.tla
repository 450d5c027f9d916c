------------------------ MODULE MC_ReleasePipeline ------------------------
(***************************************************************************)
(* Instances of ReleasePipeline.  r1 and r2 are two executions for one git *)
(* ref (say, a push and a re-run of it): one concurrency group, one tag.   *)
(* r3 is an execution for another ref.                                     *)
(***************************************************************************)
EXTENDS ReleasePipeline

CONSTANTS r1, r2, r3, tagA, tagB, main, branch

MCGroupOf == [r \in Runs |-> IF r = r3 THEN branch ELSE main]

OneRef == [r \in Runs |-> main]

\* Any lookup of one run may stay unanswered, and one of each other run.
MCSilent ==
  [r \in Runs |-> CASE r = r1 -> Prerequisites
                    [] r = r2 -> {"pkg"}
                    [] r = r3 -> {"sysext"}]

\* Every tag belongs to one ref.
TagPerRef == [r \in Runs |-> IF r = r3 THEN tagB ELSE tagA]

\* Two refs publish under one tag: they point at the same commit, or both were
\* dispatched with the same image_tag.
SharedTag == [r \in Runs |-> tagA]

=============================================================================

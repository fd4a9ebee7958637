------------------------------ MODULE MCWebApp ------------------------------
(* TLC instance of WebApp. *)
EXTENDS WebApp

\* One provider, which is always there, and two policies, the second of which
\* administrators delete and restore.
TwoPolicies == [k \in Kinds |-> IF k = "policy" THEN {1, 2} ELSE {1}]
SecondPolicy == [k \in Kinds |-> IF k = "policy" THEN {2} ELSE {}]

\* The filters of the approvals page let through all rows or the second.
AllOrSecond == {{1, 2}, {2}}

\* Each piece of evidence supports one finding, the other one, or none.
SupportsFindings == {<<1, 2>>, <<2, 1>>, <<2, Nothing>>}

\* The candidates tab with every status.
Candidates == {[tab |-> "Candidate", open |-> TRUE]}

\* The best memory is of the workspace, the other of a project.
WorkspaceThenProject == [m \in {1, 2} |-> IF m = 1 THEN "Workspace" ELSE "Project"]

\* Both reports, and both tool calls, belong to the first session.
InFirst == [r \in {1, 2} |-> 1]
=============================================================================

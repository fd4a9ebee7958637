---------------------------- MODULE MCQueryCache ----------------------------
(* TLC instance of QueryCache: the queue of approvals, which polls, and      *)
(* the findings of the evidence page, which do not; both are invalidated.    *)
EXTENDS QueryCache

ResourceOfKey ==
    [k \in Keys |-> IF k = "findings" THEN "findings" ELSE "approvals"]
ResourceWritten == [m \in Mutations |-> IF m = "save" THEN "findings" ELSE "approvals"]
KeysInvalidated == [m \in Mutations |-> IF m = "save" THEN {"findings"} ELSE {"queue"}]
=============================================================================

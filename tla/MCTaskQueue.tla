----------------------------- MODULE MCTaskQueue -----------------------------
(***************************************************************************)
(* The smallest instance of the approvals screen: one pool, two people.    *)
(***************************************************************************)
EXTENDS TaskQueue

MCSubmitter == [c \in Case |-> CHOOSE u \in User : TRUE]
=============================================================================

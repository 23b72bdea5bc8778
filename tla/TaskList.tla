------------------------------ MODULE TaskList ------------------------------
(***************************************************************************)
(* What the tasks tool promises (tools/tasks.py): one list on which every  *)
(* request takes effect at once, and a request to add that is made twice   *)
(* under one call id adds one task.                                        *)
(***************************************************************************)
CONSTANTS Calls, Ids

VARIABLE list

Item(i, c) == [id |-> i, by |-> c, done |-> FALSE, edited |-> FALSE]

Init == list = {}

Add(i, c) ==
  /\ \A t \in list : t.id # i /\ t.by # c
  /\ list' = list \cup {Item(i, c)}

Complete(t) == list' = (list \ {t}) \cup {[t EXCEPT !.done = TRUE]}
Update(t)   == list' = (list \ {t}) \cup {[t EXCEPT !.edited = TRUE]}
Delete(t)   == list' = list \ {t}

Next ==
  \/ \E i \in Ids, c \in Calls : Add(i, c)
  \/ \E t \in list : Complete(t) \/ Update(t) \/ Delete(t)

Spec == Init /\ [][Next]_list
=============================================================================

--------------------------- MODULE MCTaskExecutor ---------------------------
EXTENDS TaskExecutor

\* Plans of up to three subtasks with any dependencies, circles, dependencies
\* on nothing and repeated ids included, and a diamond.
IdLists == {<<1>>, <<1, 2>>, <<1, 2, 3>>, <<1, 1>>, <<1, 1, 2>>}
Diamond == <<[id |-> 1, deps |-> {}], [id |-> 2, deps |-> {1}],
             [id |-> 3, deps |-> {1}], [id |-> 4, deps |-> {2, 3}]>>
OneSubtask == <<[id |-> 1, deps |-> {}]>>
MCAnswers ==
  UNION {{[n \in DOMAIN list |-> [id |-> list[n], deps |-> deps[n]]] :
            deps \in [DOMAIN list -> SUBSET (1..3)]} : list \in IdLists}
  \cup {Diamond}
=============================================================================

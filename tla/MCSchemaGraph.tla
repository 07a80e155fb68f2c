---------------------------- MODULE MCSchemaGraph ----------------------------
(* Two tables with a column each, one of which refers to the other.       *)
(* Besides the deep analysis there is another build and a registration, or *)
(* a question.                                                             *)
EXTENDS SchemaGraph
CONSTANTS c1, c2, m1
VARIABLE scene

MCRelationOf(c) == IF c = c1 THEN "T" ELSE "U"
MCForeignKeys == {<<c1, c2>>}
MCSources(name) == IF name = m1 THEN {c1} ELSE {m1}

MCCatalogs == {{c1, c2}, {c1}}

MCInit == GraphInit /\ scene \in {"registration", "question"}

MCNext ==
  /\ \/ DeepNext \/ \E i \in Instances : AlterCatalog(i)
     \/ scene = "registration" /\ (BuilderNext \/ RegisterStep)
     \/ scene = "question" /\ RetrieveStep
  /\ UNCHANGED scene

\* Beat starts the deep analysis again and again, and a build that has
\* begun goes on until it commits or fails.
MCSpec ==
  /\ MCInit /\ [][MCNext]_<<graphVars, scene>>
  /\ WF_graphVars(DeepVisit)
  /\ \A b \in Sessions : WF_graphVars(BuildStep(b))
=============================================================================

----------------------------- MODULE SchemaGraph -----------------------------
(***************************************************************************)
(* The knowledge graph of the targets' schemas (services/graph_rag.py): a  *)
(* build deletes the nodes of an instance and inserts them again from      *)
(* three reads of the catalog; users register metrics and concepts; a      *)
(* question reads nodes, edges and neighbours in three statements.         *)
(*                                                                         *)
(* A build runs in a session: one per request of the API or detected DDL   *)
(* change, rolled back when it fails, and one for all instances of the     *)
(* deep analysis that Beat starts every six hours, which nobody rolls      *)
(* back.  The system database runs READ COMMITTED: a DELETE sees what was  *)
(* committed when it began, and waits for the locks of another one.        *)
(***************************************************************************)
EXTENDS FiniteSets, Naturals

CONSTANTS
  Instances,        \* the monitored instances
  NoInstance,
  Columns,          \* the columns their schemas may have
  Catalogs,         \* the schemas: sets of columns
  RelationOf(_),    \* the table or view of a column
  BaseTables,       \* the relations that are tables
  ForeignKeys,      \* pairs of columns
  Metrics,          \* names of metrics and concepts that users register
  Sources(_),       \* the columns a metric names, the metrics a concept names
  Builders,         \* sessions of requests and of the schema task
  Deep,             \* the session of the deep analysis
  Requests,         \* registrations
  Copies,           \* bound: identifiers for nodes of one name
  TopK,             \* nodes a retrieval starts from
  MaxAlters,        \* bound: changes of the schema
  MaxFailures       \* bound: failures

VARIABLES
  catalog,   \* Instances -> the columns of its schema
  nodes,     \* the committed rows of graph_nodes
  edges,     \* the committed rows of graph_edges
  tx,        \* Sessions -> the build it runs and what it has not committed
  queue,     \* the instances the deep analysis has still to visit
  reg,       \* Requests -> the registration it has not committed
  reader,    \* the retrieval for one question
  alters, failures

ASSUME GraphAssumption == Catalogs \subseteq SUBSET Columns /\ Copies \in Nat

graphVars == <<catalog, nodes, edges, tx, queue, reg, reader, alters, failures>>

Sessions == Builders \cup {Deep}

Node(i, kind, name, id) == [inst |-> i, kind |-> kind, name |-> name, id |-> id]
Edge(type, source, target) == [type |-> type, source |-> source, target |-> target]

NodesOf(i) == {n \in nodes : n.inst = i}

\* seen: the rows committed when its DELETE began and not gone since;
\* doomed: those it has deleted; done: instances whose catalog it has read to
\* the end.
NoBuild == [step |-> "new", inst |-> NoInstance, seen |-> {}, doomed |-> {},
            fresh |-> {}, links |-> {}, done |-> {}]
Ended == [NoBuild EXCEPT !.step = "idle"]
Requested == [step |-> "new", node |-> {}, targets |-> {}]
NoQuestion == [step |-> "idle", seeds |-> {}, links |-> {}, relations |-> {}, whole |-> TRUE]

GraphInit ==
  /\ catalog \in [Instances -> Catalogs]
  /\ nodes = {} /\ edges = {}
  /\ tx = [b \in Sessions |-> IF b = Deep THEN Ended ELSE NoBuild]
  /\ queue = {}
  /\ reg = [r \in Requests |-> Requested]
  /\ reader = NoQuestion
  /\ alters = 0 /\ failures = 0

AlterCatalog(i) ==
  /\ alters < MaxAlters
  /\ alters' = alters + 1
  /\ catalog' \in [Instances -> Catalogs]
  /\ \A j \in Instances : (catalog'[j] # catalog[j]) <=> (j = i)
  /\ UNCHANGED <<nodes, edges, tx, queue, reg, reader, failures>>

-----------------------------------------------------------------------------
(* build_graph                                                             *)

\* Every row that some actor still knows; uuid4 never gives its identifier
\* again.
Known == nodes \cup (UNION {tx[b].seen \cup tx[b].fresh : b \in Sessions})
               \cup (UNION {reg[r].node \cup reg[r].targets : r \in Requests})
               \cup reader.seeds
               \cup (UNION {{e.source, e.target} : e \in reader.links})

FreeIds(i, kind) ==
  {id \in 1..Copies : \A n \in Known : n.inst = i /\ n.kind = kind => n.id # id}

NewId(i, kind) == CHOOSE id \in FreeIds(i, kind) : \A k \in FreeIds(i, kind) : id <= k

\* The DELETE begins, and sees the rows committed by now.
BeginClear(b, i) ==
  /\ tx' = [tx EXCEPT ![b].step = "clearing", ![b].inst = i, ![b].seen = @ \cup NodesOf(i)]

\* A DELETE that forgets the nodes of tables.
MutDoomed(rows) == {n \in nodes \cap rows : n.kind # "table"}

Doomed(rows) == nodes \cap rows

Clear(b) ==
  /\ tx[b].step = "clearing"
  /\ \A c \in Sessions \ {b} : tx[c].doomed \cap tx[b].seen = {}
  /\ tx' = [tx EXCEPT ![b].step = "cleared", ![b].doomed = @ \cup Doomed(tx[b].seen)]
  /\ UNCHANGED <<catalog, nodes, edges, queue, reg, reader, alters, failures>>

Pending(b, kind) == {n \in tx[b].fresh : n.inst = tx[b].inst /\ n.kind = kind}

ReadTables(b) ==
  /\ tx[b].step = "cleared"
  /\ FreeIds(tx[b].inst, "table") # {}
  /\ tx' = [tx EXCEPT ![b].step = "tables", ![b].fresh = @ \cup
              {Node(tx[b].inst, "table", t, NewId(tx[b].inst, "table")) :
                 t \in BaseTables \cap {RelationOf(c) : c \in catalog[tx[b].inst]}}]
  /\ UNCHANGED <<catalog, nodes, edges, queue, reg, reader, alters, failures>>

\* The columns of views are read as well; they get no HAS_COLUMN edge.
ReadColumns(b) ==
  /\ tx[b].step = "tables"
  /\ FreeIds(tx[b].inst, "column") # {}
  /\ LET read == {Node(tx[b].inst, "column", c, NewId(tx[b].inst, "column")) :
                   c \in catalog[tx[b].inst]}
     IN  tx' = [tx EXCEPT ![b].step = "columns", ![b].fresh = @ \cup read,
           ![b].links = @ \cup {Edge("has_column", p[1], p[2]) :
              p \in {q \in Pending(b, "table") \X read : q[1].name = RelationOf(q[2].name)}}]
  /\ UNCHANGED <<catalog, nodes, edges, queue, reg, reader, alters, failures>>

ReadForeignKeys(b) ==
  /\ tx[b].step = "columns"
  /\ LET there(p) == \A k \in {1, 2} : p[k].name \in catalog[tx[b].inst]
     IN  tx' = [tx EXCEPT ![b].step = "built", ![b].done = @ \cup {tx[b].inst},
           ![b].links = @ \cup {Edge("foreign_key", p[1], p[2]) :
              p \in {q \in Pending(b, "column") \X Pending(b, "column") :
                       there(q) /\ <<q[1].name, q[2].name>> \in ForeignKeys}}]
  /\ UNCHANGED <<catalog, nodes, edges, queue, reg, reader, alters, failures>>

\* A session that closes without a commit.
MutStore(remaining, all) == UNCHANGED <<nodes, edges>>

\* Edges without ON DELETE CASCADE.
MutCascade(remaining, all) == nodes' = remaining /\ edges' = all

\* Deleting a node deletes its edges.
Store(remaining, all) ==
  /\ nodes' = remaining
  /\ edges' = {e \in all : {e.source, e.target} \subseteq remaining}

CommitBuild(b) ==
  /\ tx[b].step = "built"
  /\ Store((nodes \ tx[b].doomed) \cup tx[b].fresh, edges \cup tx[b].links)
  /\ tx' = [c \in Sessions |-> IF c = b THEN Ended ELSE [tx[c] EXCEPT !.seen = @ \cap nodes']]
  /\ UNCHANGED <<catalog, queue, reg, reader, alters, failures>>

-----------------------------------------------------------------------------
(* Who builds                                                              *)

\* A request of the API, a new instance, or a DDL change the schema task has
\* detected.
StartBuild(b, i) ==
  /\ b \in Builders /\ tx[b].step = "new"
  /\ BeginClear(b, i)
  /\ UNCHANGED <<catalog, nodes, edges, queue, reg, reader, alters, failures>>

FailBuild(b) ==
  /\ b \in Builders /\ tx[b].step \notin {"new", "idle"}
  /\ failures < MaxFailures
  /\ failures' = failures + 1
  /\ tx' = [tx EXCEPT ![b] = Ended]
  /\ UNCHANGED <<catalog, nodes, edges, queue, reg, reader, alters>>

\* Beat starts the deep analysis: it lists the active instances.
StartDeep ==
  /\ queue = {} /\ tx[Deep] = Ended
  /\ queue' = Instances
  /\ UNCHANGED <<catalog, nodes, edges, tx, reg, reader, alters, failures>>

DeepBuild(i) ==
  /\ i \in queue /\ tx[Deep].step = "idle"
  /\ BeginClear(Deep, i)
  /\ queue' = queue \ {i}
  /\ UNCHANGED <<catalog, nodes, edges, reg, reader, alters, failures>>

\* No connection to the target: the instance is passed over.
DeepUnreachable(i) ==
  /\ i \in queue /\ tx[Deep].step = "idle"
  /\ failures < MaxFailures
  /\ failures' = failures + 1
  /\ queue' = queue \ {i}
  /\ UNCHANGED <<catalog, nodes, edges, tx, reg, reader, alters>>

\* A read of the target's catalog fails: deep_analysis notes the error and
\* leaves the session as it is, for the next instance.
DeepTargetFails ==
  /\ tx[Deep].step \in {"cleared", "tables", "columns"}
  /\ failures < MaxFailures
  /\ failures' = failures + 1
  /\ tx' = [tx EXCEPT ![Deep].step = "idle"]
  /\ UNCHANGED <<catalog, nodes, edges, queue, reg, reader, alters>>

\* The system database fails a statement: its transaction is aborted, and so
\* are the builds of the other instances.
DeepSessionFails ==
  /\ tx[Deep].step # "idle"
  /\ failures < MaxFailures
  /\ failures' = failures + 1
  /\ tx' = [tx EXCEPT ![Deep] = Ended]
  /\ queue' = {}
  /\ UNCHANGED <<catalog, nodes, edges, reg, reader, alters>>

\* Every instance has been visited: the session closes, and what it has not
\* committed is gone.
EndDeep ==
  /\ queue = {} /\ tx[Deep].step = "idle" /\ tx[Deep] # Ended
  /\ tx' = [tx EXCEPT ![Deep] = Ended]
  /\ UNCHANGED <<catalog, nodes, edges, queue, reg, reader, alters, failures>>

-----------------------------------------------------------------------------
(* add_business_metric, add_business_concept                               *)

Target(kind) == IF kind = "metric" THEN "column" ELSE "metric"

Matches(i, kind, name) == {n \in NodesOf(i) : n.kind = Target(kind) /\ n.name = name}

\* The node is inserted and each named target looked up; one that is not
\* there is left out, two of one name make scalar_one_or_none raise.
Register(r, i, kind, name) ==
  /\ reg[r].step = "new"
  /\ \A s \in Sources(name) : Cardinality(Matches(i, kind, s)) <= 1
  /\ FreeIds(i, kind) # {}
  /\ reg' = [reg EXCEPT ![r] =
               [step |-> "linking", node |-> {Node(i, kind, name, NewId(i, kind))},
                targets |-> UNION {Matches(i, kind, s) : s \in Sources(name)}]]
  /\ UNCHANGED <<catalog, nodes, edges, tx, queue, reader, alters, failures>>

\* The foreign key of an edge waits for a build that has deleted its target;
\* a target that is gone by then fails the request.
FinishRegister(r) ==
  /\ reg[r].step = "linking"
  /\ \A b \in Sessions : tx[b].doomed \cap reg[r].targets = {}
  /\ IF reg[r].targets \subseteq nodes
     THEN Store(nodes \cup reg[r].node,
                edges \cup {Edge("source", n, t) : n \in reg[r].node, t \in reg[r].targets})
     ELSE UNCHANGED <<nodes, edges>>
  /\ reg' = [reg EXCEPT ![r] = [Requested EXCEPT !.step = "done"]]
  /\ UNCHANGED <<catalog, tx, queue, reader, alters, failures>>

-----------------------------------------------------------------------------
(* GraphRAGRetriever.retrieve                                              *)

\* The nodes of the instance that are nearest to the question.
ReadSeeds(i) ==
  /\ reader.step = "idle"
  /\ NodesOf(i) # {}
  /\ \E s \in SUBSET NodesOf(i) :
       /\ Cardinality(s) = IF Cardinality(NodesOf(i)) < TopK THEN Cardinality(NodesOf(i)) ELSE TopK
       /\ reader' = [NoQuestion EXCEPT !.step = "seeds", !.seeds = s]
  /\ UNCHANGED <<catalog, nodes, edges, tx, queue, reg, alters, failures>>

\* A statement that fails reads nothing, and the retrieval goes on without.
ReadFails(ok) ==
  IF ok THEN UNCHANGED failures ELSE failures < MaxFailures /\ failures' = failures + 1

ReadEdges(ok) ==
  /\ reader.step = "seeds"
  /\ ReadFails(ok)
  /\ reader' = [reader EXCEPT !.step = "edges",
       !.links = {e \in edges : ok /\ {e.source, e.target} \cap reader.seeds # {}}]
  /\ UNCHANGED <<catalog, nodes, edges, tx, queue, reg, alters>>

\* Only the nodes the edges of the seeds lead to.
MutNeighbours == {e.target : e \in reader.links} \ reader.seeds

Neighbours == (UNION {{e.source, e.target} : e \in reader.links}) \ reader.seeds

\* The relations of the context come from the seeds and from those of their
\* neighbours that still exist; its join paths are the foreign keys among the
\* edges.
Relations(found) ==
  {n.name : n \in {m \in found : m.kind = "table"}}
    \cup {RelationOf(n.name) : n \in {m \in found : m.kind = "column"}}

ReadNeighbours(ok) ==
  /\ reader.step = "edges"
  /\ ReadFails(ok)
  /\ reader' = [reader EXCEPT !.step = "context", !.whole = ok,
       !.relations = Relations(reader.seeds \cup IF ok THEN Neighbours \cap nodes ELSE {})]
  /\ UNCHANGED <<catalog, nodes, edges, tx, queue, reg, alters>>

EndQuestion ==
  /\ reader.step = "context"
  /\ reader' = NoQuestion
  /\ UNCHANGED <<catalog, nodes, edges, tx, queue, reg, alters, failures>>

-----------------------------------------------------------------------------
BuildStep(b) ==
  Clear(b) \/ ReadTables(b) \/ ReadColumns(b) \/ ReadForeignKeys(b) \/ CommitBuild(b)

DeepVisit == StartDeep \/ (\E i \in Instances : DeepBuild(i)) \/ EndDeep

RegisterStep ==
  \E r \in Requests :
    \/ \E i \in Instances, kind \in {"metric", "concept"}, name \in Metrics :
         Register(r, i, kind, name)
    \/ FinishRegister(r)

RetrieveStep ==
  \/ \E i \in Instances : ReadSeeds(i)
  \/ \E ok \in BOOLEAN : ReadEdges(ok) \/ ReadNeighbours(ok)
  \/ EndQuestion

DeepNext ==
  \/ BuildStep(Deep)
  \/ DeepVisit
  \/ \E i \in Instances : DeepUnreachable(i)
  \/ DeepTargetFails \/ DeepSessionFails

BuilderNext ==
  \E b \in Builders : BuildStep(b) \/ FailBuild(b) \/ \E i \in Instances : StartBuild(b, i)

GraphNext ==
  DeepNext \/ BuilderNext \/ RegisterStep \/ RetrieveStep \/ \E i \in Instances : AlterCatalog(i)

GraphSpec == GraphInit /\ [][GraphNext]_graphVars

-----------------------------------------------------------------------------
GraphTypeOK ==
  /\ catalog \in [Instances -> Catalogs]
  /\ \A n \in nodes : n.inst \in Instances /\ n.kind \in {"table", "column", "metric", "concept"}
  /\ \A e \in edges : {e.source, e.target} \subseteq nodes
  /\ queue \subseteq Instances
  /\ \A b \in Sessions : tx[b].step \in {"new", "idle", "clearing", "cleared", "tables", "columns", "built"}
  /\ \A r \in Requests : reg[r].step \in {"new", "linking", "done"}
  /\ reader.step \in {"idle", "seeds", "edges", "context"}

\* A build that is committed has replaced the graph: nothing that was stored
\* for the instance when its DELETE began is left, whatever other build or
\* registration was at work.  (A build that overlaps may leave its own nodes
\* besides.)
BuildReplacesEarlier ==
  [][\A b \in Sessions : CommitBuild(b) => {n \in tx[b].seen : n.inst = tx[b].inst} \cap nodes' = {}]_graphVars

\* A join path of a context leads from a relation the context describes, and
\* to one it describes too, unless the neighbours could not be read or a build
\* has deleted that end since the edges were.  Builds replace the graph between
\* the three reads, and after them; what they store is never taken for an end
\* that was read before.
JoinsFitContext ==
  reader.step = "context" =>
    \A e \in {f \in reader.links : f.type = "foreign_key"} :
      LET described == {n \in {e.source, e.target} : RelationOf(n.name) \in reader.relations}
      IN  /\ described # {}
          /\ reader.whole => ({e.source, e.target} \ described) \cap nodes = {}

\* Once a schema has stopped changing its graph names what the schema has.
GraphNames(i) == {n.name : n \in {m \in NodesOf(i) : m.kind \in {"table", "column"}}}
SchemaNames(i) == catalog[i] \cup (BaseTables \cap {RelationOf(c) : c \in catalog[i]})

GraphCatchesUp == \A i \in Instances : <>[](GraphNames(i) = SchemaNames(i))

\* NL2SQL_SPEC 3.5: a refresh that fails keeps the graph there was.  Nodes of
\* an instance go away only with a commit that has read its catalog to the end.
FailedRefreshKeepsGraph ==
  [][\A i \in Instances :
       (\E n \in nodes \ nodes' : n.inst = i) => \E b \in Sessions : i \in tx[b].done]_graphVars
=============================================================================

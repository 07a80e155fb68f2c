---------------------------- MODULE SchemaProofs ----------------------------
(***************************************************************************)
(* Machine-checked proofs about the schema graph (SchemaGraph): for any    *)
(* schemas, builds, registrations and questions, a committed build has     *)
(* replaced what was stored, and the context of a question hangs together. *)
(***************************************************************************)
EXTENDS SchemaGraph, WellFoundedInduction, TLAPS

-----------------------------------------------------------------------------

Kinds == {"table", "column", "metric", "concept"}
Names == Columns \cup BaseTables \cup Metrics
Rows == [inst : Instances, kind : Kinds, name : Names, id : 1..Copies]

\* A foreign key leads from a column to a column.
Arrows ==
  { e \in [type : {"has_column", "foreign_key", "source"}, source : Rows, target : Rows] :
      e.type = "foreign_key" => e.source.kind = "column" /\ e.target.kind = "column" }

AtWork == {"clearing", "cleared", "tables", "columns", "built"}

Builds ==
  [step : AtWork \cup {"new", "idle"}, inst : Instances \cup {NoInstance},
   seen : SUBSET Rows, doomed : SUBSET Rows, fresh : SUBSET Rows, links : SUBSET Arrows,
   done : SUBSET Instances]

Registrations ==
  [step : {"new", "linking", "done"}, node : SUBSET Rows, targets : SUBSET Rows]

RelationNames == Names \cup {RelationOf(c) : c \in Names}

Readers ==
  [step : {"idle", "seeds", "edges", "context"}, seeds : SUBSET Rows, links : SUBSET Arrows,
   relations : SUBSET RelationNames, whole : BOOLEAN]

GraphTypes ==
  /\ catalog \in [Instances -> Catalogs]
  /\ nodes \subseteq Rows /\ edges \subseteq Arrows
  /\ \A e \in edges : {e.source, e.target} \subseteq nodes
  /\ tx \in [Sessions -> Builds]
  /\ \A b \in Sessions : tx[b].step \in AtWork => tx[b].inst \in Instances
  /\ queue \subseteq Instances
  /\ reg \in [Requests -> Registrations]
  /\ reader \in Readers

\* A new node has an identifier that is free.
LEMMA NewIdIsFree ==
  ASSUME NEW i, NEW kind, FreeIds(i, kind) # {}
  PROVE  NewId(i, kind) \in FreeIds(i, kind)
<1> DEFINE free == FreeIds(i, kind)
<1>1. free \subseteq Nat
  BY GraphAssumption DEF FreeIds
<1>2. PICK id \in free : \A k \in free : ~(<<k, id>> \in OpToRel(<, Nat))
  BY <1>1, NatLessThanWellFounded, WFMin, Zenon
<1>3. \A k \in free : ~(k < id)
  BY <1>1, <1>2, Zenon DEF OpToRel
<1>4. \A k \in free : id <= k
  BY <1>1, <1>3, SMT
<1> QED
  BY <1>4 DEF NewId

LEMMA EndedTyped == Ended \in Builds /\ NoBuild \in Builds
BY DEF Ended, NoBuild, Builds, AtWork

LEMMA ClearTyped ==
  ASSUME GraphTypes, NEW b \in Sessions, NEW i \in Instances, BeginClear(b, i)
  PROVE  \E f \in Builds : /\ tx' = [tx EXCEPT ![b] = f]
                           /\ f.step = "clearing" /\ f.inst = i
                           /\ f.seen = tx[b].seen \cup NodesOf(i) /\ f.fresh = tx[b].fresh
                           /\ f.doomed = tx[b].doomed /\ f.links = tx[b].links
<1>1. PICK rows : rows = tx[b].seen \cup NodesOf(i)
  OBVIOUS
<1>2. PICK f : f = [tx[b] EXCEPT !.step = "clearing", !.inst = i, !.seen = rows]
  OBVIOUS
<1>3. tx[b] \in Builds /\ rows \subseteq Rows
  BY <1>1 DEF GraphTypes, NodesOf, Builds
<1>4. /\ f \in Builds /\ f.step = "clearing" /\ f.inst = i /\ f.seen = rows
      /\ f.fresh = tx[b].fresh /\ f.doomed = tx[b].doomed /\ f.links = tx[b].links
  BY <1>2, <1>3 DEF Builds, AtWork
<1>5. tx' = [tx EXCEPT ![b] = f]
  BY <1>1, <1>2 DEF BeginClear, GraphTypes, Builds
<1> QED
  BY <1>1, <1>4, <1>5

\* The nodes a build creates, of tables or of columns.
LEMMA CreatedTyped ==
  ASSUME GraphTypes, NEW i \in Instances, NEW kind \in Kinds, FreeIds(i, kind) # {},
         NEW names, names \subseteq Names
  PROVE  LET made == {Node(i, kind, c, NewId(i, kind)) : c \in names}
         IN  made \subseteq Rows /\ made \cap Known = {} /\ \A n \in made : n.kind = kind /\ n.inst = i
<1> DEFINE id == NewId(i, kind)
<1>1. id \in 1..Copies /\ \A n \in Known : n.inst = i /\ n.kind = kind => n.id # id
  BY NewIdIsFree DEF FreeIds
<1> HIDE DEF id
<1>2. ASSUME NEW c \in names
      PROVE  /\ Node(i, kind, c, id) \in Rows /\ Node(i, kind, c, id) \notin Known
             /\ Node(i, kind, c, id).kind = kind /\ Node(i, kind, c, id).inst = i
  BY <1>1, <1>2 DEF Node, Rows
<1> QED
  BY <1>2 DEF id

LEMMA TablesTyped ==
  ASSUME GraphTypes, NEW b \in Sessions, ReadTables(b)
  PROVE  \E f \in Builds, made \in SUBSET Rows :
           /\ tx' = [tx EXCEPT ![b] = f]
           /\ f.step = "tables" /\ f.inst = tx[b].inst /\ f.seen = tx[b].seen
           /\ f.doomed = tx[b].doomed /\ f.fresh = tx[b].fresh \cup made
           /\ made \cap Known = {} /\ \A n \in made : n.inst = tx[b].inst
<1> DEFINE i == tx[b].inst
<1>1. i \in Instances /\ tx[b] \in Builds /\ FreeIds(i, "table") # {} /\ "table" \in Kinds
  BY DEF ReadTables, GraphTypes, AtWork, Kinds
<1>2. PICK names : names = BaseTables \cap {RelationOf(c) : c \in catalog[i]}
  OBVIOUS
<1>3. PICK made : made = {Node(i, "table", t, NewId(i, "table")) : t \in names}
  OBVIOUS
<1>4. names \subseteq Names
  BY <1>2 DEF Names
<1>5. made \subseteq Rows /\ made \cap Known = {} /\ \A n \in made : n.inst = i
  BY <1>1, <1>3, <1>4, CreatedTyped
<1>6. PICK all : all = tx[b].fresh \cup made
  OBVIOUS
<1>7. PICK f : f = [tx[b] EXCEPT !.step = "tables", !.fresh = all]
  OBVIOUS
<1>8. all \subseteq Rows
  BY <1>1, <1>5, <1>6 DEF Builds
<1>9. /\ f \in Builds /\ f.step = "tables" /\ f.inst = i /\ f.seen = tx[b].seen
      /\ f.doomed = tx[b].doomed /\ f.fresh = all
  BY <1>1, <1>7, <1>8 DEF Builds, AtWork
<1>10. tx' = [tx EXCEPT ![b] = f]
  BY <1>2, <1>3, <1>6, <1>7 DEF ReadTables, GraphTypes, Builds
<1> QED
  BY <1>5, <1>6, <1>9, <1>10

LEMMA ColumnsTyped ==
  ASSUME GraphTypes, NEW b \in Sessions, ReadColumns(b)
  PROVE  \E f \in Builds, made \in SUBSET Rows :
           /\ tx' = [tx EXCEPT ![b] = f]
           /\ f.step = "columns" /\ f.inst = tx[b].inst /\ f.seen = tx[b].seen
           /\ f.doomed = tx[b].doomed /\ f.fresh = tx[b].fresh \cup made
           /\ made \cap Known = {} /\ \A n \in made : n.inst = tx[b].inst
<1> DEFINE i == tx[b].inst
<1>1. i \in Instances /\ tx[b] \in Builds /\ FreeIds(i, "column") # {} /\ "column" \in Kinds
  BY DEF ReadColumns, GraphTypes, AtWork, Kinds
<1>2. catalog[i] \subseteq Names
  BY <1>1, GraphAssumption DEF GraphTypes, Names
<1>3. PICK made : made = {Node(i, "column", c, NewId(i, "column")) : c \in catalog[i]}
  OBVIOUS
<1>4. made \subseteq Rows /\ made \cap Known = {} /\ \A n \in made : n.inst = i
  <2>1. PICK names : names = catalog[i]
    OBVIOUS
  <2>2. names \subseteq Names /\ made = {Node(i, "column", c, NewId(i, "column")) : c \in names}
    BY <1>2, <1>3, <2>1
  <2> QED
    BY <1>1, <2>2, CreatedTyped
<1>5. PICK new_links :
        new_links = {Edge("has_column", p[1], p[2]) :
          p \in {q \in Pending(b, "table") \X made : q[1].name = RelationOf(q[2].name)}}
  OBVIOUS
<1>6. PICK all : all = tx[b].fresh \cup made
  OBVIOUS
<1>7. PICK arrows : arrows = tx[b].links \cup new_links
  OBVIOUS
<1>8. PICK f : f = [tx[b] EXCEPT !.step = "columns", !.fresh = all, !.links = arrows]
  OBVIOUS
<1>9. new_links \subseteq Arrows
  <2> SUFFICES ASSUME NEW p \in Pending(b, "table") \X made
               PROVE  Edge("has_column", p[1], p[2]) \in Arrows
    BY <1>5
  <2>1. p[1] \in Rows /\ p[2] \in Rows
    BY <1>1, <1>4 DEF Pending, Builds
  <2> QED
    BY <2>1 DEF Edge, Arrows
<1>10. all \subseteq Rows /\ arrows \subseteq Arrows
  BY <1>1, <1>4, <1>6, <1>7, <1>9 DEF Builds
<1>11. /\ f \in Builds /\ f.step = "columns" /\ f.inst = i /\ f.seen = tx[b].seen
       /\ f.doomed = tx[b].doomed /\ f.fresh = all
  BY <1>1, <1>8, <1>10 DEF Builds, AtWork
<1>12. tx' = [tx EXCEPT ![b] = f]
  BY <1>3, <1>5, <1>6, <1>7, <1>8 DEF ReadColumns, GraphTypes, Builds
<1> QED
  BY <1>4, <1>6, <1>11, <1>12

LEMMA ForeignKeysTyped ==
  ASSUME GraphTypes, NEW b \in Sessions, ReadForeignKeys(b)
  PROVE  \E f \in Builds :
           /\ tx' = [tx EXCEPT ![b] = f]
           /\ f.step = "built" /\ f.inst = tx[b].inst /\ f.seen = tx[b].seen
           /\ f.doomed = tx[b].doomed /\ f.fresh = tx[b].fresh
<1> DEFINE there(p) == \A k \in {1, 2} : p[k].name \in catalog[tx[b].inst]
<1>1. tx[b] \in Builds /\ tx[b].inst \in Instances
  BY DEF ReadForeignKeys, GraphTypes, AtWork
<1>2. PICK new_links :
        new_links = {Edge("foreign_key", p[1], p[2]) :
          p \in {q \in Pending(b, "column") \X Pending(b, "column") :
                   there(q) /\ <<q[1].name, q[2].name>> \in ForeignKeys}}
  OBVIOUS
<1>3. PICK arrows : arrows = tx[b].links \cup new_links
  OBVIOUS
<1>4. PICK instances : instances = tx[b].done \cup {tx[b].inst}
  OBVIOUS
<1>5. PICK f : f = [tx[b] EXCEPT !.step = "built", !.done = instances, !.links = arrows]
  OBVIOUS
<1>6. new_links \subseteq Arrows
  <2> SUFFICES ASSUME NEW p \in Pending(b, "column") \X Pending(b, "column")
               PROVE  Edge("foreign_key", p[1], p[2]) \in Arrows
    BY <1>2
  <2>1. p[1] \in Rows /\ p[2] \in Rows /\ p[1].kind = "column" /\ p[2].kind = "column"
    BY <1>1 DEF Pending, Builds
  <2> QED
    BY <2>1 DEF Edge, Arrows
<1>7. arrows \subseteq Arrows /\ instances \subseteq Instances
  BY <1>1, <1>3, <1>4, <1>6 DEF Builds
<1>8. /\ f \in Builds /\ f.step = "built" /\ f.inst = tx[b].inst /\ f.seen = tx[b].seen
      /\ f.doomed = tx[b].doomed /\ f.fresh = tx[b].fresh
  BY <1>1, <1>5, <1>7 DEF Builds, AtWork
<1>9. tx' = [tx EXCEPT ![b] = f]
  BY <1>2, <1>3, <1>4, <1>5 DEF ReadForeignKeys, GraphTypes, Builds
<1> QED
  BY <1>8, <1>9

\* What a build has seen and not deleted is gone or still stored, but deleted
\* it is before the catalog is read; what it creates is none of what it saw.
Marked(t, stored) ==
  /\ t.seen \subseteq stored
  /\ t.step \in {"cleared", "tables", "columns", "built"} => t.seen \subseteq t.doomed
  /\ t.step \in AtWork => \A n \in t.fresh \cap t.seen : n.inst # t.inst
  /\ t.step = "new" => t.fresh = {}

\* The deep analysis has created nodes only for instances it has visited.
DeepMarked(t, waiting) ==
  /\ t.step # "new"
  /\ \A n \in t.fresh : n.inst \notin waiting
  /\ t.step \in AtWork => t.inst \notin waiting

\* An edge that was read has a seed at one of its ends.
ReaderInv ==
  /\ reader.step = "edges" => \A e \in reader.links : {e.source, e.target} \cap reader.seeds # {}
  /\ JoinsFitContext

\* The nodes a question has read.
Remembered == reader.seeds \cup (UNION {{e.source, e.target} : e \in reader.links})

\* What is not committed yet is nowhere else: not stored, not read by a
\* question, not created by two.
Apart ==
  /\ \A b \in Sessions : tx[b].fresh \cap (nodes \cup Remembered) = {}
  /\ \A r \in Requests : reg[r].node \cap (nodes \cup Remembered) = {}
  /\ \A b, c \in Sessions : b # c => tx[b].fresh \cap tx[c].fresh = {}
  /\ \A r, s \in Requests : r # s => reg[r].node \cap reg[s].node = {}
  /\ \A b \in Sessions, r \in Requests : tx[b].fresh \cap reg[r].node = {}

GraphInv ==
  /\ GraphTypes /\ Apart
  /\ \A b \in Sessions : Marked(tx[b], nodes)
  /\ DeepMarked(tx[Deep], queue)
  /\ ReaderInv

LEMMA DeepIsSession == Deep \in Sessions
BY DEF Sessions

LEMMA EndedMarked ==
  \A rows : Marked(Ended, rows) /\ Marked(NoBuild, rows) /\ DeepMarked(Ended, rows)
BY DEF Ended, NoBuild, Marked, DeepMarked, AtWork

LEMMA KnownHoldsAll ==
  /\ nodes \subseteq Known /\ Remembered \subseteq Known
  /\ \A b \in Sessions : tx[b].fresh \subseteq Known
  /\ \A r \in Requests : reg[r].node \subseteq Known
BY DEF Known, Remembered

\* The context of a question stays as good as it was while no node comes back
\* that the question has read.
LEMMA ReaderStays ==
  ASSUME ReaderInv, reader' = reader, \A n \in Remembered : n \in nodes' => n \in nodes
  PROVE  ReaderInv'
<1>1. ASSUME reader.step = "context", NEW e \in reader.links
      PROVE  \A n \in {e.source, e.target} : n \in nodes' => n \in nodes
  BY <1>1 DEF Remembered
<1> QED
  BY <1>1 DEF ReaderInv, JoinsFitContext

\* A step of one session that commits nothing.
LEMMA SessionStep ==
  ASSUME GraphInv, NEW b \in Sessions, NEW f \in Builds, f.step \in AtWork => f.inst \in Instances,
         tx' = [tx EXCEPT ![b] = f], queue' \subseteq queue, Marked(f, nodes),
         b = Deep => DeepMarked(f, queue'), UNCHANGED <<catalog, nodes, edges, reg, reader>>,
         \A n \in f.fresh : n \in tx[b].fresh \/ n \notin Known
  PROVE  GraphInv'
<1>1. tx' \in [Sessions -> Builds] /\ tx'[b] = f /\ \A c \in Sessions \ {b} : tx'[c] = tx[c]
  BY DEF GraphInv, GraphTypes
<1>2. GraphTypes'
  BY <1>1 DEF GraphInv, GraphTypes
<1>3. \A c \in Sessions : Marked(tx'[c], nodes')
  BY <1>1 DEF GraphInv
<1>4. DeepMarked(tx'[Deep], queue')
  <2>1. CASE b = Deep
    BY <1>1, <2>1
  <2>2. CASE b # Deep
    <3>1. tx'[Deep] = tx[Deep]
      BY <1>1, <2>2, DeepIsSession
    <3> QED
      BY <3>1 DEF GraphInv, DeepMarked
  <2> QED
    BY <2>1, <2>2
<1>5. (\A c \in Sessions : Marked(tx[c], nodes))' /\ DeepMarked(tx[Deep], queue)'
  BY <1>3, <1>4 DEF Marked, DeepMarked
<1>6. ReaderInv'
  BY ReaderStays DEF GraphInv
<1>7. Apart'
  <2>1. Remembered' = Remembered
    BY DEF Remembered
  <2>2. /\ f.fresh \cap (nodes \cup Remembered) = {}
        /\ \A c \in Sessions \ {b} : f.fresh \cap tx[c].fresh = {}
        /\ \A r \in Requests : f.fresh \cap reg[r].node = {}
    BY KnownHoldsAll DEF GraphInv, Apart
  <2> QED
    BY <1>1, <2>1, <2>2 DEF GraphInv, Apart
<1> QED
  BY <1>2, <1>5, <1>6, <1>7 DEF GraphInv

LEMMA BuildStepKeepsInv ==
  ASSUME GraphInv, NEW b \in Sessions,
         Clear(b) \/ ReadTables(b) \/ ReadColumns(b) \/ ReadForeignKeys(b)
  PROVE  GraphInv'
<1>1. /\ GraphTypes /\ tx[b] \in Builds /\ Marked(tx[b], nodes) /\ tx[b].step \in AtWork
      /\ tx[b].inst \in Instances /\ (b = Deep => DeepMarked(tx[b], queue))
  BY DEF GraphInv, GraphTypes, Clear, ReadTables, ReadColumns, ReadForeignKeys, AtWork
<1>2. UNCHANGED <<catalog, nodes, edges, queue, reg, reader>>
  BY DEF Clear, ReadTables, ReadColumns, ReadForeignKeys
<1>3. CASE Clear(b)
  <2>1. PICK gone : gone = tx[b].doomed \cup (nodes \cap tx[b].seen)
    OBVIOUS
  <2>2. PICK f : f = [tx[b] EXCEPT !.step = "cleared", !.doomed = gone]
    OBVIOUS
  <2>3. gone \subseteq Rows
    BY <1>1, <2>1 DEF Builds
  <2>4. /\ f \in Builds /\ f.step = "cleared" /\ f.inst = tx[b].inst /\ f.seen = tx[b].seen
        /\ f.doomed = gone /\ f.fresh = tx[b].fresh
    BY <1>1, <2>2, <2>3 DEF Builds, AtWork
  <2>5. tx' = [tx EXCEPT ![b] = f]
    BY <1>1, <1>3, <2>1, <2>2 DEF Clear, Doomed, GraphTypes, Builds
  <2>6. Marked(f, nodes)
    BY <1>1, <2>1, <2>4 DEF Marked, AtWork
  <2>7. b = Deep => DeepMarked(f, queue')
    BY <1>1, <1>2, <2>4 DEF DeepMarked, AtWork
  <2> QED
    BY <1>1, <1>2, <2>4, <2>5, <2>6, <2>7, SessionStep
<1>4. ASSUME NEW f \in Builds, NEW made \in SUBSET Rows, tx' = [tx EXCEPT ![b] = f],
             f.step \in {"tables", "columns", "built"}, f.inst = tx[b].inst, f.seen = tx[b].seen,
             f.doomed = tx[b].doomed, f.fresh = tx[b].fresh \cup made,
             made \cap Known = {}, \A n \in made : n.inst = tx[b].inst,
             tx[b].step \in {"cleared", "tables", "columns"}
      PROVE  GraphInv'
  <2>1. tx[b].seen \subseteq Known
    BY DEF Known
  <2>2. Marked(f, nodes)
    BY <1>1, <1>4, <2>1 DEF Marked, AtWork
  <2>3. b = Deep => DeepMarked(f, queue')
    BY <1>1, <1>2, <1>4 DEF DeepMarked
  <2> QED
    BY <1>1, <1>2, <1>4, <2>2, <2>3, SessionStep
<1>5. CASE ReadTables(b)
  <2>1. tx[b].step = "cleared"
    BY <1>5 DEF ReadTables
  <2> QED
    BY <1>1, <1>4, <1>5, <2>1, TablesTyped
<1>6. CASE ReadColumns(b)
  <2>1. tx[b].step = "tables"
    BY <1>6 DEF ReadColumns
  <2> QED
    BY <1>1, <1>4, <1>6, <2>1, ColumnsTyped
<1>7. CASE ReadForeignKeys(b)
  <2>1. tx[b].step = "columns"
    BY <1>7 DEF ReadForeignKeys
  <2>2. PICK f \in Builds : /\ tx' = [tx EXCEPT ![b] = f]
                            /\ f.step = "built" /\ f.inst = tx[b].inst /\ f.seen = tx[b].seen
                            /\ f.doomed = tx[b].doomed /\ f.fresh = tx[b].fresh
    BY <1>1, <1>7, ForeignKeysTyped
  <2>3. {} \in SUBSET Rows /\ f.fresh = tx[b].fresh \cup {}
    BY <2>2
  <2> QED
    BY <1>4, <2>1, <2>2, <2>3
<1> QED
  BY <1>3, <1>5, <1>6, <1>7

LEMMA BeginKeepsInv ==
  ASSUME GraphInv,
         \/ \E b \in Builders, i \in Instances : StartBuild(b, i)
         \/ \E i \in Instances : DeepBuild(i)
  PROVE  GraphInv'
<1>1. PICK b \in Sessions, i \in Instances :
        /\ BeginClear(b, i) /\ UNCHANGED <<catalog, nodes, edges, reg, reader>>
        /\ \/ tx[b].step = "new" /\ queue' = queue
           \/ b = Deep /\ i \in queue /\ queue' = queue \ {i}
  BY DeepIsSession DEF StartBuild, DeepBuild, Sessions
<1>2. GraphTypes /\ Marked(tx[b], nodes) /\ DeepMarked(tx[Deep], queue)
  BY DEF GraphInv
<1>3. PICK f \in Builds : /\ tx' = [tx EXCEPT ![b] = f]
                          /\ f.step = "clearing" /\ f.inst = i
                          /\ f.seen = tx[b].seen \cup NodesOf(i) /\ f.fresh = tx[b].fresh
                          /\ f.doomed = tx[b].doomed /\ f.links = tx[b].links
  BY <1>1, <1>2, ClearTyped
<1>4. \A n \in f.fresh : n.inst # i
  BY <1>1, <1>2, <1>3 DEF Marked, DeepMarked
<1>5. Marked(f, nodes)
  BY <1>2, <1>3, <1>4 DEF Marked, NodesOf
<1>6. b = Deep => DeepMarked(f, queue')
  BY <1>1, <1>2, <1>3, <1>4 DEF DeepMarked
<1> QED
  BY <1>1, <1>3, <1>5, <1>6, SessionStep

LEMMA EndKeepsInv ==
  ASSUME GraphInv,
         \/ \E b \in Builders : FailBuild(b)
         \/ DeepTargetFails \/ DeepSessionFails \/ EndDeep
  PROVE  GraphInv'
<1>1. CASE DeepTargetFails
  <2>1. PICK f : f = [tx[Deep] EXCEPT !.step = "idle"]
    OBVIOUS
  <2>2. /\ tx[Deep] \in Builds /\ Marked(tx[Deep], nodes) /\ DeepMarked(tx[Deep], queue)
        /\ tx \in [Sessions -> Builds]
    BY DeepIsSession DEF GraphInv, GraphTypes
  <2>3. f \in Builds /\ f.step = "idle" /\ f.seen = tx[Deep].seen /\ f.fresh = tx[Deep].fresh
    BY <2>1, <2>2 DEF Builds
  <2>4. /\ tx' = [tx EXCEPT ![Deep] = f]
        /\ UNCHANGED <<catalog, nodes, edges, queue, reg, reader>>
    BY <1>1, <2>1, <2>2 DEF DeepTargetFails, Builds
  <2>5. Marked(f, nodes) /\ DeepMarked(f, queue') /\ f.step \notin AtWork
    BY <2>2, <2>3, <2>4 DEF Marked, DeepMarked, AtWork
  <2> QED
    BY <2>3, <2>4, <2>5, DeepIsSession, SessionStep
<1>2. CASE DeepSessionFails \/ EndDeep \/ \E b \in Builders : FailBuild(b)
  <2>1. PICK b \in Sessions : /\ tx' = [tx EXCEPT ![b] = Ended] /\ queue' \subseteq queue
                              /\ UNCHANGED <<catalog, nodes, edges, reg, reader>>
    BY <1>2, DeepIsSession DEF DeepSessionFails, EndDeep, FailBuild, Sessions
  <2>2. Ended.step \notin AtWork /\ Ended.fresh = {}
    BY DEF Ended, AtWork, NoBuild
  <2> QED
    BY <2>1, <2>2, EndedTyped, EndedMarked, SessionStep
<1> QED
  BY <1>1, <1>2

\* What a store leaves: no edge without its ends.
LEMMA StoreTyped ==
  ASSUME NEW rows \in SUBSET Rows, NEW arrows \in SUBSET Arrows, Store(rows, arrows)
  PROVE  /\ nodes' = rows /\ edges' \subseteq Arrows
         /\ \A e \in edges' : {e.source, e.target} \subseteq nodes'
BY DEF Store

LEMMA CommitKeepsInv ==
  ASSUME GraphInv, NEW b \in Sessions, CommitBuild(b)
  PROVE  GraphInv'
<1>1. /\ GraphTypes /\ tx \in [Sessions -> Builds] /\ nodes \subseteq Rows /\ edges \subseteq Arrows
      /\ \A c \in Sessions : Marked(tx[c], nodes)
  BY DEF GraphInv, GraphTypes
<1>2. /\ nodes' = (nodes \ tx[b].doomed) \cup tx[b].fresh /\ edges' \subseteq Arrows
      /\ \A e \in edges' : {e.source, e.target} \subseteq nodes'
  <2>1. /\ (nodes \ tx[b].doomed) \cup tx[b].fresh \in SUBSET Rows
        /\ edges \cup tx[b].links \in SUBSET Arrows
    BY <1>1 DEF Builds
  <2> QED
    BY <2>1, StoreTyped DEF CommitBuild
<1>3. nodes' \subseteq Rows
  BY <1>1, <1>2 DEF Builds
<1>4. ASSUME NEW c \in Sessions
      PROVE  /\ tx'[c] \in Builds
             /\ tx'[c].step \in AtWork => tx'[c].inst \in Instances
             /\ Marked(tx'[c], nodes')
             /\ c = Deep => DeepMarked(tx'[c], queue)
  <2>1. CASE c = b
    <3>1. tx'[c] = Ended
      BY <2>1 DEF CommitBuild
    <3>2. Ended.step \notin AtWork
      BY DEF Ended, NoBuild, AtWork
    <3> QED
      BY <3>1, <3>2, EndedTyped, EndedMarked
  <2>2. CASE c # b
    <3>1. PICK rows : rows = tx[c].seen \cap nodes'
      OBVIOUS
    <3>2. PICK f : f = [tx[c] EXCEPT !.seen = rows]
      OBVIOUS
    <3>3. tx[c] \in Builds /\ rows \subseteq Rows
      BY <1>1, <3>1 DEF Builds
    <3>4. /\ f \in Builds /\ f.step = tx[c].step /\ f.inst = tx[c].inst /\ f.seen = rows
          /\ f.doomed = tx[c].doomed /\ f.fresh = tx[c].fresh
      BY <3>2, <3>3 DEF Builds
    <3>5. tx'[c] = f
      BY <2>2, <3>1, <3>2, <3>3 DEF CommitBuild, Builds
    <3>6. Marked(f, nodes')
      BY <1>1, <3>1, <3>4 DEF Marked
    <3>7. c = Deep => DeepMarked(f, queue)
      BY <3>4 DEF GraphInv, DeepMarked
    <3>8. f.step \in AtWork => f.inst \in Instances
      BY <1>1, <3>4 DEF GraphTypes
    <3> QED
      BY <3>4, <3>5, <3>6, <3>7, <3>8
  <2> QED
    BY <2>1, <2>2
<1>5. tx' \in [Sessions -> Builds] /\ UNCHANGED <<catalog, queue, reg, reader>>
  <2>1. DOMAIN tx' = Sessions /\ tx' = [c \in Sessions |-> tx'[c]]
    BY DEF CommitBuild
  <2> QED
    BY <1>4, <2>1 DEF CommitBuild
<1>6. GraphTypes'
  BY <1>1, <1>2, <1>3, <1>4, <1>5 DEF GraphTypes
<1>7. (\A c \in Sessions : Marked(tx[c], nodes))'
  BY <1>4 DEF Marked
<1>8. DeepMarked(tx[Deep], queue)'
  BY <1>4, <1>5, DeepIsSession DEF DeepMarked
<1>9. ReaderInv'
  <2>1. \A n \in Remembered : n \in nodes' => n \in nodes
    BY <1>2 DEF GraphInv, Apart
  <2> QED
    BY <1>5, <2>1, ReaderStays DEF GraphInv
<1>10. Apart'
  <2>1. \A c \in Sessions : tx'[c].fresh = IF c = b THEN {} ELSE tx[c].fresh
    BY <1>1 DEF CommitBuild, Ended, NoBuild, Builds
  <2>2. Remembered' = Remembered
    BY <1>5 DEF Remembered
  <2>3. /\ \A c \in Sessions : tx'[c].fresh \cap (nodes' \cup Remembered) = {}
        /\ \A r \in Requests : reg[r].node \cap (nodes' \cup Remembered) = {}
    BY <1>2, <2>1 DEF GraphInv, Apart
  <2> QED
    BY <1>5, <2>1, <2>2, <2>3 DEF GraphInv, Apart
<1> QED
  BY <1>6, <1>7, <1>8, <1>9, <1>10 DEF GraphInv

LEMMA RegisterKeepsInv ==
  ASSUME GraphInv, RegisterStep
  PROVE  GraphInv'
<1>1. UNCHANGED <<catalog, tx, queue, reader>>
  BY DEF RegisterStep, Register, FinishRegister
<1>2. GraphTypes /\ reg \in [Requests -> Registrations] /\ nodes \subseteq Rows /\ edges \subseteq Arrows
  BY DEF GraphInv, GraphTypes
<1> DEFINE Given(r) == /\ \A s \in Requests \ {r} : reg'[s].node = reg[s].node
                       /\ \A n \in nodes' : n \in nodes \/ n \in reg[r].node
                       /\ \/ reg'[r].node = {}
                          \/ reg'[r].node \cap Known = {} /\ nodes' = nodes
           Stored == /\ reg' \in [Requests -> Registrations]
                     /\ nodes \subseteq nodes' /\ nodes' \subseteq Rows /\ edges' \subseteq Arrows
                     /\ \A e \in edges' : {e.source, e.target} \subseteq nodes'
<1>3. Stored /\ \E r \in Requests : Given(r)
  <2>1. ASSUME NEW r \in Requests, NEW i \in Instances, NEW kind \in {"metric", "concept"},
               NEW name \in Metrics, Register(r, i, kind, name)
        PROVE  Stored /\ Given(r)
    <3>1. PICK made : made = {Node(i, kind, name, NewId(i, kind))}
      OBVIOUS
    <3>2. PICK found : found = UNION {Matches(i, kind, s) : s \in Sources(name)}
      OBVIOUS
    <3>3. NewId(i, kind) \in 1..Copies
      BY <2>1, NewIdIsFree DEF Register, FreeIds
    <3>4. made \subseteq Rows /\ made \cap Known = {}
      <4>1. \A n \in Known : n.inst = i /\ n.kind = kind => n.id # NewId(i, kind)
        BY <2>1, NewIdIsFree DEF Register, FreeIds
      <4> QED
        BY <3>1, <3>3, <4>1 DEF Node, Rows, Kinds, Names
    <3>5. found \subseteq Rows
      BY <1>2, <3>2 DEF Matches, NodesOf
    <3>6. reg' = [reg EXCEPT ![r] = [step |-> "linking", node |-> made, targets |-> found]]
      BY <2>1, <3>1, <3>2 DEF Register
    <3>7. UNCHANGED <<nodes, edges>>
      BY <2>1 DEF Register
    <3>8. /\ reg' \in [Requests -> Registrations] /\ reg'[r].node = made
          /\ \A s \in Requests \ {r} : reg'[s].node = reg[s].node
      BY <1>2, <3>4, <3>5, <3>6 DEF Registrations
    <3> QED
      BY <1>2, <3>4, <3>7, <3>8 DEF GraphTypes
  <2>2. ASSUME NEW r \in Requests, FinishRegister(r) PROVE Stored /\ Given(r)
    <3>1. PICK none : none = [Requested EXCEPT !.step = "done"]
      OBVIOUS
    <3>2. none \in Registrations
      BY <3>1 DEF Requested, Registrations
    <3>3. /\ reg' \in [Requests -> Registrations] /\ reg'[r].node = {}
          /\ \A s \in Requests \ {r} : reg'[s].node = reg[s].node
      BY <1>2, <2>2, <3>1, <3>2 DEF FinishRegister, Requested
    <3>4. CASE reg[r].targets \subseteq nodes
      <4> DEFINE arrows == {Edge("source", n, t) : n \in reg[r].node, t \in reg[r].targets}
      <4>1. \A n \in reg[r].node, t \in reg[r].targets : Edge("source", n, t) \in Arrows
        BY <1>2 DEF Edge, Arrows, Registrations
      <4>2. arrows \subseteq Arrows
        BY <4>1
      <4>3. Store(nodes \cup reg[r].node, edges \cup arrows)
        BY <2>2, <3>4 DEF FinishRegister
      <4> HIDE DEF arrows
      <4>4. nodes \cup reg[r].node \in SUBSET Rows /\ edges \cup arrows \in SUBSET Arrows
        BY <1>2, <4>2 DEF Registrations
      <4>5. /\ nodes' = nodes \cup reg[r].node /\ edges' \subseteq Arrows
            /\ \A e \in edges' : {e.source, e.target} \subseteq nodes'
        BY <4>3, <4>4, StoreTyped
      <4>6. Given(r)
        BY <3>3, <4>5
      <4> QED
        BY <3>3, <4>4, <4>5, <4>6
    <3>5. CASE ~(reg[r].targets \subseteq nodes)
      <4>1. UNCHANGED <<nodes, edges>>
        BY <2>2, <3>5 DEF FinishRegister
      <4> QED
        BY <1>2, <3>3, <4>1 DEF GraphTypes
    <3> QED
      BY <3>4, <3>5
  <2> QED
    BY <2>1, <2>2 DEF RegisterStep
<1>4. GraphTypes'
  <2>1. Stored
    BY <1>3
  <2> QED
    BY <1>1, <2>1 DEF GraphInv, GraphTypes
<1>5. (\A c \in Sessions : Marked(tx[c], nodes))'
  BY <1>1, <1>3 DEF GraphInv, Marked
<1>6. DeepMarked(tx[Deep], queue)'
  BY <1>1 DEF GraphInv, DeepMarked
<1>7. ReaderInv'
  <2>1. \A n \in Remembered : n \in nodes' => n \in nodes
    BY <1>3 DEF GraphInv, Apart
  <2> QED
    BY <1>1, <2>1, ReaderStays DEF GraphInv
<1>8. Apart'
  <2>1. Remembered' = Remembered
    BY <1>1 DEF Remembered
  <2>2. PICK r \in Requests : Given(r)
    BY <1>3
  <2>3. \A b \in Sessions : tx[b].fresh \cap (nodes' \cup Remembered) = {}
    BY <2>2 DEF GraphInv, Apart
  <2>4. \A s \in Requests \ {r} : reg[s].node \cap (nodes' \cup Remembered) = {}
    BY <2>2 DEF GraphInv, Apart
  <2>5. /\ reg'[r].node \cap (nodes' \cup Remembered) = {}
        /\ \A b \in Sessions : tx[b].fresh \cap reg'[r].node = {}
        /\ \A s \in Requests \ {r} : reg[s].node \cap reg'[r].node = {}
    BY <2>2, KnownHoldsAll
  <2> QED
    BY <1>1, <2>1, <2>2, <2>3, <2>4, <2>5 DEF GraphInv, Apart
<1> QED
  BY <1>4, <1>5, <1>6, <1>7, <1>8 DEF GraphInv

LEMMA RetrieveKeepsInv ==
  ASSUME GraphInv, RetrieveStep
  PROVE  GraphInv'
<1>1. UNCHANGED <<catalog, nodes, edges, tx, queue, reg>>
  BY DEF RetrieveStep, ReadSeeds, ReadEdges, ReadNeighbours, EndQuestion
<1>2. GraphTypes /\ reader \in Readers /\ nodes \subseteq Rows /\ edges \subseteq Arrows
  BY DEF GraphInv, GraphTypes
<1>3. reader' \in Readers /\ ReaderInv' /\ Remembered' \subseteq nodes \cup Remembered
  <2>1. NoQuestion \in Readers
    BY DEF NoQuestion, Readers
  <2>2. ASSUME NEW i \in Instances, ReadSeeds(i)
        PROVE  reader' \in Readers /\ ReaderInv' /\ Remembered' \subseteq nodes \cup Remembered
    <3>1. PICK s \in SUBSET NodesOf(i) : reader' = [NoQuestion EXCEPT !.step = "seeds", !.seeds = s]
      BY <2>2 DEF ReadSeeds
    <3>2. s \subseteq nodes /\ s \subseteq Rows
      BY <1>2 DEF NodesOf
    <3>3. /\ reader' \in Readers /\ reader'.step = "seeds"
          /\ reader'.seeds = s /\ reader'.links = {}
      BY <2>1, <3>1, <3>2 DEF Readers, NoQuestion
    <3> QED
      BY <3>2, <3>3 DEF ReaderInv, JoinsFitContext, Remembered
  <2>3. ASSUME NEW ok \in BOOLEAN, ReadEdges(ok)
        PROVE  reader' \in Readers /\ ReaderInv' /\ Remembered' \subseteq nodes \cup Remembered
    <3>1. PICK found : found = {e \in edges : ok /\ {e.source, e.target} \cap reader.seeds # {}}
      OBVIOUS
    <3>2. /\ reader' = [reader EXCEPT !.step = "edges", !.links = found]
          /\ found \subseteq Arrows /\ found \subseteq edges
      BY <1>2, <2>3, <3>1 DEF ReadEdges
    <3>3. reader' \in Readers /\ reader'.step = "edges" /\ reader'.links = found
          /\ reader'.seeds = reader.seeds
      BY <1>2, <3>2 DEF Readers
    <3>4. ReaderInv'
      BY <3>1, <3>3 DEF ReaderInv, JoinsFitContext
    <3>5. \A e \in found : {e.source, e.target} \subseteq nodes
      BY <3>2 DEF GraphInv, GraphTypes
    <3> QED
      BY <3>3, <3>4, <3>5 DEF Remembered
  <2>4. ASSUME NEW ok \in BOOLEAN, ReadNeighbours(ok)
        PROVE  reader' \in Readers /\ ReaderInv' /\ Remembered' \subseteq nodes \cup Remembered
    <3>1. PICK found : found = reader.seeds \cup IF ok THEN Neighbours \cap nodes ELSE {}
      OBVIOUS
    <3>2. PICK rels : rels = Relations(found)
      OBVIOUS
    <3>3. reader' = [reader EXCEPT !.step = "context", !.whole = ok, !.relations = rels]
      BY <2>4, <3>1, <3>2 DEF ReadNeighbours
    <3>4. found \subseteq Rows /\ reader.seeds \subseteq found
      BY <1>2, <3>1 DEF Readers
    <3>5. rels \subseteq RelationNames
      BY <3>2, <3>4 DEF Relations, RelationNames, Rows
    <3>6. /\ reader' \in Readers /\ reader'.step = "context" /\ reader'.relations = rels
          /\ reader'.whole = ok /\ reader'.links = reader.links /\ reader'.seeds = reader.seeds
      BY <1>2, <3>3, <3>5 DEF Readers
    <3>7. ASSUME NEW e \in reader.links, e.type = "foreign_key",
                 NEW described, described = {n \in {e.source, e.target} : RelationOf(n.name) \in rels}
          PROVE  /\ described # {}
                 /\ ok => ({e.source, e.target} \ described) \cap nodes = {}
      <4>1. /\ e.source.kind = "column" /\ e.target.kind = "column"
            /\ {e.source, e.target} \cap reader.seeds # {}
        BY <1>2, <2>4, <3>7 DEF Readers, Arrows, GraphInv, ReaderInv, ReadNeighbours
      <4>2. \A n \in found : n.kind = "column" => RelationOf(n.name) \in rels
        BY <3>2 DEF Relations
      <4>3. described # {}
        BY <3>4, <3>7, <4>1, <4>2
      <4>4. ASSUME ok, NEW n \in {e.source, e.target}, n \in nodes PROVE n \in described
        <5>1. n \in found
          BY <3>1, <4>4 DEF Neighbours
        <5> QED
          BY <3>7, <4>1, <4>2, <4>4, <5>1
      <4> QED
        BY <4>3, <4>4
    <3>8. ReaderInv'
      BY <1>1, <3>6, <3>7 DEF ReaderInv, JoinsFitContext
    <3> QED
      BY <3>6, <3>8 DEF Remembered
  <2>5. CASE EndQuestion
    <3>1. reader' = NoQuestion
      BY <2>5 DEF EndQuestion
    <3> QED
      BY <2>1, <3>1 DEF ReaderInv, JoinsFitContext, NoQuestion, Remembered
  <2> QED
    BY <2>2, <2>3, <2>4, <2>5 DEF RetrieveStep
<1>4. Apart'
  BY <1>1, <1>3 DEF GraphInv, Apart
<1> QED
  BY <1>1, <1>3, <1>4 DEF GraphInv, GraphTypes, Marked, DeepMarked

LEMMA QueueKeepsInv ==
  ASSUME GraphInv,
         StartDeep \/ \E i \in Instances : DeepUnreachable(i) \/ AlterCatalog(i)
  PROVE  GraphInv'
<1>1. UNCHANGED <<nodes, edges, tx, reg, reader>>
  BY DEF StartDeep, DeepUnreachable, AlterCatalog
<1>2. /\ catalog' \in [Instances -> Catalogs] /\ queue' \subseteq Instances
      /\ queue' \subseteq queue \/ tx[Deep] = Ended
  BY DEF StartDeep, DeepUnreachable, AlterCatalog, GraphInv, GraphTypes
<1>3. GraphTypes'
  BY <1>1, <1>2 DEF GraphInv, GraphTypes
<1>4. DeepMarked(tx[Deep], queue)'
  BY <1>1, <1>2, EndedMarked DEF GraphInv, DeepMarked
<1> QED
  BY <1>1, <1>3, <1>4 DEF GraphInv, Marked, ReaderInv, JoinsFitContext, Apart, Remembered

LEMMA GraphInvHolds == GraphSpec => []GraphInv
<1>1. GraphInit => GraphInv
  <2> SUFFICES ASSUME GraphInit PROVE GraphInv
    OBVIOUS
  <2>1. /\ tx \in [Sessions -> {Ended, NoBuild}] /\ tx[Deep] = Ended
    BY DeepIsSession DEF GraphInit
  <2>2. \A b \in Sessions : tx[b] \in Builds /\ tx[b].step \notin AtWork /\ Marked(tx[b], nodes)
    BY <2>1, EndedTyped, EndedMarked DEF Ended, NoBuild, AtWork
  <2>3. reg \in [Requests -> Registrations] /\ reader \in Readers
    BY DEF GraphInit, Requested, Registrations, NoQuestion, Readers
  <2>4. GraphTypes
    BY <2>1, <2>2, <2>3, EndedTyped DEF GraphInit, GraphTypes
  <2>5. ReaderInv
    BY DEF GraphInit, NoQuestion, ReaderInv, JoinsFitContext
  <2>6. Apart
    <3>1. \A b \in Sessions : tx[b].fresh = {}
      BY <2>1 DEF Ended, NoBuild
    <3>2. \A r \in Requests : reg[r].node = {}
      BY DEF GraphInit, Requested
    <3> QED
      BY <3>1, <3>2 DEF Apart
  <2> QED
    BY <2>1, <2>2, <2>4, <2>5, <2>6, EndedMarked DEF GraphInv
<1>2. GraphInv /\ [GraphNext]_graphVars => GraphInv'
  <2> SUFFICES ASSUME GraphInv, [GraphNext]_graphVars PROVE GraphInv'
    OBVIOUS
  <2>1. CASE UNCHANGED graphVars
    BY <2>1 DEF graphVars, GraphInv, GraphTypes, Marked, DeepMarked, ReaderInv, JoinsFitContext,
         Apart, Remembered
  <2>2. ASSUME NEW b \in Sessions, BuildStep(b) PROVE GraphInv'
    BY <2>2, BuildStepKeepsInv, CommitKeepsInv DEF BuildStep
  <2>3. CASE DeepVisit
    BY <2>3, QueueKeepsInv, BeginKeepsInv, EndKeepsInv DEF DeepVisit
  <2>4. CASE DeepNext
    BY <2>2, <2>3, <2>4, DeepIsSession, QueueKeepsInv, EndKeepsInv DEF DeepNext
  <2>5. CASE BuilderNext
    BY <2>2, <2>5, BeginKeepsInv, EndKeepsInv DEF BuilderNext, Sessions
  <2> QED
    BY <2>1, <2>4, <2>5, RegisterKeepsInv, RetrieveKeepsInv, QueueKeepsInv DEF GraphNext
<1> QED
  BY <1>1, <1>2, PTL DEF GraphSpec

\* The types of the graph, and that no edge is left without its ends, whatever
\* builds and registrations overlap (services/graph_rag.py).
THEOREM GraphTypeInvariant == GraphSpec => []GraphTypeOK
<1>1. GraphInv => GraphTypeOK
  BY DEF GraphInv, GraphTypes, GraphTypeOK, Rows, Kinds, Builds, AtWork, Registrations, Readers
<1> QED
  BY <1>1, GraphInvHolds, PTL

\* A join path of a context leads between relations it describes, unless the
\* neighbours could not be read or a build has deleted that end since, however
\* builds replace the graph between and after the three reads
\* (GraphRAGRetriever.retrieve).
THEOREM JoinsFit == GraphSpec => []JoinsFitContext
<1>1. GraphInv => JoinsFitContext
  BY DEF GraphInv, ReaderInv
<1> QED
  BY <1>1, GraphInvHolds, PTL

\* A committed build has replaced everything that was stored for its instance
\* when it began, with any number of builds, registrations and failures at
\* work (GraphRAGBuilder.build_graph).
THEOREM BuildsReplace == GraphSpec => BuildReplacesEarlier
<1> DEFINE Replaces == \A b \in Sessions :
             CommitBuild(b) => {n \in tx[b].seen : n.inst = tx[b].inst} \cap nodes' = {}
<1>1. GraphInv /\ [GraphNext]_graphVars => Replaces \/ UNCHANGED graphVars
  <2> SUFFICES ASSUME GraphInv, NEW b \in Sessions, CommitBuild(b)
               PROVE  {n \in tx[b].seen : n.inst = tx[b].inst} \cap nodes' = {}
    OBVIOUS
  <2>1. tx[b].step = "built" /\ nodes' = (nodes \ tx[b].doomed) \cup tx[b].fresh
    BY DEF CommitBuild, Store
  <2>2. Marked(tx[b], nodes)
    BY DEF GraphInv
  <2> QED
    BY <2>1, <2>2 DEF Marked, AtWork
<1> QED
  BY <1>1, GraphInvHolds, PTL DEF GraphSpec, BuildReplacesEarlier
=============================================================================

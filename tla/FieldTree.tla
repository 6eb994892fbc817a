------------------------------ MODULE FieldTree ------------------------------
(***************************************************************************)
(* The field tree of a crawler task: the rows a configurator edits         *)
(* (handlers/crawler.rs), the tree a run makes of them (from_rows of       *)
(* models/crawler_field_node.rs), and what the list page's part of it      *)
(* finds for each article (extract_layer and pair_list_card_fields_for_url *)
(* of crawler/engine.rs).                                                  *)
(*                                                                         *)
(* A request checks and then writes, without a transaction, so two of them *)
(* may cross.  UNIQUE(task_id, scope, parent_id, name) does not bind rows  *)
(* whose parent_id is NULL; the foreign key of parent_id cascades.         *)
(***************************************************************************)
EXTENDS Naturals, Sequences, FiniteSets, SequencesExt, TLC

CONSTANTS
  Bodies,        \* what a request says of a field: name, kind, is_active
  Orders,        \* the sort_order it may give
  Found(_, _),   \* how many elements the field of a name finds in a fragment
  Callers,       \* edits at once
  Limit,         \* 100 nodes
  InitTrees,     \* what earlier edits may have made of task 1: its rows by id
  MaxIds, MaxEdits  \* bounds of the model

Kinds == {"plain", "card", "script"}

ASSUME FieldTreeAssumption ==
  /\ \A b \in Bodies : b.kind \in Kinds /\ b.active \in BOOLEAN
  /\ Orders \subseteq Nat /\ 0 \in Orders
  /\ {Limit, MaxIds, MaxEdits} \subseteq Nat

VARIABLES
  node,      \* crawler_task_field_nodes: the rows by id
  nextId,
  copied,    \* the export of task 1 was imported as task 2
  req,       \* the edits between their checks and their write
  edits,
  raced,     \* tasks written to between another request's checks and its write
  moved      \* tasks in which a node was moved with its children

accidents == <<raced, moved>>
fieldVars   == <<node, nextId, copied, req, edits, accidents>>

Top == 0
Tasks == {1, 2}
Scopes == {"list_page", "detail_page"}
Ids == 1..MaxIds

NodeRow == [task : Tasks, parent : Ids \cup {Top}, scope : Scopes, body : Bodies,
        order : Orders \cup Ids]
NoRow == [task |-> 1, parent |-> Top, scope |-> "list_page", body |-> CHOOSE b \in Bodies : TRUE,
          order |-> 0]
NoReq == [op |-> "idle", id |-> Top, row |-> NoRow, left |-> <<>>, pos |-> 0]

Rows(t) == {i \in DOMAIN node : node[i].task = t}
Children(i) == {j \in DOMAIN node : node[j].parent = i}

\* The siblings a name is compared with; a NULL parent is one of its own (IS).
Namesakes(row) == {i \in Rows(row.task) : /\ node[i].parent = row.parent /\ node[i].scope = row.scope
                                          /\ node[i].body.name = row.body.name}

RECURSIVE Below(_, _)
Below(i, seen) ==
  LET new == Children(i) \ seen
  IN  IF new = {} THEN seen ELSE UNION {Below(j, seen \cup new) : j \in new}
Descendants(i) == Below(i, {})

FieldInit ==
  /\ node \in InitTrees
  /\ nextId = Cardinality(DOMAIN node) + 1
  /\ copied = FALSE
  /\ req = [c \in Callers |-> NoReq]
  /\ edits = 0
  /\ raced = {} /\ moved = {}

-----------------------------------------------------------------------------
(* Requests *)

Asks(c, r) ==
  /\ req[c] = NoReq /\ edits < MaxEdits
  /\ edits' = edits + 1
  /\ req' = [req EXCEPT ![c] = r]
  /\ UNCHANGED <<node, nextId, copied, accidents>>

EndRequest(c) == req' = [req EXCEPT ![c] = NoReq]

\* A write to the task while another request stands between its checks and its write.
Races(c, t) ==
  raced' = IF \E d \in Callers \ {c} : req[d].op \in {"create", "update"} /\ req[d].row.task = t
           THEN raced \cup {t} ELSE raced

\* The parent is a node of the task and of the scope.
ParentFits(row) ==
  row.parent # Top => /\ row.parent \in Rows(row.task)
                      /\ node[row.parent].scope = row.scope

\* validate_field_node_spec
SpecFits(row) == row.body.kind = "script" => row.scope = "detail_page"

\* What the database itself enforces when `self` is written.
Accepted(row, self) ==
  row.parent # Top => row.parent \in DOMAIN node /\ Namesakes(row) \subseteq {self}

CreateFieldNode(c, row) ==
  /\ ParentFits(row) /\ Cardinality(Rows(row.task)) < Limit
  /\ Namesakes(row) = {} /\ SpecFits(row)
  /\ row.task = 2 => copied
  /\ nextId + Cardinality({d \in Callers : req[d].op = "create"}) <= MaxIds
  /\ Asks(c, [NoReq EXCEPT !.op = "create", !.row = row])

InsertNode(c) ==
  /\ req[c].op = "create"
  /\ LET row == req[c].row
     IN  \/ /\ Accepted(row, Top)
            /\ node' = nextId :> row @@ node /\ nextId' = nextId + 1
            /\ Races(c, row.task)
         \/ ~Accepted(row, Top) /\ UNCHANGED <<node, nextId, raced>>
  /\ EndRequest(c)
  /\ UNCHANGED <<copied, edits, moved>>

\* Mutant: the parent may be of the other scope.
UpdateAcross(c, i, row) ==
  /\ i \in DOMAIN node /\ row.task = node[i].task
  /\ (row.parent # Top => row.parent \in Rows(row.task)) /\ row.parent # i
  /\ Namesakes(row) \subseteq {i} /\ SpecFits(row)
  /\ Asks(c, [NoReq EXCEPT !.op = "update", !.id = i, !.row = row])

\* The node may not be its own parent; no check of its descendants.
UpdateFieldNode(c, i, row) ==
  /\ i \in DOMAIN node /\ row.task = node[i].task
  /\ ParentFits(row) /\ row.parent # i
  /\ Namesakes(row) \subseteq {i} /\ SpecFits(row)
  /\ Asks(c, [NoReq EXCEPT !.op = "update", !.id = i, !.row = row])

UpdateNode(c) ==
  /\ req[c].op = "update"
  /\ LET row == req[c].row
         i == req[c].id
     IN  \/ /\ i \in DOMAIN node /\ Accepted(row, i)
            /\ node' = [node EXCEPT ![i] = row]
            /\ Races(c, row.task)
            /\ moved' = IF /\ Children(i) # {}
                           /\ row.parent # node[i].parent \/ row.scope # node[i].scope
                        THEN moved \cup {row.task} ELSE moved
         \/ ~(i \in DOMAIN node /\ Accepted(row, i)) /\ UNCHANGED <<node, accidents>>
  /\ EndRequest(c)
  /\ UNCHANGED <<nextId, copied, edits>>

\* The recursive query for the descendants never ends on a loop.
DeleteFieldNode(c, i) ==
  /\ i \in DOMAIN node
  /\ LET loops == \E j \in Descendants(i) : j \in Descendants(j)
     IN  Asks(c, [NoReq EXCEPT !.op = IF loops THEN "counting" ELSE "delete", !.id = i])

DeleteNode(c) ==
  /\ req[c].op = "delete"
  /\ LET gone == {req[c].id} \cup Descendants(req[c].id)
     IN  IF req[c].id \in DOMAIN node
         THEN node' = Restrict(node, DOMAIN node \ gone) /\ Races(c, node[req[c].id].task)
         ELSE UNCHANGED <<node, raced>>
  /\ EndRequest(c)
  /\ UNCHANGED <<nextId, copied, edits, moved>>

\* The siblings in their new order: one UPDATE each.
ReorderFieldNodes(c, i) ==
  /\ i \in DOMAIN node
  /\ LET siblings == {j \in Rows(node[i].task) : /\ node[j].parent = node[i].parent
                                                 /\ node[j].scope = node[i].scope}
     IN  \E list \in SetToSeqs(siblings) :
           Asks(c, [NoReq EXCEPT !.op = "reorder", !.row = node[i], !.left = list])

ReorderNode(c) ==
  /\ req[c].op = "reorder"
  /\ LET i == Head(req[c].left)
         row == req[c].row
         fits == /\ i \in Rows(row.task)
                 /\ node[i].scope = row.scope /\ node[i].parent = row.parent
     IN  node' = IF fits THEN [node EXCEPT ![i].order = req[c].pos] ELSE node
  /\ req' = [req EXCEPT ![c] = IF Len(@.left) = 1 THEN NoReq
                               ELSE [@ EXCEPT !.left = Tail(@), !.pos = @ + 1]]
  /\ UNCHANGED <<nextId, copied, edits, accidents>>

\* A statement fails, the client hangs up or the process stops.
RequestBreaks(c) ==
  /\ req[c] # NoReq
  /\ EndRequest(c)
  /\ UNCHANGED <<node, nextId, copied, edits, accidents>>

-----------------------------------------------------------------------------
(* The tree *)

\* A bucket of from_rows: by sort_order, then by id.
Bucket(t, p, s) ==
  SetToSortSeq({i \in Rows(t) : node[i].parent = p /\ node[i].scope = s},
               LAMBDA i, j : node[i].order < node[j].order \/ (node[i].order = node[j].order /\ i < j))

\* build_children: the nodes below p in the scope of p.
RECURSIVE BuildChildren(_, _, _)
BuildChildren(t, p, s) ==
  LET bucket == Bucket(t, p, s)
  IN  [k \in DOMAIN bucket |-> [id |-> bucket[k], children |-> BuildChildren(t, bucket[k], s)]]

FromRows(t) == [list_page |-> BuildChildren(t, Top, "list_page"),
                detail_page |-> BuildChildren(t, Top, "detail_page")]

\* The nodes of a tree, each parent before its children, with the place of its parent.
RECURSIVE Flatten(_, _, _)
Flatten(trees, parent, out) ==
  IF trees = <<>> THEN out
  ELSE LET first == Head(trees)
       IN  Flatten(Tail(trees), parent,
                   Flatten(first.children, Len(out) + 1, Append(out, [id |-> first.id, parent |-> parent])))

\* flatten_field_tree: the list page first.
FlatTree(t) == Flatten(FromRows(t).detail_page, 0, Flatten(FromRows(t).list_page, 0, <<>>))

\* insert_template_field_nodes: the rows of task t, each with the id of its parent's new row.
InsertTemplate(flat, t) ==
  [k \in nextId..(nextId + Len(flat) - 1) |->
     LET f == flat[k - nextId + 1]
     IN  [node[f.id] EXCEPT !.task = t,
                            !.parent = IF f.parent = 0 THEN Top ELSE nextId + f.parent - 1]]

\* export_task, and import_task of the file: one transaction, refused over the limit.
CopyTask ==
  /\ ~copied
  /\ LET flat == FlatTree(1)
     IN  /\ Len(flat) <= Limit
         /\ nextId + Len(flat) + Cardinality({c \in Callers : req[c].op = "create"}) <= MaxIds + 1
         /\ node' = InsertTemplate(flat, 2) @@ node
         /\ nextId' = nextId + Len(flat)
  /\ copied' = TRUE
  /\ raced' = IF 1 \in raced THEN raced \cup {2} ELSE raced
  /\ UNCHANGED <<req, edits, moved>>

-----------------------------------------------------------------------------
(* What a run finds with the tree of the list page *)

\* Mutant: a hit keeps its own number, not its parent's.
HitsNumbered(name, parentHits) ==
  IF parentHits = <<>>
  THEN [k \in 1..Found(name, <<>>) |-> [fragment |-> <<<<name, k>>>>, index |-> 0]]
  ELSE FlattenSeq([i \in DOMAIN parentHits |->
         [k \in 1..Found(name, parentHits[i].fragment) |->
            [fragment |-> Append(parentHits[i].fragment, <<name, k>>), index |-> k]]])

\* The hits of a field: on the page, also when its parent has none; or else in the
\* fragment of each hit of the parent, whose number they bear ("parent[i]").
Hits(name, parentHits) ==
  IF parentHits = <<>>
  THEN [k \in 1..Found(name, <<>>) |-> [fragment |-> <<<<name, k>>>>, index |-> 0]]
  ELSE FlattenSeq([i \in DOMAIN parentHits |->
         [k \in 1..Found(name, parentHits[i].fragment) |->
            [fragment |-> Append(parentHits[i].fragment, <<name, k>>), index |-> i]]])

\* extract_layer: the extractions of a layer, each followed by those below it; what
\* is not active is passed over with all below it.
RECURSIVE ExtractLayer(_, _, _)
ExtractLayer(trees, parentHits, path) ==
  IF trees = <<>> THEN <<>>
  ELSE LET body == node[Head(trees).id].body
           here == Append(path, body.name)
           hits == Hits(body.name, parentHits)
       IN  (IF ~body.active THEN <<>>
            ELSE <<[kind |-> body.kind, path |-> here, hits |-> hits]>>
                 \o ExtractLayer(Head(trees).children, hits, here))
           \o ExtractLayer(Tail(trees), parentHits, path)

ListExtractions(t) == ExtractLayer(FromRows(t).list_page, <<>>, <<>>)

Under(x, e) == Len(x.path) > Len(e.path) /\ IsPrefix(e.path, x.path)

\* pair_list_card_fields_for_url: what the article at the k-th link of a card's field is
\* given, from the fields below it: the hits with the number k.
Paired(x, k) == {x.hits[h].fragment : h \in {g \in DOMAIN x.hits : x.hits[g].index = k}}

-----------------------------------------------------------------------------
\* What a request may say of a row.
Asked == [task : Tasks, parent : DOMAIN node \cup {Top}, scope : Scopes, body : Bodies, order : Orders]

FieldNext ==
  \/ \E c \in Callers :
       \/ /\ req[c] = NoReq /\ edits < MaxEdits
          /\ \E row \in Asked : \/ CreateFieldNode(c, row)
                               \/ \E i \in Rows(row.task) : UpdateFieldNode(c, i, row)
       \/ \E i \in Ids : DeleteFieldNode(c, i) \/ ReorderFieldNodes(c, i)
       \/ InsertNode(c) \/ UpdateNode(c) \/ DeleteNode(c) \/ ReorderNode(c) \/ RequestBreaks(c)
  \/ CopyTask

FieldSpec == FieldInit /\ [][FieldNext]_fieldVars

-----------------------------------------------------------------------------
FieldTypeOK ==
  /\ DOMAIN node \subseteq 1..(nextId - 1) /\ nextId \in 1..(MaxIds + 1)
  /\ \A i \in DOMAIN node : node[i] \in NodeRow /\ (node[i].parent # Top => node[i].parent \in DOMAIN node)
  /\ \A i \in Rows(2) : node[i].parent \in Rows(2) \cup {Top}
  /\ copied \in BOOLEAN /\ (Rows(2) # {} => copied)
  /\ \A c \in Callers : req[c].op \in {"idle", "create", "update", "delete", "counting", "reorder"}
  /\ edits \in 0..MaxEdits /\ raced \subseteq Tasks /\ moved \subseteq Tasks

(***************************************************************************)
(* A parent is a node of the same task, also when a branch is deleted.     *)
(* A task has no two fields of one path, and no more than Limit of them,   *)
(* but where a request wrote between another one's checks and its write:   *)
(* the unique index does not bind the fields at the top.  And every row is *)
(* in the tree a run loads, once: the rows that from_rows silently drops   *)
(* come only of moving a node that has children, to another scope or below *)
(* one of them, or of edits that crossed.                                  *)
(***************************************************************************)
RowsAccounted ==
  FieldTypeOK /\ \A t \in Tasks :
    LET flat == FlatTree(t)
        ids  == [k \in DOMAIN flat |-> flat[k].id]
    IN  /\ IsInjective(ids) /\ Range(ids) \subseteq Rows(t)
        /\ t \notin raced \cup moved => Range(ids) = Rows(t)
        /\ t \notin raced => /\ Cardinality(Rows(t)) <= Limit
                             /\ \A i \in Rows(t) : Namesakes(node[i]) = {i}

\* What the k-th hit of the card's field holds of another field.
Inside(x, e, k) == {f \in {x.hits[h].fragment : h \in DOMAIN x.hits} : IsPrefix(e.hits[k].fragment, f)}

\* The i-th hit of p lies in the i-th hit of e.
InStep(p, e) ==
  Len(p.hits) = Len(e.hits) /\ \A i \in DOMAIN p.hits : IsPrefix(e.hits[i].fragment, p.hits[i].fragment)

(***************************************************************************)
(* An article is given what its own card on the list page holds, all of it *)
(* and nothing else, by the fields right below the card's; and by a deeper *)
(* one when the field above it finds one element in every card.            *)
(***************************************************************************)
PairedAccounted ==
  \A t \in Tasks \ raced :
    LET exts == Range(ListExtractions(t))
    IN  \A e \in {x \in exts : x.kind = "card"} :
          \A x \in {y \in exts : Under(y, e)} :
            \A p \in {q \in exts : q.path = Front(x.path)} :
              InStep(p, e) => \A k \in DOMAIN e.hits : Paired(x, k) = Inside(x, e, k)

=============================================================================

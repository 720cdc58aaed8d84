------------------------------ MODULE SchemaDrafts ------------------------------
(***************************************************************************)
(* From a document to a schema and on: the draft the server builds of one   *)
(* document, the operations it applies to a schema, and what the editor      *)
(* makes of the same operations on collections it has loaded whole.          *)
(*                                                                         *)
(* Identifiers of nodes, collections and members are numbers in the order   *)
(* of their creation.  A type stands for the text or value it is found for.  *)
(***************************************************************************)
EXTENDS Integers, Sequences, FiniteSets, SequencesExt

CONSTANTS
    Documents,      \* documents: kind, tag, type, nil, text, attributes, children
    Names,          \* names that fields are given
    MaxChanges      \* bound: operations applied

VARIABLES source, graph, changes
vars == <<source, graph, changes>>

Refused == [refused |-> TRUE]
IsGraph(g) == "nodes" \in DOMAIN g

-----------------------------------------------------------------------------
(* Building a draft.  A builder keeps nodes, collections and the number of   *)
(* members; to build a part gives the builder after it and the part's id.    *)

Node(kind, parts, rows, total, about) ==
    [kind |-> kind, parts |-> parts, rows |-> rows, total |-> total, about |-> about]
AddNode(b, node) == [b |-> [b EXCEPT !.nodes = Append(@, node)], id |-> Len(b.nodes) + 1]
AddScalar(b, type) == AddNode(b, Node("scalar", <<>>, 0, 0, type))
AddRows(b, rows) == [b EXCEPT !.collections = Append(@, rows)]
Member(b, kind, value, name) ==
    [id |-> b.members + 1, kind |-> kind, value |-> value, name |-> name]

\* One row for each of the parts, which Build(x, b) builds.
Rows(Build(_, _), kind, parts, b) ==
    FoldLeft(LAMBDA acc, x :
                LET r == Build(x, acc.b) IN
                [b |-> [r.b EXCEPT !.members = @ + 1],
                 rows |-> Append(acc.rows, Member(r.b, kind, r.id,
                                                  IF kind = "xmlParticle" THEN "" ELSE x.tag))],
             [b |-> b, rows |-> <<>>], parts)
\* A node that owns the rows as a new collection.
Owner(built, kind, parts, about) ==
    AddNode(AddRows(built.b, built.rows),
            Node(kind, parts, Len(built.b.collections) + 1, Len(built.rows), about))

RECURSIVE Shape(_)
Shape(x) ==
    CASE x.kind = "mapping" ->
            <<"object", {<<x.children[i].tag, Shape(x.children[i])>> : i \in DOMAIN x.children}>>
      [] x.kind = "sequence" -> <<"array", {Shape(x.children[i]) : i \in DOMAIN x.children}>>
      [] x.kind = "scalar" -> <<"scalar", x.type>>

\* Mutant: the first item stands for all of them.
FirstItem(items) == IF items = <<>> THEN items ELSE <<items[1]>>
\* The items of a sequence, one of each shape, in the order of the document.
ItemsOf(items) ==
    FoldLeft(LAMBDA kept, x : IF \E i \in DOMAIN kept : Shape(kept[i]) = Shape(x) THEN kept
                              ELSE Append(kept, x), <<>>, items)

RECURSIVE DataNode(_, _)
DataNode(x, b) ==
    CASE x.kind = "mapping" -> Owner(Rows(DataNode, "property", x.children, b), "object", <<>>, "")
      [] x.kind = "sequence" ->
            LET items == ItemsOf(x.children)
                built == FoldLeft(LAMBDA acc, item : LET r == DataNode(item, acc.b) IN
                                     [b |-> r.b, ids |-> Append(acc.ids, r.id)],
                                  [b |-> b, ids |-> <<>>], items)
                options == FoldLeft(LAMBDA acc, id :
                               [b |-> [acc.b EXCEPT !.members = @ + 1],
                                rows |-> Append(acc.rows, Member(acc.b, "option", id, ""))],
                               [b |-> built.b, rows |-> <<>>], built.ids)
                item == IF items = <<>> THEN AddScalar(b, "null")
                        ELSE IF Len(items) = 1 THEN [b |-> built.b, id |-> built.ids[1]]
                        ELSE Owner(options, "union", <<>>, "") IN
            AddNode(item.b, Node("array", <<item.id>>, 0, 0,
                                 IF items = <<>> THEN "empty" ELSE "any"))
      [] x.kind = "scalar" -> AddScalar(b, x.type)

\* An attribute is built as a scalar.
Attribute(a, b) == AddScalar(b, a.type)

RECURSIVE XmlNode(_, _)
XmlNode(x, b) ==
    LET type == IF x.nil THEN "null" ELSE x.type
        attributes == Rows(Attribute, "xmlAttribute", x.attributes, b)
        particles == Rows(XmlNode, "xmlParticle", x.children, attributes.b)
        inner == IF x.children # <<>> THEN Owner(particles, "xmlGroup", <<>>, "")
                 ELSE AddScalar(attributes.b, type)
        mixed == x.children # <<>> /\ x.text
        content == IF x.children = <<>> /\ x.attributes = <<>> THEN AddScalar(b, type)
                   ELSE Owner([b |-> inner.b, rows |-> attributes.rows], "xmlComplex",
                              <<inner.id>>, IF mixed THEN "mixed" ELSE "plain") IN
    AddNode(content.b, Node("xmlElement", <<content.id>>, 0, 0, <<x.tag, x.nil>>))

\* What is refused: a property twice in one mapping, and an explicitly nil element that has
\* content.
RECURSIVE Draftable(_)
Draftable(x) ==
    /\ x.kind = "mapping" => \A i, j \in DOMAIN x.children :
          x.children[i].tag = x.children[j].tag => i = j
    /\ x.nil => x.children = <<>> /\ ~ x.text
    /\ \A i \in DOMAIN x.children : Draftable(x.children[i])

Draft(x) ==
    LET empty == [nodes |-> <<>>, collections |-> <<>>, members |-> 0]
        built == IF x.kind = "element" THEN XmlNode(x, empty) ELSE DataNode(x, empty) IN
    IF Draftable(x) THEN [root |-> built.id, nodes |-> built.b.nodes,
                          collections |-> built.b.collections]
    ELSE Refused

-----------------------------------------------------------------------------
(* Applying operations (the server)                                         *)

MemberKinds == [object |-> "property", union |-> "option", xmlComplex |-> "xmlAttribute",
                xmlGroup |-> "xmlParticle"]
Owners(g, c) == {n \in DOMAIN g.nodes : g.nodes[n].rows = c}
OwnerOf(g, c) == CHOOSE n \in Owners(g, c) : TRUE
IdsOf(rows) == {rows[i].id : i \in DOMAIN rows}
Holder(g, m) == CHOOSE c \in DOMAIN g.collections : m \in IdsOf(g.collections[c])
Place(rows, m) == CHOOSE i \in DOMAIN rows : rows[i].id = m
MemberOf(g, m) == g.collections[Holder(g, m)][Place(g.collections[Holder(g, m)], m)]
MembersOf(g) == UNION {IdsOf(g.collections[c]) : c \in DOMAIN g.collections}

PartsOf(g, n) ==
    ToSet(g.nodes[n].parts)
        \cup (IF g.nodes[n].rows = 0 THEN {}
              ELSE {g.collections[g.nodes[n].rows][i].value :
                       i \in DOMAIN g.collections[g.nodes[n].rows]})
\* _contains: a walk from the root of a branch, each node once.
Branch(g, root) ==
    LET reached[i \in 0..Len(g.nodes)] ==
            IF i = 0 THEN {root}
            ELSE reached[i - 1] \cup UNION {PartsOf(g, n) : n \in reached[i - 1]} IN
    reached[Len(g.nodes)]

\* A property or an attribute names one field of its owner.
UniqueNames(rows) ==
    \A i, j \in DOMAIN rows :
        rows[i].kind \in {"property", "xmlAttribute"} /\ rows[j].kind = rows[i].kind
            /\ rows[i].name = rows[j].name => i = j

Checked(g, c) == IF UniqueNames(g.collections[c]) THEN g ELSE Refused
SetName(g, m, name) ==
    [g EXCEPT !.collections[Holder(g, m)][Place(g.collections[Holder(g, m)], m)].name = name]

RenameMember(g, op, kind) ==
    IF MemberOf(g, op.member).kind # kind THEN Refused
    ELSE Checked(SetName(g, op.member, op.name), Holder(g, op.member))

RenameElement(g, op) ==
    IF g.nodes[op.node].kind # "xmlElement" THEN Refused
    ELSE [g EXCEPT !.nodes[op.node].about[1] = op.name]

\* Mutant: a member may be moved into its own branch.
MovableAnywhere(g, target, to) == TRUE
Movable(g, target, to) == OwnerOf(g, to) \notin Branch(g, target.value)
Without(rows, m) == SelectSeq(rows, LAMBDA row : row.id # m)
Inserted(rows, before, row) ==
    IF before \in IdsOf(rows) THEN InsertAt(rows, Place(rows, before), row)
    ELSE Append(rows, row)

MoveMember(g, op) ==
    LET from == Holder(g, op.member)
        target == MemberOf(g, op.member)
        moved == [g EXCEPT !.collections =
            LET taken == [g.collections EXCEPT ![from] = Without(@, op.member)] IN
            [taken EXCEPT ![op.to] = Inserted(@, op.before, target)]]
        recount(n) == [n EXCEPT !.total = Len(moved.collections[n.rows])]
        counted == [moved EXCEPT !.nodes = [n \in DOMAIN @ |->
            IF @[n].rows \in {from, op.to} THEN recount(@[n]) ELSE @[n]]] IN
    IF MemberKinds[g.nodes[OwnerOf(g, op.to)].kind] # target.kind THEN Refused
    ELSE IF op.before = op.member /\ from = op.to THEN g
    ELSE IF op.before # 0 /\ op.before \notin IdsOf(g.collections[op.to]) THEN Refused
    ELSE IF ~ Movable(g, target, op.to) THEN Refused
    ELSE Checked(counted, op.to)

Apply(g, op) ==
    CASE op.kind = "renameProperty" -> RenameMember(g, op, "property")
      [] op.kind = "renameXmlAttribute" -> RenameMember(g, op, "xmlAttribute")
      [] op.kind = "renameXmlElement" -> RenameElement(g, op)
      [] op.kind = "moveMember" -> MoveMember(g, op)

Op(kind, member, node, name, to, before) ==
    [kind |-> kind, member |-> member, node |-> node, name |-> name, to |-> to, before |-> before]
Operations(g) ==
    {Op(kind, m, 0, name, 0, 0) : kind \in {"renameProperty", "renameXmlAttribute"},
                                  m \in MembersOf(g), name \in Names}
        \cup {Op("renameXmlElement", 0, n, name, 0, 0) : n \in DOMAIN g.nodes, name \in Names}
        \cup {Op("moveMember", m, 0, "", to, before) :
                 m \in MembersOf(g), to \in DOMAIN g.collections,
                 before \in MembersOf(g) \cup {0}}

-----------------------------------------------------------------------------
(* What the editor shows, and the edits it makes                            *)

\* The rows of a window: a particle has the name of the element it holds.
Label(g, row) ==
    IF row.kind = "xmlParticle" THEN g.nodes[row.value].about[1] ELSE row.name
Shown(g) ==
    [c \in DOMAIN g.collections |->
        [total |-> g.nodes[OwnerOf(g, c)].total,
         rows |-> [i \in DOMAIN g.collections[c] |->
            [id |-> g.collections[c][i].id, value |-> g.collections[c][i].value,
             label |-> Label(g, g.collections[c][i])]]]]

\* applyOperation of projection.ts.
ShownAfter(windows, op) ==
    IF op.kind = "moveMember"
    THEN LET from == CHOOSE c \in DOMAIN windows : op.member \in IdsOf(windows[c].rows)
             row == windows[from].rows[Place(windows[from].rows, op.member)]
             less == IF from = op.to THEN 0 ELSE 1
             taken == [windows EXCEPT ![from].rows = Without(@, op.member),
                                      ![from].total = @ - less] IN
         [taken EXCEPT ![op.to].rows = Inserted(@, op.before, row), ![op.to].total = @ + less]
    ELSE [c \in DOMAIN windows |-> [windows[c] EXCEPT !.rows = [i \in DOMAIN @ |->
            IF @[i].id = op.member \/ (op.kind = "renameXmlElement" /\ @[i].value = op.node)
            THEN [@[i] EXCEPT !.label = op.name] ELSE @[i]]]]

\* createRenameEdit.
RenameOf(g, m, name) ==
    LET row == MemberOf(g, m)
        op(given) ==
            CASE row.kind = "property" -> Op("renameProperty", m, 0, given, 0, 0)
              [] row.kind = "xmlAttribute" -> Op("renameXmlAttribute", m, 0, given, 0, 0)
              [] OTHER -> Op("renameXmlElement", 0, row.value, given, 0, 0) IN
    [forward |-> op(name), inverse |-> op(Label(g, row))]
Renameable(g, m) ==
    LET row == MemberOf(g, m) IN
    \/ row.kind \in {"property", "xmlAttribute"}
    \/ row.kind = "xmlParticle" /\ g.nodes[row.value].kind = "xmlElement"

\* createMoveEdit and checkMoveAncestry.  Mutant: undone to the end of the collection.
NextAtEnd(g, m) == 0
NextOf(g, m) ==
    LET rows == g.collections[Holder(g, m)] IN
    IF Place(rows, m) < Len(rows) THEN rows[Place(rows, m) + 1].id ELSE 0
MoveOf(g, m, to, before) ==
    [forward |-> Op("moveMember", m, 0, "", to, before),
     inverse |-> Op("moveMember", m, 0, "", Holder(g, m), NextOf(g, m))]
MayMove(g, m, to, before) ==
    /\ before # m
    /\ before = 0 \/ before \in IdsOf(g.collections[to])
    /\ MemberKinds[g.nodes[OwnerOf(g, to)].kind] = MemberOf(g, m).kind
    /\ Holder(g, m) # to /\ g.nodes[MemberOf(g, m).value].kind # "scalar" =>
          OwnerOf(g, to) \notin Branch(g, MemberOf(g, m).value)

Edits(g) ==
    {RenameOf(g, m, name) : m \in {x \in MembersOf(g) : Renameable(g, x)}, name \in Names}
        \cup {MoveOf(g, p[1], p[2], p[3]) : p \in
                 {p \in MembersOf(g) \X (DOMAIN g.collections) \X (MembersOf(g) \cup {0}) :
                     MayMove(g, p[1], p[2], p[3])}}

-----------------------------------------------------------------------------
Init ==
    /\ source \in Documents
    /\ graph = Draft(source)
    /\ changes = 0

Change ==
    /\ IsGraph(graph)
    /\ changes < MaxChanges
    /\ \E op \in Operations(graph) :
          LET after == Apply(graph, op) IN IsGraph(after) /\ graph' = after
    /\ changes' = changes + 1
    /\ UNCHANGED source

Next == Change
Spec == Init /\ [][Next]_vars

-----------------------------------------------------------------------------
RECURSIVE Conforms(_, _, _)
\* Whether the part x of a document is allowed by the node n of the graph g.
Conforms(g, x, n) ==
    LET node == g.nodes[n]
        rows == IF node.rows = 0 THEN <<>> ELSE g.collections[node.rows]
        inside(group) == g.collections[g.nodes[group].rows] IN
    CASE node.kind = "scalar" -> x.kind = "scalar" /\ x.type = node.about
      [] node.kind = "object" ->
            /\ x.kind = "mapping"
            /\ {x.children[i].tag : i \in DOMAIN x.children} = {rows[i].name : i \in DOMAIN rows}
            /\ \A i \in DOMAIN x.children, j \in DOMAIN rows :
                  x.children[i].tag = rows[j].name => Conforms(g, x.children[i], rows[j].value)
      [] node.kind = "union" -> \E i \in DOMAIN rows : Conforms(g, x, rows[i].value)
      [] node.kind = "array" ->
            /\ x.kind = "sequence"
            /\ node.about = "empty" => x.children = <<>>
            /\ \A i \in DOMAIN x.children : Conforms(g, x.children[i], node.parts[1])
      [] node.kind = "xmlElement" ->
            LET content == g.nodes[node.parts[1]]
                plain == content.kind = "scalar"
                attributes == IF plain THEN <<>> ELSE g.collections[content.rows]
                inner == IF plain THEN content ELSE g.nodes[content.parts[1]]
                particles == IF inner.kind = "scalar" THEN <<>>
                             ELSE g.collections[inner.rows]
                texts == [i \in DOMAIN attributes |->
                             [name |-> attributes[i].name, type |-> g.nodes[attributes[i].value].about]]
            IN
            /\ node.about = <<x.tag, x.nil>>
            /\ ToSet(texts) = {[name |-> a.tag, type |-> a.type] : a \in ToSet(x.attributes)}
            /\ Len(particles) = Len(x.children)
            /\ \A i \in DOMAIN particles : Conforms(g, x.children[i], particles[i].value)
            /\ (x.text /\ x.children # <<>>) <=> (content.about = "mixed")
            /\ x.children = <<>> => inner.about = IF x.nil THEN "null" ELSE x.type

\* The document a draft is made from is one its schema allows, with every occurrence of
\* every field (build_schema_draft_proc.py:131-251).
DraftConforms == IsGraph(graph) /\ changes = 0 => Conforms(graph, source, graph.root)

\* Whatever operations were accepted, the schema is a tree: every node but the root is held
\* once, everything is reached from the root, collections have one owner that knows their
\* number of rows, and hold rows of its kind under different names
\* (apply_schema_changes_proc.py:16-166).
GraphIsTree ==
    IsGraph(graph) =>
        /\ Branch(graph, graph.root) = DOMAIN graph.nodes
        /\ \A n \in DOMAIN graph.nodes :
              Cardinality({<<p, i>> \in (DOMAIN graph.nodes) \X (1..2) : i \in DOMAIN graph.nodes[p].parts
                              /\ graph.nodes[p].parts[i] = n})
                + Cardinality({m \in MembersOf(graph) : MemberOf(graph, m).value = n})
                = IF n = graph.root THEN 0 ELSE 1
        /\ \A c \in DOMAIN graph.collections :
              /\ Cardinality(Owners(graph, c)) = 1
              /\ graph.nodes[OwnerOf(graph, c)].total = Len(graph.collections[c])
              /\ UniqueNames(graph.collections[c])
              /\ \A i \in DOMAIN graph.collections[c] : graph.collections[c][i].kind
                    = MemberKinds[graph.nodes[OwnerOf(graph, c)].kind]

\* An edit that the editor makes is refused by the server only for a name that is taken; what
\* the editor shows of it is what the server makes of it; and its inverse gives back the
\* schema (move.ts:8-86, rename.ts:6-91, projection.ts:18-107).
EditsAgree ==
    IsGraph(graph) => \A e \in Edits(graph) :
        LET after == Apply(graph, e.forward) IN
        IF IsGraph(after)
        THEN Shown(after) = ShownAfter(Shown(graph), e.forward) /\ Apply(after, e.inverse) = graph
        ELSE \E c \in DOMAIN graph.collections :
                LET rows == ShownAfter(Shown(graph), e.forward)[c].rows IN
                \E i, j \in DOMAIN rows : i # j /\ rows[i].label = rows[j].label
\* Drafts allow their documents, and stay graphs the editor and the server agree about.
DraftsHold == DraftConforms /\ GraphIsTree /\ EditsAgree

=============================================================================

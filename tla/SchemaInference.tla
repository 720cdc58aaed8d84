----------------------------- MODULE SchemaInference -----------------------------
(***************************************************************************)
(* What is inferred from documents: they are read and normalized to fields, *)
(* fields of one parent are taken for the same where their names are alike, *)
(* and everything is counted in a space of fields, kinds and structures.     *)
(*                                                                         *)
(* A type stands for the text it is found for.  Which names are alike as     *)
(* words is a constant; what the program makes of it is not.                 *)
(***************************************************************************)
EXTENDS Integers, Sequences, FiniteSets, SequencesExt

CONSTANTS
    Collections,    \* collections of documents that are analysed
    Alike(_, _),    \* "alias", "typo" or "none": how two names are alike as words
    Opposite(_, _), \* whether two names hold words of opposite meaning
    Namespace(_),   \* the namespace of a name
    Orders,         \* the orders in which names may be looked at
    MaxDocuments, MaxNodes, MaxDepth, MaxNames      \* limits (InferenceLimits)

VARIABLES documents, step, observations, space
vars == <<documents, step, observations, space>>

-----------------------------------------------------------------------------
(* Reading and normalizing.  A document is of nodes: format, kind, tag, type, *)
(* nil, text, attributes, children.                                          *)

\* The observation of a node, of what stands inside it, and of its attributes.
Observation(name, type, position, rep, children) ==
    [name |-> name, type |-> type, position |-> position, rep |-> rep, children |-> children]

Mixed(x) == x.children # <<>> /\ x.text
AttributesOf(x, position) ==
    [i \in DOMAIN x.attributes |->
        Observation(x.attributes[i].tag, x.attributes[i].type, position, "attribute", <<>>)]

\* A blank string of JSON and YAML is null; an element with text between its elements is
\* text; a nil element has no content.
KeepsChildren(x) == x.format # "xml" \/ (~ x.nil /\ ~ Mixed(x))
TypeOf(x) ==
    IF x.format # "xml"
    THEN IF x.kind # "scalar" THEN "parent" ELSE IF x.type = "blank" THEN "null" ELSE x.type
    ELSE IF x.nil THEN "null" ELSE IF x.children # <<>> /\ ~ Mixed(x) THEN "parent" ELSE x.type

RECURSIVE Visit(_, _), Size(_), Depth(_)
Visit(x, position) ==
    LET children == [i \in DOMAIN x.children |-> Visit(x.children[i], Append(position, i))] IN
    Observation(x.tag, TypeOf(x), position,
                IF x.format = "xml" THEN "element" ELSE x.role,
                (IF KeepsChildren(x) THEN children ELSE <<>>) \o AttributesOf(x, position))

\* Everything is counted, what is left out of the result too.
Size(x) ==
    1 + Len(x.attributes)
      + FoldLeft(LAMBDA sum, child : sum + Size(child), 0, x.children)
Depth(x) == 1 + FoldLeft(LAMBDA most, child : IF Depth(child) > most THEN Depth(child) ELSE most,
                         0, x.children)

\* A mapping names a field once (the readers refuse it otherwise).
RECURSIVE Readable(_)
Readable(x) ==
    /\ x.kind = "mapping" => \A i, j \in DOMAIN x.children :
          x.children[i].tag = x.children[j].tag => i = j
    /\ \A i \in DOMAIN x.children : Readable(x.children[i])

Refused(roots) ==
    \/ Len(roots) > MaxDocuments
    \/ FoldLeft(LAMBDA sum, root : sum + Size(root), 0, roots) > MaxNodes
    \/ \E i \in DOMAIN roots : Depth(roots[i]) > MaxDepth \/ ~ Readable(roots[i])

Normalized(roots) == [i \in DOMAIN roots |-> Visit(roots[i], <<>>)]

-----------------------------------------------------------------------------
(* Matching the names of the fields of one parent.  A context is the names   *)
(* one occurrence of the parent holds.                                       *)

\* Mutant: names that occur side by side may still be one field.
Never(contexts, a, b) == FALSE
Together(contexts, a, b) == \E i \in DOMAIN contexts : a \in contexts[i] /\ b \in contexts[i]
Relation(contexts, a, b) ==
    IF a = b THEN "original"
    ELSE IF Together(contexts, a, b) \/ Namespace(a) # Namespace(b) \/ Opposite(a, b) THEN "none"
    ELSE Alike(a, b)
Related(contexts, a, b) == Relation(contexts, a, b) # "none"

\* A name whose matches disagree with each other stays on its own.  Mutant: it is merged
\* with whichever comes first.
AmbiguousNever(contexts, names, name) == FALSE
Ambiguous(contexts, names, name) ==
    \E a, b \in names \ {name} :
        /\ a # b
        /\ Related(contexts, name, a) /\ Related(contexts, name, b)
        /\ ~ Related(contexts, a, b)

\* The names in the order of priority; each that is free gathers those that are related to
\* all it has gathered.
Matches(contexts, names, order) ==
    LET clear == {name \in names : ~ Ambiguous(contexts, names, name)}
        sorted == SelectSeq(order, LAMBDA name : name \in clear)
        join(acc, name) ==
            LET open == {g \in DOMAIN acc : \A m \in acc[g] : Related(contexts, m, name)}
                first == CHOOSE g \in open : \A h \in open : g <= h IN
            IF open = {} THEN Append(acc, {name}) ELSE [acc EXCEPT ![first] = @ \cup {name}]
        groups == FoldLeft(join, <<>>, sorted)
        canonical(group) ==
            LET i == CHOOSE i \in DOMAIN sorted :
                        sorted[i] \in group /\ \A j \in 1..(i - 1) : sorted[j] \notin group
            IN sorted[i] IN
    [name \in names |->
        IF name \notin clear \/ Cardinality(names) > MaxNames THEN name
        ELSE canonical(CHOOSE group \in ToSet(groups) : name \in group)]

-----------------------------------------------------------------------------
(* Counting.  A family is what one occurrence of a parent holds: pairs of    *)
(* the document's index and an observation.                                  *)

Contexts(families) ==
    [p \in DOMAIN families |-> {families[p][i].node.name : i \in DOMAIN families[p]}]
NamesOf(families) == UNION {Contexts(families)[p] : p \in DOMAIN families}
\* The occurrences of the field that the names are taken for, in order.
Occurrences(families, matches, name) ==
    FoldLeft(LAMBDA acc, p : acc \o
                FoldLeft(LAMBDA found, x : IF matches[x.node.name] = name
                            THEN Append(found, [parent |-> p, document |-> x.document,
                                                node |-> x.node]) ELSE found,
                         <<>>, families[p]),
             <<>>, [p \in DOMAIN families |-> p])

Inside(members) ==
    [i \in DOMAIN members |->
        [k \in DOMAIN members[i].node.children |->
            [document |-> members[i].document, node |-> members[i].node.children[k]]]]

\* A structure is what an occurrence holds, whatever its order and number: the fields, each
\* with its own structure, and whether it is a value.
RECURSIVE Structure(_, _, _)
Structure(chosen, path, node) ==
    [kind |-> IF node.type = "parent" THEN "fields" ELSE "value",
     fields |-> {LET inner == Append(path, chosen[path][node.children[k].name]) IN
                 [path |-> inner, structure |-> Structure(chosen, inner, node.children[k])] :
                     k \in DOMAIN node.children}]

\* The names chosen at every path of parents.
RECURSIVE Chosen(_, _, _)
Chosen(families, path, order) ==
    LET matches == Matches(Contexts(families), NamesOf(families), order)
        below == {Chosen(Inside(Occurrences(families, matches, name)), Append(path, name), order) :
                     name \in {matches[n] : n \in NamesOf(families)}} IN
    [p \in {path} \cup UNION {DOMAIN f : f \in below} |->
        IF p = path THEN matches ELSE (CHOOSE f \in below : p \in DOMAIN f)[p]]

\* Mutant: presence counts occurrences.
PresenceOfAll(members) == Len(members)
Presence(members) == Cardinality({members[i].parent : i \in DOMAIN members})

Field(families, path, members, chosen) ==
    [path |-> path,
     occurrences |-> Len(members),
     parents |-> Len(families),
     presence |-> Presence(members),
     sources |-> [i \in DOMAIN members |->
        [document |-> members[i].document, position |-> members[i].node.position,
         name |-> members[i].node.name, rep |-> members[i].node.rep,
         type |-> members[i].node.type,
         variant |-> Structure(chosen, path, members[i].node)]]]

RECURSIVE Collect(_, _, _)
Collect(families, path, chosen) ==
    UNION {LET members == Occurrences(families, chosen[path], name)
               inner == Append(path, name) IN
           {Field(families, inner, members, chosen)} \cup Collect(Inside(members), inner, chosen) :
              name \in {chosen[path][n] : n \in NamesOf(families)}}

Space(roots, order) ==
    LET families == [d \in DOMAIN roots |-> <<[document |-> d, node |-> roots[d]]>>] IN
    Collect(families, <<>>, Chosen(families, <<>>, order))

-----------------------------------------------------------------------------
Init ==
    /\ documents \in Collections
    /\ step = "read"
    /\ observations = <<>>
    /\ space = [order |-> <<>>, fields |-> {}]

Normalize ==
    /\ step = "read"
    /\ IF Refused(documents)
       THEN step' = "failed" /\ UNCHANGED observations
       ELSE step' = "normalized" /\ observations' = Normalized(documents)
    /\ UNCHANGED <<documents, space>>

Analyze(order) ==
    /\ step = "normalized"
    /\ space' = [order |-> order, fields |-> Space(observations, order)]
    /\ step' = "analysed"
    /\ UNCHANGED <<documents, observations>>

Next == Normalize \/ \E order \in Orders : Analyze(order)
Spec == Init /\ [][Next]_vars

-----------------------------------------------------------------------------
Fields == space.fields
Analysed == step = "analysed"
FieldAt(path) == CHOOSE f \in Fields : f.path = path
Shorter(path) == SubSeq(path, 1, Len(path) - 1)
\* Where the parent of a source stands.
ParentOf(source) ==
    <<source.document,
      IF source.rep = "attribute" THEN source.position
      ELSE SubSeq(source.position, 1, Len(source.position) - 1)>>

\* Which fields are taken for the same does not depend on the order in which names are
\* looked at: two names are, if they are alike and neither is alike to names that differ
\* (match_field_names_proc.py:150-196).
MergesAreSettled ==
    step = "normalized" => \A order \in Orders :
        LET contexts == [d \in DOMAIN observations |->
                {observations[d].children[k].name : k \in DOMAIN observations[d].children}]
            names == UNION {contexts[d] : d \in DOMAIN contexts}
            matches == Matches(contexts, names, order) IN
        \A a, b \in names : Cardinality(names) <= MaxNames /\ a # b =>
            (matches[a] = matches[b]
                <=> /\ Related(contexts, a, b)
                    /\ ~ Ambiguous(contexts, names, a) /\ ~ Ambiguous(contexts, names, b))

\* Fields that stand side by side in one parent are never taken for one: what occurs more
\* than once at a place was given the same name there (match_field_names_proc.py:92-95).
SidesStayApart ==
    Analysed => \A f \in Fields : \A i, j \in DOMAIN f.sources :
        ParentOf(f.sources[i]) = ParentOf(f.sources[j])
            => Len(f.path) = 1 \/ f.sources[i].name = f.sources[j].name

\* The space agrees with its evidence, so that none of the checks its classes make can fail:
\* a field's parents are the occurrences of the field above it, its presence is the number
\* of places that hold it, what a structure names is a field there with that structure, and
\* no occurrence is counted twice or left out (observed_field.py:28-121,
\* probability_space.py:16-147).
SpaceAgrees ==
    Analysed => \A f \in Fields :
        /\ f.occurrences = Len(f.sources) /\ f.presence \in 1..f.occurrences
        /\ Cardinality({g \in Fields : g.path = f.path}) = 1
        /\ IF Len(f.path) = 1 THEN f.parents = Len(documents)
           ELSE /\ \E g \in Fields : g.path = Shorter(f.path)
                /\ f.parents = FieldAt(Shorter(f.path)).occurrences
        /\ f.presence = Cardinality({ParentOf(f.sources[i]) : i \in DOMAIN f.sources})
        /\ Cardinality({<<s.document, s.position, s.name, s.rep>> : s \in ToSet(f.sources)})
              = f.occurrences
        /\ \A i \in DOMAIN f.sources : \A child \in f.sources[i].variant.fields :
              /\ Shorter(child.path) = f.path
              /\ \E s \in ToSet(FieldAt(child.path).sources) :
                    /\ s.variant = child.structure
                    /\ ParentOf(s) = <<f.sources[i].document, f.sources[i].position>>
        /\ Len(f.path) = 1 => \A d \in DOMAIN documents : Cardinality(
              {<<g, s>> \in Fields \X UNION {ToSet(g.sources) : g \in Fields} :
                  Len(g.path) = 1 /\ s \in ToSet(g.sources) /\ s.document = d}) = 1
\* The inference neither merges what differs nor counts what is not there.
InferenceHolds == MergesAreSettled /\ SidesStayApart /\ SpaceAgrees

=============================================================================

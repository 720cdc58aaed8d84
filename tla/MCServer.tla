------------------------------- MODULE MCServer -------------------------------
(* The parts of the server that share no state with the workspace, each on its
   own on small sets, for TLC: in a behaviour only one part takes steps.  Those
   without a temporal property stand idle in the behaviours of the others. *)
EXTENDS UploadSessions, IdentityCache, Sequences

VARIABLES
    part,
    zitadel, granted, routed, published, serving, run, drawn, interrupts, resets, done,
    store, files, generator, fresh, stops,
    documents, step, observations, space,
    source, graph, changes

provisioningVars == <<zitadel, granted, routed, published, serving, run, drawn,
                      interrupts, resets, done>>
fileVars == <<store, files, generator, fresh, stops>>
inferenceVars == <<documents, step, observations, space>>
draftVars == <<source, graph, changes>>

-----------------------------------------------------------------------------
\* All tokens belong to one subject, of which there are two events: the handler f1 tells of
\* version 2, f2 of version 3.  Either they overlap, and the first one may be about everybody;
\* or the first one meets a logout and failures.
SubjectOf(t) == "u1"
VersionOf(f) == IF f = "f1" THEN 2 ELSE 3

At(f, Whom) ==
    flush[f] # Idle =>
        /\ flush[f].whom \in Whom
        /\ \A t \in DOMAIN flush[f].told : flush[f].told[t] = VersionOf(f)
EventsOverlap ==
    /\ IdentityNext
    /\ At("f1", {"u1", Everybody})' /\ At("f2", {"u1"})'
    /\ logout' = logout /\ failures' = failures
LogoutMeetsEvent ==
    IdentityNext /\ At("f1", {"u1"})' /\ flush'["f2"] = Idle

Setup == INSTANCE Provisioning WITH MaxInterrupts <- 1, MaxResets <- 1,
    provider <- zitadel

\* Three examples; the second one holds the hash of a value of the others.
Examples == << <<"a", "b">>, <<"b_hash", "a">>, <<"b">> >>
HashedOf(p) == IF p = "b_hash" THEN "b" ELSE p

Secrets == INSTANCE SecretFiles WITH
    Templates <- Examples, Hashed <- HashedOf, MaxStops <- 2

-----------------------------------------------------------------------------
(* Documents whose fields are called a, b, c, d and x. *)

Leaf(tag) ==
    [format |-> "json", kind |-> "scalar", role |-> "field", tag |-> tag,
     type |-> "string", nil |-> FALSE, text |-> FALSE, attributes |-> <<>>,
     children |-> <<>>]
Mapping(tag, fields) ==
    [Leaf(tag) EXCEPT !.kind = "mapping", !.type = "", !.children = fields]
Items(tag, items) ==
    [Mapping(tag, [i \in DOMAIN items |->
        [items[i] EXCEPT !.tag = "[]", !.role = "item"]]) EXCEPT !.kind = "sequence"]
Element(tag, text, attributes, children) ==
    [Leaf(tag) EXCEPT !.format = "xml", !.kind = "element", !.text = text,
                      !.attributes = attributes, !.children = children]
Attribute(tag) == [tag |-> tag, type |-> "integer"]

FieldLists ==
    {<<>>, <<Leaf("a")>>, <<Leaf("b")>>, <<Leaf("c")>>, <<Leaf("d")>>,
     <<Leaf("a"), Leaf("b")>>, <<Mapping("a", <<Leaf("b")>>)>>,
     <<Items("b", <<Leaf("x"), Mapping("x", <<Leaf("a")>>)>>)>>}
Elements ==
    {Element("a", FALSE, <<>>, <<>>), Element("b", FALSE, <<Attribute("a")>>, <<>>),
     Element("b", TRUE, <<>>, <<Element("a", FALSE, <<>>, <<>>)>>),
     [Element("c", TRUE, <<Attribute("b")>>, <<>>) EXCEPT !.nil = TRUE]}

\* Pairs and triples of documents, a name twice, nesting that is too deep, nothing.
DocumentLists ==
    {<<Mapping("$", x), Mapping("$", y)>> : x, y \in FieldLists}
    \cup {<<Mapping("$", <<Leaf("a")>>), Mapping("$", <<Leaf("b")>>), Mapping("$", z)>> :
             z \in FieldLists}
    \cup {<<Element("r", FALSE, <<>>, <<x, y>>),
            Element("r", FALSE, <<Attribute("a")>>, <<z>>)>> : x, y, z \in Elements}
    \cup {<<Mapping("$", <<Leaf("a"), Leaf("a")>>)>>,
          <<Mapping("$", <<Mapping("a", <<Mapping("a", <<Mapping("a", <<>>)>>)>>)>>)>>,
          <<>>}

\* a is like b, b like c, but c is not like a; d is a typo of a and the opposite of c.
AlikeAs(x, y) ==
    IF {x, y} \in {{"a", "b"}, {"b", "c"}, {"c", "x"}} THEN "alias"
    ELSE IF {x, y} = {"a", "d"} THEN "typo" ELSE "none"
OppositeTo(x, y) == {x, y} = {"c", "d"}
NamespaceOf(x) == IF x = "x" THEN "n" ELSE ""

Inference == INSTANCE SchemaInference WITH
    Collections <- DocumentLists, Alike <- AlikeAs, Opposite <- OppositeTo,
    Namespace <- NamespaceOf,
    Orders <- {<<"$", "r", "[]", "a", "b", "c", "d">>,
               <<"d", "c", "b", "a", "[]", "r", "$">>,
               <<"b", "a", "d", "c", "$", "r", "[]">>},
    MaxDocuments <- 3, MaxNodes <- 12, MaxDepth <- 3, MaxNames <- 4

-----------------------------------------------------------------------------
(* Documents as drafts see them. *)

Value(tag, type) ==
    [kind |-> "scalar", tag |-> tag, type |-> type, nil |-> FALSE, text |-> FALSE,
     attributes |-> <<>>, children |-> <<>>]
Object(tag, fields) == [Value(tag, "") EXCEPT !.kind = "mapping", !.children = fields]
Array(tag, items) == [Value(tag, "") EXCEPT !.kind = "sequence", !.children = items]
Tag(type, text, nil, attributes, children) ==
    [kind |-> "element", tag |-> "e", type |-> type, nil |-> nil, text |-> text,
     attributes |-> attributes, children |-> children]
Named(tag, type) == [tag |-> tag, type |-> type]

Values ==
    {Value("a", "string"), Array("a", <<>>),
     Array("a", <<Value("[]", "string"), Value("[]", "integer"), Value("[]", "string")>>),
     Object("a", <<Value("b", "string"), Object("c", <<>>)>>),
     Object("a", <<Value("b", "string"), Value("b", "integer")>>)}
Tags ==
    {Tag("string", TRUE, FALSE, <<>>, <<>>), Tag("null", FALSE, TRUE, <<>>, <<>>),
     Tag("integer", TRUE, FALSE, <<Named("a", "string")>>, <<>>),
     Tag("integer", TRUE, TRUE, <<>>, <<>>)}
Sources ==
    {Object("$", <<x, Value("b", "string")>>) : x \in Values}
    \cup {Array("$", <<Object("[]", <<Value("b", "string")>>), x>>) :
             x \in {Value("[]", "string"), Object("[]", <<Value("b", "string")>>),
                    Object("[]", <<Value("b", "integer")>>)}}
    \cup {Tag("null", TRUE, FALSE, <<Named("a", "string"), Named("b", "integer")>>, <<x>>) :
             x \in Tags}
    \cup {Tag("null", FALSE, FALSE, <<>>,
              <<Tag("string", TRUE, FALSE, <<>>, <<>>),
                Tag("null", FALSE, FALSE, <<Named("a", "string")>>,
                    <<Tag("string", TRUE, FALSE, <<>>, <<>>)>>)>>)}

Drafts == INSTANCE SchemaDrafts WITH
    Documents <- Sources, Names <- {"a", "b"}, MaxChanges <- 2

-----------------------------------------------------------------------------
SetupInit ==
    IF part = "setup" THEN Setup!Init
    ELSE /\ zitadel = None /\ granted = None /\ routed = None /\ published = None
         /\ serving = None /\ run = None /\ drawn = None /\ interrupts = None
         /\ resets = None /\ done = None
SecretsInit ==
    IF part = "secrets" THEN Secrets!Init
    ELSE store = None /\ files = None /\ generator = None /\ fresh = None /\ stops = None
InferenceInit ==
    IF part = "inference" THEN Inference!Init
    ELSE documents = None /\ step = None /\ observations = None /\ space = None
DraftsInit ==
    IF part = "drafts" THEN Drafts!Init
    ELSE source = None /\ graph = None /\ changes = None

ServerInit ==
    /\ part \in {"events", "logouts", "uploads", "setup", "secrets", "inference", "drafts"}
    /\ IdentityInit /\ Init
    /\ SetupInit /\ SecretsInit /\ InferenceInit /\ DraftsInit

ServerNext ==
    /\ UNCHANGED part
    /\ \/ /\ \/ part = "events" /\ EventsOverlap
             \/ part = "logouts" /\ LogoutMeetsEvent
          /\ UNCHANGED <<vars, provisioningVars, fileVars, inferenceVars, draftVars>>
       \/ /\ part = "uploads" /\ Next
          /\ UNCHANGED <<identityVars, provisioningVars, fileVars, inferenceVars, draftVars>>
       \/ /\ part = "setup" /\ Setup!Next
          /\ UNCHANGED <<identityVars, vars, fileVars, inferenceVars, draftVars>>
       \/ /\ part = "secrets" /\ Secrets!Next
          /\ UNCHANGED <<identityVars, vars, provisioningVars, inferenceVars, draftVars>>
       \/ /\ part = "inference" /\ Inference!Next
          /\ UNCHANGED <<identityVars, vars, provisioningVars, fileVars, draftVars>>
       \/ /\ part = "drafts" /\ Drafts!Next
          /\ UNCHANGED <<identityVars, vars, provisioningVars, fileVars, inferenceVars>>

serverVars ==
    <<part, identityVars, vars, provisioningVars, fileVars, inferenceVars, draftVars>>

ServerSpec ==
    ServerInit /\ [][ServerNext]_serverVars /\ Fairness

-----------------------------------------------------------------------------
\* Of the deployment: credentials that were published work, and generated files agree.
SecretsAgree ==
    /\ part = "setup" => Setup!PublishedWork
    /\ part = "secrets" => Secrets!FilesAgree

\* Of the inference: what is alike is merged whatever the order, what stands side by side
\* is not, and the space agrees with its evidence.
InferenceHolds == part = "inference" => Inference!InferenceHolds

\* Of drafts: they allow the document they were made from, and every batch of operations
\* leaves a tree of which the editor and the server think alike.
DraftsHold == part = "drafts" => Drafts!DraftsHold
=============================================================================

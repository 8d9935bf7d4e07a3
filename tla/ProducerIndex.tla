------------------------------ MODULE ProducerIndex -----------------------------
(* How extract.py resolves a use of a contract in a consumer's code to the producer *)
(* it is of: by name, among the producers the graph knows.                          *)
EXTENDS GraphStore, Routes

CONSTANTS
    OwnerOf,        \* the service of each entity id
    NameOf,         \* what each declaration calls its contract
    IdRank,         \* the place of each entity id in the order of all_entities
    Uses,           \* the uses in consumers' code: [service, file, by, name]
    Spellings       \* paths as calls may be spelled

\* extract.HTTP_METHODS, upper-cased.
Methods == {"GET", "POST", "PUT", "DELETE", "PATCH"}
RouteNames == [method : Methods, path : Paths]

\* The name of a route is a method and a path, and so is that of a call; the other names
\* are plain.
ASSUME IndexAssumption ==
    /\ DOMAIN OwnerOf = Entities
    /\ DOMAIN NameOf = Entities
    /\ IdRank \in [Entities -> Nat]
    /\ \A e \in Entities : KindOf[e] = "http_route" => NameOf[e] \in RouteNames
    /\ \A use \in Uses :
        use.service \in Services /\ use.file \in Files /\ use.by \in ConsumerTags
    /\ \A use \in Uses : use.by = "call" => use.name \in RouteNames
    /\ Spellings \subseteq Paths
    /\ \A p \in Spellings : WellFormed(p)

RouteName(name) == [name EXCEPT !.path = Normalize(@)]

\* parse_id(entity_id)[2]
LocalName(e) == IF KindOf[e] = "http_route" THEN RouteName(NameOf[e]) ELSE NameOf[e]

\* What a use is looked up by: a call through its normalised path.
Wanted(use) ==
    IF use.by = "call" THEN RouteName([use.name EXCEPT !.path = PathOf(@)]) ELSE use.name
Recognised(use) == use.by = "call" => HasPath(use.name.path)

Named(kind, name) == {e \in DOMAIN entities : KindOf[e] = kind /\ LocalName(e) = name}

\* The index is filled in the order of all_entities and keeps the last of a name; schemas
\* are filled in after the exports.
LastById(S) == {e \in S : \A other \in S : IdRank[other] <= IdRank[e]}
Symbol(name) ==
    LET schemas == Named("schema_model", name)
    IN  LastById(IF schemas = {} THEN Named("export", name) ELSE schemas)

Producer(use) ==
    CASE use.by = "call" -> LastById(Named("http_route", Wanted(use)))
      [] use.by = "import" -> Symbol(Wanted(use))
      [] use.by = "subscribe" -> LastById(Named("queue_topic", Wanted(use)))

EdgeKind(use, e) ==
    CASE use.by = "call" -> "consumes"
      [] use.by = "import" /\ KindOf[e] = "schema_model" -> "depends_on_schema"
      [] use.by = "import" /\ KindOf[e] # "schema_model" -> "imports"
      [] use.by = "subscribe" -> "subscribes"

UsedKinds(use) ==
    CASE use.by = "call" -> {"http_route"}
      [] use.by = "import" -> {"export", "schema_model"}
      [] use.by = "subscribe" -> {"queue_topic"}

\* The links a use resolves to: none when no producer has the name, and none when it is
\* the service's own.
LinksAlsoToSelf(use) ==
    {<<use.service, e, EdgeKind(use, e)>> :
        e \in {x \in Producer(use) : Recognised(use)}}

LinksOf(use) ==
    {<<use.service, e, EdgeKind(use, e)>> :
        e \in {x \in Producer(use) : Recognised(use) /\ OwnerOf[x] # use.service}}
=================================================================================

------------------------------- MODULE MCTimeline -------------------------------
(* A small organisation: payments serves a route that returns a model of contracts,  *)
(* and orders calls the route and imports the model.                                *)
EXTENDS Timeline, TLC

CONSTANTS Route, Model

Org == {Route, Model}
OrgKinds == (Route :> "http_route") @@ (Model :> "schema_model")
OrgModels == (Route :> Model) @@ (Model :> NoEntity)
OneFileEach == (Route :> {2}) @@ (Model :> {1})
RouteOnly == {Route}
RouteKind == (Route :> "http_route")
RouteModel == (Route :> NoEntity)
RouteFile == (Route :> {2})
Charge == [method |-> "POST", path |-> <<"", "v1", "charge">>]
RouteOwner == (Route :> "payments")
RoutesName == (Route :> Charge)
RouteRank == (Route :> 2)
OrgOwner == RouteOwner @@ (Model :> "contracts")
OrgName == RoutesName @@ (Model :> "Charge")
OrgRank == RouteRank @@ (Model :> 1)
RouteLinks == {<<"orders", Route, "consumes">>}
OrgLinks == {<<"orders", Route, "consumes">>, <<"orders", Model, "depends_on_schema">>}
AnyManifest == {{}, RouteLinks}
OwnNameOnly == [s \in Services |-> {s}]

\* The same organisation with a parameter in the route, which payments calls, too.
AnyParameter == {"{}", "{id}", ":id", "7"}
ParameterName == (Route :> [method |-> "GET", path |-> <<"", "charge", "{id}">>])
AnyLinks == RouteLinks \cup {<<"payments", Route, "consumes">>}
Call(service, file, path) ==
    [service |-> service, file |-> file, by |-> "call",
     name |-> [method |-> "GET", path |-> path]]
OwnCall == {Call("payments", 2, <<"", "charge", "7">>)}
Calls == {Call("orders", 4, <<Runtime, "charge", ":id", "">>)} \cup OwnCall
ShapeSymmetry == Permutations(Shapes)

\* Paths of up to four segments, each nothing, a word or a parameter.
ShortPaths == UNION {[1 .. n -> {"", "charge", "{id}", ":id"}] : n \in 1 .. 4}

ShortSpellings == {p \in ShortPaths : WellFormed(p)}
=================================================================================

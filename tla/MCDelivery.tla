------------------------------- MODULE MCDelivery -------------------------------
(* One route of payments, consumed by orders. *)
EXTENDS Delivery, TLC

CONSTANT Route

RouteOnly == {Route}
RouteKind == (Route :> "http_route")
RouteModel == (Route :> NoEntity)
RouteFile == (Route :> {2})
RouteOwner == (Route :> "payments")
RoutesName == (Route :> [method |-> "POST", path |-> <<"", "v1", "charge">>])
RouteRank == (Route :> 2)
RouteLinks == {<<"orders", Route, "consumes">>}
AnyManifest == {{}, RouteLinks}
RouteManifest == {RouteLinks}
OwnNameOnly == [s \in Services |-> {s}]
SessionSymmetry == Permutations(Sessions)
=================================================================================

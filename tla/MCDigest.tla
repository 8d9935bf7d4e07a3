-------------------------------- MODULE MCDigest --------------------------------
(* One route of web_pay, whose name as a pattern matches that of web-pay.  The        *)
(* manifest of web-pay declares it and the code of web-pay calls it, with another     *)
(* parameter name and a trailing slash; web_pay calls it, too.                        *)
EXTENDS Digest, TLC

CONSTANT Route

RouteOnly == {Route}
RouteKind == (Route :> "http_route")
RouteModel == (Route :> NoEntity)
RouteFile == (Route :> {2})
RouteOwner == (Route :> "web_pay")
RoutesName == (Route :> [method |-> "GET", path |-> <<"", "charge", "{id}">>])
RouteRank == (Route :> 1)
Consumers == {<<s, Route, "consumes">> : s \in {"web-pay", "web_pay"}}
ConsumerManifest == {{<<"web-pay", Route, "consumes">>}}
NameAsPattern == ("web-pay" :> {"web-pay"}) @@ ("web_pay" :> Services)
Call(service, file, path) ==
    [service |-> service, file |-> file, by |-> "call",
     name |-> [method |-> "GET", path |-> path]]
Calls == {Call("web-pay", 4, <<Runtime, "charge", ":id", "">>),
          Call("web_pay", 2, <<"", "charge", "7">>)}
AnyParameter == {"{}", "{id}", ":id", "7"}
ShapeSymmetry == Permutations(Shapes)
=================================================================================

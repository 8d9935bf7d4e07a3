--------------------------------- MODULE Routes ---------------------------------
(* How ids.normalize_route makes the route that a service declares and the one that *)
(* a consumer calls the same name.  A path is what path.split("/") gives: the        *)
(* sequence of its segments, "" wherever a slash has nothing before or after it.    *)
EXTENDS Naturals, Sequences

CONSTANTS
    Parameters,     \* segments that stand for any value: {name}, :name, digits
    Words,          \* the other segments
    Runtime         \* an interpolated expression of an f-string

Empty == ""
Placeholder == "{}"

ASSUME RoutesAssumption ==
    /\ Placeholder \in Parameters
    /\ Empty \notin Parameters \cup Words
    /\ Runtime \notin Parameters \cup Words \cup {Empty}

Segments == Parameters \cup Words \cup {Empty, Runtime}

\* What path.split("/") gives: one segment at least.
Paths == Seq(Segments) \ {<<>>}

Root == <<Empty, Empty>>                                        \* "/"

\* "if not path.startswith('/')"
Rooted(path) ==
    IF Len(path) > 1 /\ path[1] = Empty THEN path ELSE <<Empty>> \o path

\* path.rstrip("/"): the segments up to the last one with something in it.
Written(path) == {i \in 1 .. Len(path) : path[i] # Empty}
LastWritten(path) ==
    IF Written(path) = {} THEN 1
    ELSE CHOOSE i \in Written(path) : \A j \in Written(path) : j <= i
WithoutOneTrailing(path) ==
    IF path # Root /\ path[Len(path)] = Empty THEN SubSeq(path, 1, Len(path) - 1) ELSE path

WithoutTrailing(path) == IF path = Root THEN path ELSE SubSeq(path, 1, LastWritten(path))

\* A parameter, whatever its name or value, is erased to "{}".
Erased(path) ==
    [i \in 1 .. Len(path) |-> IF path[i] \in Parameters THEN Placeholder ELSE path[i]]

NormalizeKeepingTrailing(path) == Erased(Rooted(path))

\* normalize_route, but for the method, which is upper-cased on both sides.
Normalize(path) == Erased(WithoutTrailing(Rooted(path)))

\* _url_path_from_arg and _path_of: interpolated parts vanish, and the path begins at the
\* first slash.  Without a slash there is no path and no call is recognised.
HasPath(url) == Len(url) > 1
PathOf(url) ==
    [i \in 1 .. Len(url) |-> IF i = 1 \/ url[i] = Runtime THEN Empty ELSE url[i]]

-----------------------------------------------------------------------------
(* What it is for. *)

\* Two paths are the same route when what is written in them matches part by part, in
\* order, two parameters counting as the same part.
SamePart(a, b) == a = b \/ {a, b} \subseteq Parameters
SameRoute(p, q) ==
    \E match \in [Written(p) -> Written(q)] :
        /\ \A j \in Written(q) : \E i \in Written(p) : match[i] = j
        /\ \A i, j \in Written(p) : i < j => match[i] < match[j]
        /\ \A i \in Written(p) : SamePart(p[i], q[match[i]])

\* No slash is doubled but at the end of a path that has a part.
WellFormed(path) ==
    /\ path # << >>
    /\ Len(path) <= 2 \/ Written(path) # {}
    /\ \A i, j \in 2 .. Len(path) : path[i] = Empty /\ i < j => path[j] = Empty
=================================================================================

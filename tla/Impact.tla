--------------------------------- MODULE Impact ---------------------------------
(* orgctx impact: from the files of a diff to the entities it touches, and through   *)
(* the interface graph to what affects a service (entities it consumes) and whom it  *)
(* may break (consumers of entities it owns).  It only reads, one query at a time,   *)
(* while commits, extract and ingest go on.                                          *)
EXTENDS Timeline

CONSTANT MaxDigests     \* bound on the number of digests computed

ASSUME DigestAssumption == MaxDigests \in Nat

VARIABLES
    impact,         \* the impact process
    digests         \* how many digests were started

\* touched = entities the diff implicates; asked = those still to go through; links = the
\* edges in hand (the service's own, then the inbound ones of an entity); up, down = the
\* entries so far.  ready and diff observe the start: the commit whose tree had been
\* extracted, if ingest had completed the diff, and the commits of the diff.
Blank == [pc |-> "idle", service |-> NoService, files |-> {}, touched |-> {}, asked |-> {},
          links |-> {}, up |-> {}, down |-> {}, ready |-> NoCommit, diff |-> {}]

\* An entry: the entity, the rowid of the event it tells, and the consumer's edge.
Entry == [entity : Entities, event : Nat, edge : Links]

ImpactInit == impact = Blank

\* _diff_files: a commit's own files, or those that differ between the ends of a range.
DiffFiles(lo, hi) ==
    IF hi = lo + 1 THEN {history[hi].changed}
    ELSE {files \in SUBSET UNION {history[c].changed : c \in lo + 1 .. hi} :
            DiffersIn(TreeAt(lo), TreeAt(hi)) \subseteq files}

\* _touched_entity_ids: entities defined in a changed file ...  The commits of a diff do
\* not change, so git diff needs no step of its own.
StartImpact(s, lo, hi) ==
    /\ impact.pc = "idle"
    /\ digests < MaxDigests
    /\ lo < hi
    /\ \E files \in DiffFiles(lo, hi) :
        impact' = [Blank EXCEPT !.pc = "edges", !.service = s, !.files = files,
            !.touched = {e \in DOMAIN entities : entities[e].def_file \in files},
            !.ready = IF lo + 1 .. hi \subseteq done THEN extracted ELSE NoCommit,
            !.diff = lo + 1 .. hi]
    /\ digests' = digests + 1

\* ... and producers of edges whose consuming file changed.
EditedUses(files) ==
    {l[2] : l \in {x \in DOMAIN edges : edges[x].from_file \in files}}

OnlyTouchedByEdges ==
    /\ impact.pc = "edges"
    /\ impact' = [impact EXCEPT !.pc = "outbound", !.touched = EditedUses(impact.files)]
    /\ UNCHANGED digests

TouchedByEdges ==
    /\ impact.pc = "edges"
    /\ impact' = [impact EXCEPT !.pc = "outbound",
            !.touched = @ \cup EditedUses(impact.files)]
    /\ UNCHANGED digests

\* my_edges: a dict by producer, so one edge per producer, whichever comes last.
Outbound ==
    /\ impact.pc = "outbound"
    /\ impact' = [impact EXCEPT !.pc = "upstream",
            !.links = OutboundEdges(impact.service),
            !.asked = impact.touched \cap {l[2] : l \in OutboundEdges(impact.service)}]
    /\ UNCHANGED digests

\* _latest_surface_event, as a set: empty when there is none.
Surfacing(e) == {i \in EventsFor(e) : events[i].kind \in SurfaceKinds}
LatestEvent(e) == {i \in EventsFor(e) : \A j \in EventsFor(e) : j <= i}
OldestEventIfSurfacing(e) ==
    {i \in EventsFor(e) : Surfacing(e) # {} /\ \A j \in EventsFor(e) : i <= j}
LatestSurfaceEvent(e) == {i \in Surfacing(e) : \A j \in Surfacing(e) : j <= i}

\* _entry_for
EntriesFor(e, l) ==
    {[entity |-> e, event |-> i, edge |-> l] :
        i \in {x \in LatestSurfaceEvent(e) : e \in DOMAIN entities}}

UpstreamEntry(e) ==
    /\ impact.pc = "upstream"
    /\ e \in impact.asked
    /\ \E l \in {x \in impact.links : x[2] = e} :
        impact' = [impact EXCEPT !.asked = @ \ {e}, !.up = @ \cup EntriesFor(e, l)]
    /\ UNCHANGED digests

\* The entities the service owns, by the rows they have now.
OwnedTouched ==
    /\ impact.pc = "upstream"
    /\ impact.asked = {}
    /\ impact' = [impact EXCEPT !.pc = "downstream", !.links = {},
            !.asked = {e \in impact.touched \cap DOMAIN entities :
                        OwnerOf[e] = impact.service}]
    /\ UNCHANGED digests

\* The consumers of the next owned entity; a service is not told of itself.
InboundOf(e) ==
    /\ impact.pc = "downstream"
    /\ impact.links = {}
    /\ e \in impact.asked
    /\ impact' = [impact EXCEPT !.asked = @ \ {e},
            !.links = {l \in InboundEdges(e) : l[1] # impact.service}]
    /\ UNCHANGED digests

DownstreamEntry(l) ==
    /\ impact.pc = "downstream"
    /\ l \in impact.links
    /\ impact' = [impact EXCEPT !.links = @ \ {l}, !.down = @ \cup EntriesFor(l[2], l)]
    /\ UNCHANGED digests

\* All entries are there: the digest is printed, and the process exits.
ImpactComplete ==
    /\ impact.pc = "downstream"
    /\ impact.asked = {}
    /\ impact.links = {}

PrintImpact ==
    /\ ImpactComplete
    /\ impact' = Blank
    /\ UNCHANGED digests

ImpactStep ==
    \/ TouchedByEdges
    \/ Outbound
    \/ \E e \in Entities : UpstreamEntry(e)
    \/ OwnedTouched
    \/ \E e \in Entities : InboundOf(e)
    \/ \E l \in Links : DownstreamEntry(l)
    \/ PrintImpact
=================================================================================

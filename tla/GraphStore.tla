------------------------------- MODULE GraphStore -------------------------------
(* The SQLite graph, orgctx/db.py: four tables and the methods that read and write  *)
(* them.  Every writing method commits before it returns, so each is one atomic     *)
(* step, and none deletes a row.  The column entities.state_summary, which only     *)
(* compact writes, is modelled in Compact.                                          *)
EXTENDS GitHistory

CONSTANTS
    Services,       \* consumers of contracts
    Links,          \* the edges that may exist: <<service, producer, edge kind>>
    NamesLike       \* the services whose names match a service's as a LIKE pattern

\* In a pattern "_" stands for any character and "%" for any text, and the case of ASCII
\* letters makes no difference; a name matches itself.
ASSUME StoreAssumption ==
    /\ Links \subseteq Services \X Entities \X EdgeKinds
    /\ ManifestSets \subseteq SUBSET Links
    /\ NamesLike \in [Services -> SUBSET Services]
    /\ \A s \in Services : s \in NamesLike[s]

VARIABLES
    entities,       \* rows of the entities table, by entity id
    events,         \* rows of change_events, in rowid order
    edges,          \* rows of interface_edges, by (from, to, kind)
    sync_state      \* last_synced_commit of each service, NoCommit when it has no row

store == <<entities, events, edges, sync_state>>

NoFile == 0         \* NULL in from_file
NoService == ""     \* None where a service may be named

EntityRow == [signature : Signatures, def_file : Files,
              origin_commit : Nat, latest_commit : Nat]
EventRow == [entity : Entities, commit : Nat \ {0}, kind : ChangeKinds,
             breaking : BOOLEAN, file : Files]
EdgeRow == [confidence : Confidences, source : EdgeSources,
            from_file : Files \cup {NoFile}]

StoreTypeOK ==
    /\ DOMAIN entities \subseteq Entities
    /\ entities \in [DOMAIN entities -> EntityRow]
    /\ events \in Seq(EventRow)
    /\ DOMAIN edges \subseteq Links
    /\ edges \in [DOMAIN edges -> EdgeRow]
    /\ sync_state \in [Services -> Nat]

StoreInit ==
    /\ entities = [e \in {} |-> e]
    /\ events = << >>
    /\ edges = [l \in {} |-> l]
    /\ sync_state = [s \in Services |-> NoCommit]

\* SQL's COALESCE over commit columns.
Coalesce(a, b) == IF a = NoCommit THEN b ELSE a

-----------------------------------------------------------------------------
(* entities *)

OriginOf(e) == IF e \in DOMAIN entities THEN entities[e].origin_commit ELSE NoCommit
LatestOf(e) == IF e \in DOMAIN entities THEN entities[e].latest_commit ELSE NoCommit

UpsertEntityNullingLatest(e, signature, file, origin, latest) ==
    entities' = [x \in DOMAIN entities \cup {e} |->
        IF x # e THEN entities[x]
        ELSE [signature |-> signature, def_file |-> file,
              origin_commit |-> Coalesce(OriginOf(e), origin),
              latest_commit |-> latest]]

UpsertEntityClobbering(e, signature, file, origin, latest) ==
    entities' = [x \in DOMAIN entities \cup {e} |->
        IF x # e THEN entities[x]
        ELSE [signature |-> signature, def_file |-> file,
              origin_commit |-> Coalesce(origin, OriginOf(e)),
              latest_commit |-> Coalesce(latest, LatestOf(e))]]

\* Insert, or refresh the descriptive columns.  The origin is kept once set; a NULL
\* latest leaves the stored one.
UpsertEntity(e, signature, file, origin, latest) ==
    entities' = [x \in DOMAIN entities \cup {e} |->
        IF x # e THEN entities[x]
        ELSE [signature |-> signature, def_file |-> file,
              origin_commit |-> Coalesce(OriginOf(e), origin),
              latest_commit |-> Coalesce(latest, LatestOf(e))]]

\* UPDATE ... WHERE entity_id = e: the latest pointer is overwritten whatever it was.
SetCommitBounds(e, origin, latest) ==
    entities' = [x \in DOMAIN entities |->
        IF x # e THEN entities[x]
        ELSE [entities[x] EXCEPT !.origin_commit = Coalesce(@, origin),
                                 !.latest_commit = latest]]

-----------------------------------------------------------------------------
(* change_events *)

HasEvent(e, c, k) ==
    \E i \in DOMAIN events :
        events[i].entity = e /\ events[i].commit = c /\ events[i].kind = k

AddEventAlways(ev) == events' = Append(events, ev)

AddEventOncePerEntityKind(ev) ==
    events' = IF \E i \in DOMAIN events :
                    events[i].entity = ev.entity /\ events[i].kind = ev.kind
              THEN events
              ELSE Append(events, ev)

AddEventReplacing(ev) ==
    events' = Append(SelectSeq(events, LAMBDA old : old.entity # ev.entity
                                                     \/ old.commit # ev.commit
                                                     \/ old.kind # ev.kind), ev)

\* INSERT ... ON CONFLICT(entity_id, commit_sha, change_kind) DO NOTHING.
AddEvent(ev) ==
    events' = IF HasEvent(ev.entity, ev.commit, ev.kind)
              THEN events
              ELSE Append(events, ev)

\* events_for: the rowids of an entity's events, in rowid order.
EventsFor(e) == {i \in DOMAIN events : events[i].entity = e}

-----------------------------------------------------------------------------
(* interface_edges *)

UpsertEdgeWithoutInsert(l, confidence, source, file) ==
    edges' = [x \in DOMAIN edges \cup {l} |->
        IF x # l THEN edges[x]
        ELSE IF file # NoFile
             THEN [confidence |-> confidence, source |-> source, from_file |-> file]
             ELSE [confidence |-> IF l \in DOMAIN edges THEN edges[l].confidence
                                  ELSE "null",
                   source |-> source, from_file |-> file]]

UpsertEdgeLastWins(l, confidence, source, file) ==
    edges' = [x \in DOMAIN edges \cup {l} |->
        IF x # l THEN edges[x]
        ELSE [confidence |-> confidence, source |-> source, from_file |-> file]]

\* Insert; on conflict adopt confidence and source only from a row that carries a
\* code location, and never lose the location.
UpsertEdge(l, confidence, source, file) ==
    edges' = [x \in DOMAIN edges \cup {l} |->
        IF x # l THEN edges[x]
        ELSE IF l \notin DOMAIN edges \/ file # NoFile
             THEN [confidence |-> confidence, source |-> source, from_file |-> file]
             ELSE edges[l]]

HasInboundCodeEdge(e) ==
    \E l \in DOMAIN edges : l[2] = e /\ edges[l].confidence = "high"

HasInboundEdge(e) == \E l \in DOMAIN edges : l[2] = e
InboundEdges(e) == {l \in DOMAIN edges : l[2] = e}

\* outbound_edges_for_service: WHERE from_entity LIKE 's::%'.
OutboundEdges(s) == {l \in DOMAIN edges : l[1] \in NamesLike[s]}

-----------------------------------------------------------------------------
(* sync_state *)

SetLastSynced(s, c) == sync_state' = [sync_state EXCEPT ![s] = c]
=================================================================================

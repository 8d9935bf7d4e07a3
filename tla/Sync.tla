---------------------------------- MODULE Sync ----------------------------------
(* orgctx sync: write a service's UPSTREAM.md from the events on the producers it    *)
(* consumes that are newer than its marker, then advance the marker to HEAD.         *)
(* Sessions run concurrently with each other and with extract and ingest, and each   *)
(* read of git or of the database is a step of its own.                              *)
EXTENDS GraphStore

CONSTANTS
    Sessions,       \* agent sessions that may run sync
    MaxSyncs        \* bound on the number of sync invocations

ASSUME SyncAssumption == MaxSyncs \in Nat

VARIABLES
    sync,           \* the sync process of each session
    syncs,          \* how many times one was started
    delivered       \* observer: rowids of the events each service was ever shown

syncVars == <<sync, syncs, delivered>>

\* until = HEAD when the log was read; links = edges still to go through;
\* found = rowids of the events collected so far.
NotSyncing == [pc |-> "idle", service |-> NoService, head |-> NoCommit, since |-> NoCommit,
               until |-> NoCommit, links |-> {}, found |-> {}]

SyncProcess ==
    [pc : {"idle", "marker", "log", "edges", "collect", "mark"},
     service : Services \cup {NoService}, head : Nat, since : Nat, until : Nat,
     links : SUBSET Links, found : SUBSET Nat]

SyncInit ==
    /\ sync = [p \in Sessions |-> NotSyncing]
    /\ syncs = 0
    /\ delivered = [s \in Services |-> {}]

\* head = rev_parse(repo, "HEAD")
BeginSync(p, s) ==
    /\ sync[p].pc = "idle"
    /\ HEAD # NoCommit
    /\ sync' = [sync EXCEPT ![p] = [NotSyncing EXCEPT !.pc = "marker", !.service = s,
                                                      !.head = HEAD]]
    /\ UNCHANGED <<store, delivered>>

StartSync(p, s) ==
    /\ syncs < MaxSyncs
    /\ BeginSync(p, s)
    /\ syncs' = syncs + 1

SyncMarker(p) ==
    /\ sync[p].pc = "marker"
    /\ sync' = [sync EXCEPT ![p] =
                    [@ EXCEPT !.pc = "log", !.since = sync_state[sync[p].service]]]
    /\ UNCHANGED <<store, syncs, delivered>>

\* _commits_after: the commits of since..HEAD, as HEAD is by now.
SyncLog(p) ==
    /\ sync[p].pc = "log"
    /\ sync' = [sync EXCEPT ![p] = [@ EXCEPT !.pc = "edges", !.until = HEAD]]
    /\ UNCHANGED <<store, syncs, delivered>>

SyncEdges(p) ==
    /\ sync[p].pc = "edges"
    /\ sync' = [sync EXCEPT ![p] = [@ EXCEPT !.pc = "collect",
                                             !.links = OutboundEdges(sync[p].service)]]
    /\ UNCHANGED <<store, syncs, delivered>>

InWindowBeforeHead(p, c) ==
    sync[p].since = NoCommit \/ (sync[p].since < c /\ c < sync[p].until)

\* Without a marker there is no window: everything is new.
InWindow(p, c) ==
    sync[p].since = NoCommit \/ (sync[p].since < c /\ c <= sync[p].until)

SurfacedProducers(p, e) ==
    IF \E i \in EventsFor(e) : InWindow(p, events[i].commit) THEN {e} ELSE {}

\* The events of one edge's producer, if the graph has the producer at all.
Surfaced(p, e) ==
    IF e \notin DOMAIN entities THEN {}
    ELSE {i \in EventsFor(e) : /\ events[i].kind \in SurfaceKinds
                               /\ InWindow(p, events[i].commit)}

SyncCollect(p, l) ==
    /\ sync[p].pc = "collect"
    /\ l \in sync[p].links
    /\ sync' = [sync EXCEPT ![p] =
                    [@ EXCEPT !.links = sync[p].links \ {l},
                              !.found = sync[p].found \cup Surfaced(p, l[2])]]
    /\ UNCHANGED <<store, syncs, delivered>>

\* UPSTREAM.md is replaced by the ranked entries, and OWNED.md is rewritten.
SyncWrite(p) ==
    /\ sync[p].pc = "collect"
    /\ sync[p].links = {}
    /\ sync' = [sync EXCEPT ![p].pc = "mark"]
    /\ delivered' = [delivered EXCEPT ![sync[p].service] = @ \cup sync[p].found]
    /\ UNCHANGED <<store, syncs>>

SyncMarkLateHead(p) ==
    /\ sync[p].pc = "mark"
    /\ SetLastSynced(sync[p].service, HEAD)
    /\ sync' = [sync EXCEPT ![p] = NotSyncing]
    /\ UNCHANGED <<entities, events, edges, syncs, delivered>>

SyncMarkIfNews(p) ==
    /\ sync[p].pc = "mark"
    /\ IF sync[p].found = {} THEN UNCHANGED sync_state
       ELSE SetLastSynced(sync[p].service, sync[p].head)
    /\ sync' = [sync EXCEPT ![p] = NotSyncing]
    /\ UNCHANGED <<entities, events, edges, syncs, delivered>>

SyncMark(p) ==
    /\ sync[p].pc = "mark"
    /\ SetLastSynced(sync[p].service, sync[p].head)
    /\ sync' = [sync EXCEPT ![p] = NotSyncing]
    /\ UNCHANGED <<entities, events, edges, syncs, delivered>>

SyncCrash(p) ==
    /\ sync[p].pc # "idle"
    /\ sync' = [sync EXCEPT ![p] = NotSyncing]
    /\ UNCHANGED <<store, syncs, delivered>>

SyncStep(p) ==
    \/ SyncMarker(p)
    \/ SyncLog(p)
    \/ SyncEdges(p)
    \/ \E l \in Links : SyncCollect(p, l)
    \/ SyncWrite(p)
    \/ SyncMark(p)
=================================================================================

-------------------------------- MODULE Timeline --------------------------------
(* Git, extract and ingest together: commits keep arriving while orgctx builds the  *)
(* timelines, in whatever order its two commands are run.                           *)
EXTENDS Ingest, Extract

CONSTANTS
    ExtractFirst,   \* TRUE: a commit is ingested after an extract of its tree or a later one,
                    \* and no digest is computed before the first extract
    InOrder         \* TRUE: a range never starts beyond what is already ingested

ASSUME TimelineAssumption == ExtractFirst \in BOOLEAN /\ InOrder \in BOOLEAN

vars == <<history, store, ingVars, extVars>>

Init ==
    /\ GitInit
    /\ StoreInit
    /\ IngestInit
    /\ ExtractInit

DeveloperCommits == GitNext /\ UNCHANGED <<store, ingVars, extVars>>

RunIngest(lo, hi) ==
    /\ ExtractFirst => hi <= extracted
    /\ InOrder => 1 .. lo \subseteq done
    /\ StartIngest(lo, hi)

IngestNext ==
    /\ \/ \E lo \in 0 .. HEAD, hi \in Commits : RunIngest(lo, hi)
       \/ IngestStep
       \/ IngestCrash
    /\ UNCHANGED <<history, extVars>>

ExtractNext ==
    /\ StartExtract \/ ExtractStep \/ ExtractCrash
    /\ UNCHANGED <<history, ingVars>>

Next == DeveloperCommits \/ IngestNext \/ ExtractNext

Spec == Init /\ [][Next]_vars

-----------------------------------------------------------------------------
(* Invariants. *)

\* Every table and both processes hold values of their types (db.SCHEMA and the
\* dataclasses of models), and the observed commits exist.
TypeOK == GitTypeOK /\ StoreTypeOK /\ IngestTypeOK /\ ExtractTypeOK

Recorded(c, s) ==
    \E i \in DOMAIN events :
        /\ events[i].entity = s[2]
        /\ events[i].commit = c
        /\ RealLLM \/ events[i].kind = Structural(c, s[1], s[2])

\* Once some ingest has gone through a commit to the end, every entity that commit
\* changed in the files it lists has its event on the timeline, whatever crashes,
\* overlapping ranges and concurrent extracts came in between (db.add_event "re-ingesting
\* a commit range is safe").
CompletedCommitsRecorded == \A c \in done : \A s \in Work(c) : Recorded(c, s)

\* No (entity, commit, kind) is on a timeline twice, and every event is about something
\* its commit really did: retries neither duplicate nor invent history (db.py: "Every
\* write path is idempotent").
EventsExact ==
    /\ \A i, j \in DOMAIN events :
        /\ events[i].entity = events[j].entity
        /\ events[i].commit = events[j].commit
        /\ events[i].kind = events[j].kind
        => i = j
    /\ \A i \in DOMAIN events :
        LET ev == events[i]
        IN  \E s \in Work(ev.commit) :
                /\ s[2] = ev.entity
                /\ RealLLM \/ ev.kind = Structural(ev.commit, s[1], s[2])

\* If a commit is ingested after an extract of its tree or a later one, the manifests alone
\* are enough: with the rule-based verdicts, every signature change and every removal of
\* a contract that a manifest declares, in that commit and all later ones, is flagged as
\* breaking once the commit is ingested, also when the code that uses the contract was
\* not found, its producer was unknown, the manifest was new or extract had died before
\* (the recall floor of extract.seed_manifest_edges, and "run extract (over the working
\* tree) BEFORE ingest" of ingest.py).
ManifestFloorFlagsBreaks ==
    (ExtractFirst /\ ~RealLLM) =>
        \A c \in done : \A s \in Work(c) :
            (/\ Structural(c, s[1], s[2]) \in BreakingKinds
             /\ \E l \in Links : l[2] = s[2] /\ DeclaredSince(l, c)) =>
                \E i \in EventsFor(s[2]) : events[i].commit = c /\ events[i].breaking

\* Rowid order is commit order on every timeline (db.events_for: "oldest first (rowid
\* order tracks insertion, which for our per-commit ingest tracks commit order)").
TimelineOldestFirst ==
    \A i, j \in DOMAIN events :
        events[i].entity = events[j].entity /\ i < j
            => events[i].commit <= events[j].commit

\* Once no run is half way, the bounds of a row are commits of its timeline, whatever
\* extract wrote meanwhile, and its origin is the earliest of them as long as history is
\* never filled in backwards (models.Entity: the two "bookend the timeline").
BoundsBookendTimeline ==
    (~Active /\ interrupted = {}) =>
        \A e \in DOMAIN entities :
            LET onTimeline == {events[i].commit : i \in EventsFor(e)}
            IN  IF onTimeline = {}
                THEN OriginOf(e) = NoCommit /\ LatestOf(e) = NoCommit
                ELSE /\ {OriginOf(e), LatestOf(e)} \subseteq onTimeline
                     /\ InOrder => \A c \in onTimeline : OriginOf(e) <= c

\* Replaying a timeline gives the present: when every commit is ingested, an entity with
\* one possible file is declared at HEAD iff its last event in commit order is not its
\* removal.  It ties ingest's file-by-file diffs over the whole history to the tree.
LastEvents(e) ==
    {i \in EventsFor(e) : \A j \in EventsFor(e) : events[j].commit <= events[i].commit}
ReplayGivesHead ==
    (Commits \subseteq done /\ ~RealLLM) =>
        \A e \in Entities : \A f \in Files :
            FilesOf[e] = {f} =>
                (TreeAt(HEAD)[<<f, e>>] # Absent
                    <=> \E i \in LastEvents(e) : events[i].kind # "removed")

\* A signature change of a declared entity between two revisions is on its timeline
\* (extract.py: renaming a field of a model is a signature change of every route that
\* returns it).
SignatureChangesRecorded ==
    \A c \in done : \A s \in Slots :
        LET old == ParentTree(c)
            new == TreeAt(c)
        IN  /\ old[s] # Absent
            /\ new[s] # Absent
            /\ SignatureAt(old, s[1], s[2]) # SignatureAt(new, s[1], s[2])
            => \E i \in EventsFor(s[2]) : events[i].commit = c

-----------------------------------------------------------------------------
(* Action properties. *)

\* The first commit and author of a contract, once written, survive every later
\* upsert, re-ingest, crash and re-extract (db.upsert_entity: "must never be
\* overwritten by a later re-extract").
OriginWriteOnce ==
    [][\A e \in DOMAIN entities :
        /\ e \in DOMAIN entities'
        /\ entities[e].origin_commit # NoCommit
            => entities'[e].origin_commit = entities[e].origin_commit]_vars

\* No re-read of a manifest, in any run, takes the location or the confidence of a
\* code-located edge away (db.upsert_edge: "We only ever move confidence up").
EdgesOnlyImprove ==
    [][\A l \in DOMAIN edges :
        /\ l \in DOMAIN edges'
        /\ edges[l].confidence = "high" => edges'[l].confidence = "high"
        /\ edges[l].from_file # NoFile => edges'[l].from_file # NoFile]_vars

-----------------------------------------------------------------------------
(* The edges found in code. *)

\* What the code of a consumer means, without going through names: a call is of a route
\* of the same method and parts, an import or a subscription of what is called so.
IsUseOf(use, e) ==
    CASE use.by = "call" ->
            /\ KindOf[e] = "http_route"
            /\ NameOf[e].method = use.name.method
            /\ SameRoute(NameOf[e].path, Tail(use.name.path))
      [] use.by = "import" -> KindOf[e] \in {"export", "schema_model"} /\ NameOf[e] = use.name
      [] use.by = "subscribe" -> KindOf[e] = "queue_topic" /\ NameOf[e] = use.name

\* Something depends on e: a commit's manifests declare so, or code of another service
\* means it.
DependedOn(e) ==
    \/ \E d \in Commits : \E l \in ManifestsAt(d) : l[2] = e
    \/ \E use \in Uses : use.service # OwnerOf[e] /\ IsUseOf(use, e)

\* A breaking flag is never invented: some commit's manifests, or code of another service,
\* depend on the contract, whatever the model answered, and however extract and ingest
\* interleave, die and are repeated; and with the rule-based verdicts the commit changed
\* the signature of the contract or removed it (ingest.py: "The LLM's opinion cannot invent
\* a breaking flag on an entity nobody depends on").
BreakingSound ==
    \A i \in DOMAIN events :
        events[i].breaking =>
            LET ev == events[i]
            IN  /\ DependedOn(ev.entity)
                /\ ~RealLLM => \E s \in Work(ev.commit) :
                        /\ s[2] = ev.entity
                        /\ Structural(ev.commit, s[1], s[2]) \in BreakingKinds

\* An edge with a code location is a use: the file has code of the service that means
\* the producer, which is another service's (extract.extract_edges: "to CROSS-service
\* coupling").
CodeEdgesAreUses ==
    \A l \in DOMAIN edges :
        edges[l].confidence = "high" =>
            /\ OwnerOf[l[2]] # l[1]
            /\ \E use \in Uses : /\ use.service = l[1]
                                 /\ use.file = edges[l].from_file
                                 /\ IsUseOf(use, l[2])

\* When an extract completes, every use of a contract that its tree declares is a located
\* edge, whatever ingest does meanwhile, unless another entity has the same name (ids.py:
\* "a call to /v1/charge/ resolves to a route declared as /v1/charge").
CodeUsesResolved ==
    [][ExtractFinish =>
        \A use \in Uses, s \in Slots :
            (/\ ext.tree[s] # Absent
             /\ IsUseOf(use, s[2])
             /\ OwnerOf[s[2]] # use.service
             /\ \A e \in Entities \ {s[2]} : ~IsUseOf(use, e)) =>
                \E l \in DOMAIN edges' : /\ l[1] = use.service
                                         /\ l[2] = s[2]
                                         /\ edges'[l].confidence = "high"
                                         /\ edges'[l].from_file # NoFile]_vars

\* When the index is built, the calls that find a route are those of the same route and
\* no others, however they are spelled, and the spelling in the index is looked up as
\* itself (ids.normalize_route: "applied identically on producer and consumer sides so the
\* two always agree").
SpellingsFindRoute ==
    [][IndexProducers =>
        \A e \in DOMAIN entities : KindOf[e] = "http_route" =>
            LET declared == NameOf[e].path
            IN  /\ \A p \in Spellings :
                    Normalize(p) = LocalName(e).path <=> SameRoute(p, declared)
                /\ Normalize(LocalName(e).path) = LocalName(e).path]_vars

-----------------------------------------------------------------------------
(* The timelines together are a log of the changes the commits made. *)

\* What commit c did, as ingest may record it.
Changes(c) == {{s[2]} \X Verdicts(Structural(c, s[1], s[2])) : s \in Work(c)}
LogOf(rows) ==
    [i \in DOMAIN rows |-> [commit |-> rows[i].commit,
                            entry |-> <<rows[i].entity, rows[i].kind>>]]

L == INSTANCE ChangeLog WITH happened <- [c \in Commits |-> Changes(c)],
                             log <- LogOf(events),
                             closed <- done,
                             Settled <- ~RealLLM

\* Extract and ingest, crashing and overlapping as they may, implement an append-only log:
\* a recorded change is never altered, moved or removed, each is recorded once and is one
\* that its commit made, ingest leaves a commit for good only when everything it did is
\* there, and with the rule-based verdicts a re-ingest adds nothing to it (ingest.py and
\* db.py: "re-ingesting a commit range is safe").
ImplementsChangeLog == L!LogSpec
=================================================================================

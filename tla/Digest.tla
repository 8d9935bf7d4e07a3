--------------------------------- MODULE Digest ---------------------------------
(* The readers of the graph that print a digest, impact and render-notes, while git, *)
(* extract and ingest change what they read between their queries.                   *)
EXTENDS Impact, Notes

digestVars == <<impact, notes, digests>>

DigestInit ==
    /\ Init
    /\ ImpactInit
    /\ NotesInit
    /\ digests = 0

RunImpact(s, lo, hi) ==
    /\ ExtractFirst => extracted # NoCommit
    /\ StartImpact(s, lo, hi)

ImpactNext ==
    /\ \/ \E s \in Services, lo \in 0 .. HEAD, hi \in Commits : RunImpact(s, lo, hi)
       \/ ImpactStep
    /\ UNCHANGED <<vars, notes>>

RunNotes(since, only) ==
    /\ ExtractFirst => extracted # NoCommit
    /\ digests < MaxDigests
    /\ StartNotes(since, only)
    /\ digests' = digests + 1

NotesNext ==
    /\ \/ \E since \in 0 .. HEAD, only \in Services \cup {NoService} : RunNotes(since, only)
       \/ NotesStep /\ UNCHANGED digests
    /\ UNCHANGED <<vars, impact>>

DigestNext ==
    \/ Next /\ UNCHANGED digestVars
    \/ ImpactNext
    \/ NotesNext

DigestSpec == DigestInit /\ [][DigestNext]_<<vars, digestVars>>

-----------------------------------------------------------------------------
(* What a digest says. *)

\* What the commits of the diff did to e that is worth telling, in the one file that may
\* declare it.
TouchedByDiff(e) ==
    \E f \in impact.files, c \in impact.diff :
        /\ FilesOf[e] = {f}
        /\ f \in history[c].changed
        /\ Structural(c, f, e) \in SurfaceKinds

\* A digest does not stay silent when it should speak: if ingest had gone through the diff
\* when it was started, the owner of a contract that the diff changed is told of every
\* service whose manifest declares it in every commit since the one extracted last, and
\* such a service of the contract, whatever is committed, extracted and ingested while the
\* digest is computed (impact.py: "what affects you", "who you break").
ImpactSpeaks ==
    (ImpactComplete /\ ~RealLLM) =>
        \A l \in Links :
            (/\ DeclaredSince(l, impact.ready)
             /\ TouchedByDiff(l[2])
             /\ OwnerOf[l[2]] # l[1]) =>
                /\ impact.service = OwnerOf[l[2]] => \E n \in impact.down : n.edge = l
                /\ impact.service = l[1] => \E n \in impact.up : n.entity = l[2]

\* A digest speaks only to the coupled: what it tells the service is a surfaced change of
\* a contract that it owns and another consumes, or that it consumes itself or a service
\* does whose name matches its own as a pattern, and one of the diff's files may declare
\* the contract or has a use of it, although rows, edges and events are read one after the
\* other (impact.py: "Silence for the unaffected is the whole point").
ImpactSilent ==
    \A n \in impact.up \cup impact.down :
        /\ events[n.event].entity = n.entity
        /\ events[n.event].kind \in SurfaceKinds
        /\ n.edge \in DOMAIN edges
        /\ n.edge[2] = n.entity
        /\ n \in impact.up => n.edge[1] \in NamesLike[impact.service]
        /\ n \in impact.down => /\ OwnerOf[n.entity] = impact.service
                                /\ n.edge[1] # impact.service
        /\ \/ FilesOf[n.entity] \cap impact.files # {}
           \/ \E use \in Uses : use.file \in impact.files /\ IsUseOf(use, n.entity)

\* A service that has no edge to any entity the diff touches is told of no change in what
\* it depends on (impact.py: "a service with NO edge to any touched entity produces ZERO
\* flags").
NoFlagsWithoutEdge ==
    impact.up # {} =>
        \E l \in DOMAIN edges : l[1] = impact.service /\ l[2] \in impact.touched

\* The change a digest tells is the latest: when history is ingested in order with the
\* rule-based verdicts, no surfaced change of the entity that is on its timeline when the
\* entry is made is by a later commit (impact._latest_surface_event: "The most recent
\* surface-worthy change event on an entity").
ImpactTellsLatest ==
    [][(InOrder /\ ~RealLLM) =>
        \A n \in (impact'.up \ impact.up) \cup (impact'.down \ impact.down) :
            \A i \in Surfacing(n.entity) :
                events[i].commit <= events[n.event].commit]_<<vars, digestVars>>

\* Release notes miss nothing and file nothing in the wrong place: what was on a timeline
\* in the window when they were started is in the changelog and under every service whose
\* manifest declares the contract in every commit since the one extracted last, and a
\* change is filed under a service only if the service consumes the contract of another
\* and the window has the commit (notes.py: "scoped by who is affected").
NotesExact ==
    /\ NotesComplete =>
        \A i \in 1 .. notes.seen :
            (/\ events[i].kind \in SurfaceKinds
             /\ events[i].commit \in notes.since + 1 .. notes.head) =>
                /\ i \in notes.changelog
                /\ \A l \in Links :
                    (/\ DeclaredSince(l, notes.ready)
                     /\ l[2] = events[i].entity
                     /\ l[1] # OwnerOf[l[2]]
                     /\ notes.only \in {NoService, l[1]}) => <<l[1], i>> \in notes.filed
    /\ \A x \in notes.filed :
        /\ x[2] \in notes.changelog
        /\ x[1] # OwnerOf[events[x[2]].entity]
        /\ \E l \in DOMAIN edges : l[1] = x[1] /\ l[2] = events[x[2]].entity
        /\ notes.since # NoCommit => events[x[2]].commit \in notes.since + 1 .. notes.head
=================================================================================

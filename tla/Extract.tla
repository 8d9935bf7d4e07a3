--------------------------------- MODULE Extract --------------------------------
(* orgctx extract: upsert every producer declared in the checked-out tree, seed the *)
(* edges the manifests declare, then resolve the consumers' code against the        *)
(* producers the graph knows by then.  The code of the consumers is the same in     *)
(* every tree; what varies is which producers it can be resolved against.           *)
EXTENDS ProducerIndex

CONSTANTS
    MaxExtracts     \* bound on the number of extract invocations

ASSUME ExtractAssumption ==
    /\ \A use \in Uses, e \in Entities :
        KindOf[e] \in UsedKinds(use) /\ OwnerOf[e] # use.service
            => <<use.service, e, EdgeKind(use, e)>> \in Links
    /\ MaxExtracts \in Nat

VARIABLES
    ext,            \* the extract process
    extracts,       \* how many times it was started
    extracted       \* observer: the commit that was checked out when the last run that
                    \* went through to the end was started, NoCommit when none has

extVars == <<ext, extracts, extracted>>

\* at = the commit checked out at the start (observed); unread = services whose manifest is
\* still to be read; slots, links = what is still to be written.
AtRest == [pc |-> "idle", at |-> NoCommit, tree |-> EmptyTree, slots |-> {},
           unread |-> {}, links |-> {}]

ExtractProcess ==
    [pc : {"idle", "producers", "manifests", "code"}, at : Nat, tree : Trees,
     slots : SUBSET Slots, unread : SUBSET Services,
     links : SUBSET (Links \X (Files \cup {NoFile}))]

ExtractTypeOK ==
    /\ ext \in ExtractProcess
    /\ extracts \in Nat
    /\ extracted \in Nat

ExtractInit ==
    /\ ext = AtRest
    /\ extracts = 0
    /\ extracted = NoCommit

\* read_org_sources: the working tree, a clean checkout of HEAD.
StartExtract ==
    /\ ext.pc = "idle"
    /\ extracts < MaxExtracts
    /\ LET tree == TreeAt(HEAD)
       IN  ext' = [AtRest EXCEPT !.pc = "producers", !.at = HEAD, !.tree = tree,
                                 !.slots = {s \in Slots : tree[s] # Absent}]
    /\ extracts' = extracts + 1
    /\ UNCHANGED <<store, extracted>>

\* Phase 1: register a producer, without commit bounds.  rglob gives the files in any
\* order, so of two declarations of a model either may win the model index.
ExtractProducer(s) ==
    /\ ext.pc = "producers"
    /\ s \in ext.slots
    /\ LET declaring == Declaring(ext.tree, ModelOf[s[2]])
       IN  \E winners \in IF declaring = {} THEN {{}} ELSE {{f} : f \in declaring} :
               UpsertEntity(s[2], SignatureWith(ext.tree, s[1], s[2], winners), s[1],
                            NoCommit, NoCommit)
    /\ ext' = [ext EXCEPT !.slots = @ \ {s}]
    /\ UNCHANGED <<events, edges, sync_state, extracts, extracted>>

ExtractManifests ==
    /\ ext.pc = "producers"
    /\ ext.slots = {}
    /\ ext' = [ext EXCEPT !.pc = "manifests", !.unread = Services]
    /\ UNCHANGED <<store, extracts, extracted>>

\* Phase 2a, seed_manifest_edges of the next service: its manifest as it is in the working
\* tree by now, which may be of a later commit than the sources.
Manifest(s) == {l \in ManifestsAt(HEAD) : l[1] = s}

ReadManifest(s) ==
    /\ ext.pc = "manifests"
    /\ ext.links = {}
    /\ s \in ext.unread
    /\ ext' = [ext EXCEPT !.unread = @ \ {s}, !.links = Manifest(s) \X {NoFile}]
    /\ UNCHANGED <<store, extracts, extracted>>

\* A declared edge is seeded whether or not its producer is known.
SeedManifestEdge(l) ==
    /\ ext.pc = "manifests"
    /\ <<l, NoFile>> \in ext.links
    /\ UpsertEdge(l, "medium", "manifest", NoFile)
    /\ ext' = [ext EXCEPT !.links = @ \ {<<l, NoFile>>}]
    /\ UNCHANGED <<entities, events, sync_state, extracts, extracted>>

\* ProducerIndex(all_entities()): the producers known when phase 2b begins.
IndexProducers ==
    /\ ext.pc = "manifests"
    /\ ext.unread = {}
    /\ ext.links = {}
    /\ ext' = [ext EXCEPT !.pc = "code",
                  !.links = {x \in Links \X Files :
                                \E use \in Uses :
                                    use.file = x[2] /\ x[1] \in LinksOf(use)}]
    /\ UNCHANGED <<store, extracts, extracted>>

\* The heuristic that finds each kind of edge in code.
SourceOf(kind) ==
    CASE kind = "consumes" -> "route_match"
      [] kind = "subscribes" -> "subscribe_match"
      [] OTHER -> "import_parse"

\* Phase 2b: an edge found in code, at its site.
ResolveCodeEdge(l, f) ==
    /\ ext.pc = "code"
    /\ <<l, f>> \in ext.links
    /\ UpsertEdge(l, "high", SourceOf(l[3]), f)
    /\ ext' = [ext EXCEPT !.links = @ \ {<<l, f>>}]
    /\ UNCHANGED <<entities, events, sync_state, extracts, extracted>>

ExtractFinish ==
    /\ ext.pc = "code"
    /\ ext.links = {}
    /\ ext' = AtRest
    /\ extracted' = ext.at
    /\ UNCHANGED <<store, extracts>>

ExtractCrash ==
    /\ ext.pc # "idle"
    /\ ext' = AtRest
    /\ UNCHANGED <<store, extracts, extracted>>

ExtractStep ==
    \/ \E s \in Slots : ExtractProducer(s)
    \/ ExtractManifests
    \/ \E s \in Services : ReadManifest(s)
    \/ \E l \in Links : SeedManifestEdge(l)
    \/ IndexProducers
    \/ \E l \in Links, f \in Files : ResolveCodeEdge(l, f)
    \/ ExtractFinish
=================================================================================

------------------------------ MODULE DigestProofs ------------------------------
(* Proofs about the readers of the graph: what impact and render-notes print, query  *)
(* by query, while commits, extract and ingest change what they read.                *)
EXTENDS Digest, HistoryProofs, ResolutionProofs

USE GitAssumption, StoreAssumption, IngestAssumption, ExtractAssumption,
    TimelineAssumption, DigestAssumption

-----------------------------------------------------------------------------
(* The graph under the readers. *)

\* The readers change nothing of what they read.
LEMMA ReadersOnlyRead ==
    ASSUME [DigestNext]_<<vars, digestVars>>
    PROVE  [Next]_vars
  BY DEF DigestNext, ImpactNext, NotesNext

\* A row is about an entity in a file that may declare it.
RowsInPlace == \A e \in DOMAIN entities : <<entities[e].def_file, e>> \in Slots

\* Producers and changed entities are upserted with the file they were found in.
LEMMA RowsInPlaceStep ==
    ASSUME TypeOK, LoopInv, RowsInPlace, [Next]_vars
    PROVE  RowsInPlace'
<1>1. CASE UNCHANGED entities
  BY <1>1 DEF RowsInPlace
<1>2. ASSUME NEW s \in Slots, NEW signature, NEW origin, NEW latest,
             UpsertEntity(s[2], signature, s[1], origin, latest)
      PROVE  RowsInPlace'
  <2>1. s = <<s[1], s[2]>>
    BY DEF Slots
  <2>2. ASSUME NEW e \in DOMAIN entities' PROVE <<entities'[e].def_file, e>> \in Slots
    BY <1>2, <2>1, <2>2 DEF UpsertEntity, RowsInPlace
  <2> QED
    BY <2>2 DEF RowsInPlace
<1>3. ASSUME NEW s \in Slots, IngestEntity(s) PROVE RowsInPlace'
  BY <1>2, <1>3 DEF IngestEntity
<1>4. CASE IngestBounds
  <2>1. SetCommitBounds(ing.at[2], ing.commit, ing.commit)
    BY <1>4 DEF IngestBounds
  <2>2. DOMAIN entities' = DOMAIN entities
    BY <2>1 DEF SetCommitBounds
  <2>3. ASSUME NEW e \in DOMAIN entities PROVE entities'[e].def_file = entities[e].def_file
    <3>1. entities[e] \in EntityRow
      BY DEF TypeOK, StoreTypeOK
    <3> QED
      BY <2>1, <3>1 DEF SetCommitBounds, EntityRow
  <2> QED
    BY <2>2, <2>3 DEF RowsInPlace
<1>5. ASSUME NEW s \in Slots, ExtractProducer(s) PROVE RowsInPlace'
  BY <1>2, <1>5 DEF ExtractProducer
<1>6. CASE DeveloperCommits \/ UNCHANGED vars
  BY <1>1, <1>6 DEF DeveloperCommits, store, vars
<1>7. CASE IngestNext
  BY <1>1, <1>3, <1>4, <1>7
     DEF IngestNext, RunIngest, StartIngest, IngestStep, IngestSummarize, IngestAppend,
         IngestNextCommit, IngestFinish, IngestCrash, store
<1>8. CASE ExtractNext
  BY <1>1, <1>5, <1>8
     DEF ExtractNext, StartExtract, ExtractStep, ExtractManifests, ReadManifest, SeedManifestEdge,
         IndexProducers, ResolveCodeEdge, ExtractFinish, ExtractCrash, store
<1> QED
  BY <1>6, <1>7, <1>8 DEF Next

\* What the readers may rely on.
GraphInv == IInv /\ SeedInv /\ OrderInv /\ BoundInv /\ RowsInPlace

\* It holds whatever the readers do.
LEMMA GraphAlways == DigestSpec => []GraphInv
<1>1. DigestInit => Init /\ RowsInPlace
  BY DEF DigestInit, Init, StoreInit, RowsInPlace
<1>2. [DigestNext]_<<vars, digestVars>> => [Next]_vars
  BY ReadersOnlyRead
<1>3. ASSUME IInv, RowsInPlace, [Next]_vars PROVE RowsInPlace'
  BY <1>3, RowsInPlaceStep DEF IInv
<1>4. IInv /\ FloorInv /\ OrderInv /\ BoundInv /\ RowsInPlace => GraphInv
  BY DEF FloorInv, GraphInv
<1> QED
  BY <1>1, <1>2, <1>3, <1>4, Inductive, FloorAlways, BoundAlways, PTL DEF Spec, DigestSpec

\* No step forgets an event, an edge, an ingested commit or what a commit did.
LEMMA GraphStep ==
    ASSUME GraphInv, [Next]_vars
    PROVE  /\ DOMAIN events \subseteq DOMAIN events'
           /\ \A i \in DOMAIN events : events'[i] = events[i]
           /\ DOMAIN edges \subseteq DOMAIN edges'
           /\ DOMAIN entities \subseteq DOMAIN entities'
           /\ done \subseteq done'
           /\ \A c \in Commits : /\ c \in Commits'
                                  /\ history'[c] = history[c]
           /\ \A c \in Commits : \A f, e : Structural(c, f, e)' = Structural(c, f, e)
<1>0. TypeOK /\ LoopInv
  BY DEF GraphInv, IInv
<1>1. DOMAIN events \subseteq DOMAIN events' /\ \A i \in DOMAIN events : events'[i] = events[i]
  BY <1>0, EventsOnlyGrow DEF EventsKept
<1>2. history' = history \/ (\E x : history' = Append(history, x))
  BY <1>0, HistoryStep
<1>3. \A c \in Commits : \A f, e : Structural(c, f, e)' = Structural(c, f, e)
  BY <1>0, <1>2, StructuralStable DEF TypeOK
<1>4. \A c \in Commits : c \in Commits' /\ history'[c] = history[c]
  BY <1>0, <1>2, HistoryOnlyGrows DEF TypeOK, Commits
<1> QED
  BY <1>1, <1>3, <1>4, EdgesOnlyGrow, RowsOnlyGrow, DoneGrows

-----------------------------------------------------------------------------
(* impact: the latest change. *)

\* The impact process is a record of its fields.
ImpactProcess ==
    [pc : {"idle", "edges", "outbound", "upstream", "downstream"},
     service : Services \cup {NoService}, files : SUBSET Files, touched : SUBSET Entities,
     asked : SUBSET Entities, links : SUBSET Links, up : SUBSET Entry, down : SUBSET Entry,
     ready : Nat, diff : SUBSET Commits]

\* The process at rest is typed.
LEMMA BlankType == Blank \in ImpactProcess
  BY DEF Blank, ImpactProcess, NoCommit

\* There is at most one latest surfaced event, and it is one of the entity.
LEMMA LatestIsSurfacing ==
    ASSUME NEW e, NEW i \in LatestSurfaceEvent(e)
    PROVE  i \in Surfacing(e) /\ \A j \in Surfacing(e) : j <= i
  BY DEF LatestSurfaceEvent

\* Entries are typed.
LEMMA EntriesType ==
    ASSUME TypeOK, NEW e \in Entities, NEW l \in Links
    PROVE  EntriesFor(e, l) \subseteq Entry
<1>1. DOMAIN events \subseteq Nat
  BY DEF TypeOK, StoreTypeOK
<1> QED
  BY <1>1 DEF EntriesFor, Entry, LatestSurfaceEvent, Surfacing, EventsFor

\* Every query keeps the process typed.
LEMMA ImpactTypeStep ==
    ASSUME TypeOK, impact \in ImpactProcess, ImpactNext
    PROVE  impact' \in ImpactProcess
<1>0. /\ DOMAIN entities \subseteq Entities /\ DOMAIN edges \subseteq Links
      /\ Commits \subseteq Nat /\ HEAD \in Nat /\ Commits = 1 .. HEAD
      /\ \A l \in Links : l[2] \in Entities
  BY DEF TypeOK, StoreTypeOK, GitTypeOK, Commits, HEAD
<1>1. ASSUME NEW s \in Services, NEW lo \in 0 .. HEAD, NEW hi \in Commits, RunImpact(s, lo, hi)
      PROVE  impact' \in ImpactProcess
  <2>1. PICK files \in DiffFiles(lo, hi) :
            impact' = [Blank EXCEPT !.pc = "edges", !.service = s, !.files = files,
                !.touched = {e \in DOMAIN entities : entities[e].def_file \in files},
                !.ready = IF lo + 1 .. hi \subseteq done THEN extracted ELSE NoCommit,
                !.diff = lo + 1 .. hi]
    BY <1>1 DEF RunImpact, StartImpact
  <2>2. \A c \in Commits : history[c] \in CommitRecord
    BY DEF TypeOK, GitTypeOK, Commits
  <2>3. files \subseteq Files
    <3>1. \A c \in Commits : history[c].changed \subseteq Files
      BY <2>2 DEF CommitRecord
    <3>2. hi \in Commits /\ lo + 1 .. hi \subseteq Commits
      BY <1>0
    <3>3. CASE hi = lo + 1
      BY <2>1, <3>1, <3>3 DEF DiffFiles
    <3>4. CASE hi # lo + 1
      <4>1. files \subseteq UNION {history[c].changed : c \in lo + 1 .. hi}
        BY <2>1, <3>4 DEF DiffFiles
      <4> QED
        BY <3>1, <3>2, <4>1
    <3> QED
      BY <3>3, <3>4
  <2>4. lo + 1 .. hi \subseteq Commits
    BY <1>0
  <2>5. extracted \in Nat
    BY DEF TypeOK, ExtractTypeOK
  <2> DEFINE ready == IF lo + 1 .. hi \subseteq done THEN extracted ELSE NoCommit
             touched == {e \in DOMAIN entities : entities[e].def_file \in files}
  <2>6. impact' = [pc |-> "edges", service |-> s, files |-> files, touched |-> touched,
                   asked |-> {}, links |-> {}, up |-> {}, down |-> {},
                   ready |-> ready, diff |-> lo + 1 .. hi]
    BY <2>1 DEF Blank
  <2>7. touched \subseteq Entities /\ ready \in Nat
    BY <1>0, <2>5 DEF NoCommit
  <2> HIDE DEF ready, touched
  <2> QED
    BY <2>3, <2>4, <2>6, <2>7 DEF ImpactProcess
<1>2. CASE TouchedByEdges
  <2>1. EditedUses(impact.files) \subseteq Entities
    BY <1>0 DEF EditedUses
  <2> QED
    BY <1>2, <2>1 DEF TouchedByEdges, ImpactProcess
<1>3. CASE Outbound
  <2>1. OutboundEdges(impact.service) \subseteq Links
    BY <1>0 DEF OutboundEdges
  <2> QED
    BY <1>3, <2>1 DEF Outbound, ImpactProcess
<1>4. ASSUME NEW e \in Entities, UpstreamEntry(e) PROVE impact' \in ImpactProcess
  <2>1. PICK l \in impact.links :
            impact' = [impact EXCEPT !.asked = @ \ {e}, !.up = @ \cup EntriesFor(e, l)]
    BY <1>4 DEF UpstreamEntry
  <2>2. EntriesFor(e, l) \subseteq Entry
    BY <2>1, EntriesType DEF ImpactProcess
  <2> QED
    BY <2>1, <2>2 DEF ImpactProcess
<1>5. CASE OwnedTouched
  BY <1>0, <1>5 DEF OwnedTouched, ImpactProcess
<1>6. ASSUME NEW e \in Entities, InboundOf(e) PROVE impact' \in ImpactProcess
  <2>1. InboundEdges(e) \subseteq Links
    BY <1>0 DEF InboundEdges
  <2> QED
    BY <1>6, <2>1 DEF InboundOf, ImpactProcess
<1>7. ASSUME NEW l \in Links, DownstreamEntry(l) PROVE impact' \in ImpactProcess
  <2>1. EntriesFor(l[2], l) \subseteq Entry
    BY <1>0, EntriesType
  <2> QED
    BY <1>7, <2>1 DEF DownstreamEntry, ImpactProcess
<1>8. CASE PrintImpact
  BY <1>8, BlankType DEF PrintImpact
<1> QED
  BY <1>1, <1>2, <1>3, <1>4, <1>5, <1>6, <1>7, <1>8 DEF ImpactNext, ImpactStep

\* Also while the other processes run.
LEMMA ImpactTyped == DigestSpec => [](impact \in ImpactProcess)
<1>1. DigestInit => impact \in ImpactProcess
  BY BlankType DEF DigestInit, ImpactInit
<1>2. ASSUME GraphInv, impact \in ImpactProcess, [DigestNext]_<<vars, digestVars>>
      PROVE  (impact \in ImpactProcess)'
  <2>1. TypeOK /\ [Next]_vars
    BY <1>2, ReadersOnlyRead DEF GraphInv, IInv
  <2>2. CASE ImpactNext
    <3>1. impact' \in ImpactProcess /\ Commits' = Commits
      BY <1>2, <2>1, <2>2, ImpactTypeStep DEF ImpactNext, vars, Commits
    <3> QED
      BY <3>1 DEF ImpactProcess
  <2>3. CASE UNCHANGED impact
    <3>1. Commits \subseteq Commits'
      BY <1>2, <2>1, GraphStep
    <3> QED
      BY <1>2, <2>3, <3>1 DEF ImpactProcess
  <2> QED
    BY <1>2, <2>2, <2>3 DEF DigestNext, NotesNext, digestVars
<1> QED
  BY <1>1, <1>2, GraphAlways, PTL DEF DigestSpec

\* Every entry a digest gains tells the latest surfaced change that is on the timeline
\* when the entry is made, in every organisation and whatever runs beside it.
THEOREM TellsLatest == DigestSpec => ImpactTellsLatest
<1> DEFINE Latest ==
      (InOrder /\ ~RealLLM) =>
        \A n \in (impact'.up \ impact.up) \cup (impact'.down \ impact.down) :
            \A i \in Surfacing(n.entity) : events[i].commit <= events[n.event].commit
<1>1. ASSUME GraphInv, impact \in ImpactProcess, [DigestNext]_<<vars, digestVars>>
      PROVE  [Latest]_<<vars, digestVars>>
  <2>1. SUFFICES ASSUME DigestNext, InOrder, ~RealLLM,
                        NEW n \in (impact'.up \ impact.up) \cup (impact'.down \ impact.down),
                        NEW i \in Surfacing(n.entity)
                 PROVE  events[i].commit <= events[n.event].commit
    BY <1>1
  <2>2. \E e, l : n \in EntriesFor(e, l)
    <3>1. CASE ImpactNext
      <4>1. ASSUME NEW e \in Entities, UpstreamEntry(e) PROVE \E l : n \in EntriesFor(e, l)
        <5>1. PICK l \in impact.links :
                  impact' = [impact EXCEPT !.asked = @ \ {e}, !.up = @ \cup EntriesFor(e, l)]
          BY <4>1 DEF UpstreamEntry
        <5>2. impact'.up = impact.up \cup EntriesFor(e, l) /\ impact'.down = impact.down
          BY <1>1, <5>1 DEF ImpactProcess
        <5> QED
          BY <2>1, <5>2
      <4>2. ASSUME NEW l \in Links, DownstreamEntry(l) PROVE n \in EntriesFor(l[2], l)
        <5>1. impact'.up = impact.up /\ impact'.down = impact.down \cup EntriesFor(l[2], l)
          BY <1>1, <4>2 DEF DownstreamEntry, ImpactProcess
        <5> QED
          BY <2>1, <5>1
      <4>3. CASE TouchedByEdges \/ Outbound \/ OwnedTouched
        <5>1. impact'.up = impact.up /\ impact'.down = impact.down
          BY <1>1, <4>3 DEF TouchedByEdges, Outbound, OwnedTouched, ImpactProcess
        <5> QED
          BY <2>1, <5>1
      <4>4. ASSUME NEW e \in Entities, InboundOf(e) PROVE FALSE
        <5>1. impact'.up = impact.up /\ impact'.down = impact.down
          BY <1>1, <4>4 DEF InboundOf, ImpactProcess
        <5> QED
          BY <2>1, <5>1
      <4>5. CASE PrintImpact \/ \E s \in Services, lo \in 0 .. HEAD, hi \in Commits :
                                    RunImpact(s, lo, hi)
        <5>1. ASSUME NEW s \in Services, NEW lo \in 0 .. HEAD, NEW hi \in Commits,
                     RunImpact(s, lo, hi)
              PROVE  impact'.up = {} /\ impact'.down = {}
          BY <5>1 DEF RunImpact, StartImpact, Blank
        <5>2. impact'.up = {} /\ impact'.down = {}
          <6>1. CASE PrintImpact
            BY <6>1 DEF PrintImpact, Blank
          <6> QED
            BY <4>5, <5>1, <6>1
        <5> QED
          BY <2>1, <5>2
      <4> QED
        BY <3>1, <4>1, <4>2, <4>3, <4>4, <4>5 DEF ImpactNext, ImpactStep
    <3>2. CASE UNCHANGED impact
      BY <2>1, <3>2
    <3> QED
      BY <2>1, <3>1, <3>2 DEF DigestNext, NotesNext, digestVars
  <2>3. n.event \in Surfacing(n.entity) /\ i <= n.event
    BY <2>1, <2>2, LatestIsSurfacing DEF EntriesFor
  <2>4. TimelineOldestFirst
    BY <1>1, <2>1 DEF GraphInv, OrderInv
  <2>5. /\ i \in DOMAIN events /\ n.event \in DOMAIN events
        /\ events[i].entity = n.entity /\ events[n.event].entity = n.entity
    BY <2>1, <2>3 DEF Surfacing, EventsFor
  <2>6. /\ DOMAIN events \subseteq Nat
        /\ events[i].commit \in Nat
    <3>1. events \in Seq(EventRow)
      BY <1>1 DEF GraphInv, IInv, TypeOK, StoreTypeOK
    <3>2. events[i] \in EventRow
      BY <2>5, <3>1
    <3> QED
      BY <3>1, <3>2 DEF EventRow
  <2>7. CASE i < n.event
    BY <2>4, <2>5, <2>7 DEF TimelineOldestFirst
  <2>8. CASE i = n.event
    BY <2>6, <2>8
  <2> QED
    BY <2>3, <2>5, <2>6, <2>7, <2>8
<1> QED
  BY <1>1, GraphAlways, ImpactTyped, PTL DEF DigestSpec, ImpactTellsLatest

-----------------------------------------------------------------------------
(* impact: nothing it should tell is left out. *)

\* What an ingested commit did to an entity with one file is on the timeline, and the row
\* is about that file.
LEMMA ChangeIsThere ==
    ASSUME GraphInv, ~RealLLM, NEW e \in Entities, NEW f \in Files, FilesOf[e] = {f},
           NEW c \in done, f \in history[c].changed,
           Structural(c, f, e) \in SurfaceKinds
    PROVE  e \in DOMAIN entities /\ entities[e].def_file = f /\ Surfacing(e) # {}
<1>1. PICK s \in Slots : s = <<f, e>>
  BY DEF Slots
<1>2. s[1] = f /\ s[2] = e
  BY <1>1
<1>3. s \in Work(c)
  BY <1>2 DEF Work, SurfaceKinds
<1>4. Recorded(c, s)
  BY <1>3 DEF GraphInv, IInv, CompletedCommitsRecorded
<1>5. PICK i \in DOMAIN events : events[i].entity = e /\ events[i].kind = Structural(c, f, e)
  BY <1>2, <1>4 DEF Recorded
<1>6. i \in Surfacing(e)
  BY <1>5 DEF Surfacing, EventsFor
<1>7. e \in DOMAIN entities
  <2>1. Bounded(e)
    BY <1>5 DEF GraphInv, BoundInv
  <2> QED
    BY <2>1 DEF Bounded, OriginOf
<1>8. <<entities[e].def_file, e>> \in Slots
  BY <1>7 DEF GraphInv, RowsInPlace
<1> QED
  BY <1>6, <1>7, <1>8 DEF Slots

\* An entity with a row and a surfaced event has an entry.
LEMMA EntryIsMade ==
    ASSUME TypeOK, NEW e \in DOMAIN entities, Surfacing(e) # {}, NEW l
    PROVE  \E n \in EntriesFor(e, l) : n.entity = e /\ n.edge = l
<1>1. Len(events) \in Nat /\ DOMAIN events = 1 .. Len(events)
  BY DEF TypeOK, StoreTypeOK
<1>2. Surfacing(e) \subseteq 0 .. Len(events)
  BY <1>1 DEF Surfacing, EventsFor
<1>3. PICK i \in Surfacing(e) : \A j \in Surfacing(e) : j <= i
  BY <1>1, <1>2, Largest
<1>4. i \in LatestSurfaceEvent(e)
  BY <1>3 DEF LatestSurfaceEvent
<1>5. [entity |-> e, event |-> i, edge |-> l] \in EntriesFor(e, l)
  BY <1>4 DEF EntriesFor
<1> QED
  BY <1>5

\* The manifests have declared the link in every commit since the one that was extracted
\* when the digest was started.
Standing(l) == DeclaredSince(l, impact.ready)

\* The two promises: what affects the service, and whom it may break.
Affects(l) == Standing(l) /\ impact.service = l[1] /\ TouchedByDiff(l[2])
Breaks(l) ==
    /\ Standing(l)
    /\ impact.service = OwnerOf[l[2]]
    /\ OwnerOf[l[2]] # l[1]
    /\ TouchedByDiff(l[2])

\* What a digest that must speak knows at each query: what is not told yet is still to be
\* gone through.
SpeakInv ==
    (impact.pc # "idle" /\ impact.ready # NoCommit /\ ~RealLLM) =>
        /\ impact.ready <= HEAD
        /\ \A l \in Links : Standing(l) => l \in DOMAIN edges
        /\ impact.diff \subseteq done
        /\ \A e \in Entities : TouchedByDiff(e) => e \in impact.touched
        /\ \A l \in Links :
            (Affects(l) /\ impact.pc \in {"upstream", "downstream"}) =>
                \/ impact.pc = "upstream" /\ l[2] \in impact.asked
                \/ \E n \in impact.up : n.entity = l[2]
        /\ \A l \in Links :
            (Breaks(l) /\ impact.pc = "downstream") =>
                \/ l[2] \in impact.asked
                \/ l \in impact.links
                \/ \E n \in impact.down : n.edge = l

\* What a touched contract has on the graph, while the digest is computed.
LEMMA TouchedIsThere ==
    ASSUME GraphInv, ~RealLLM, impact.diff \subseteq done, impact \in ImpactProcess,
           NEW e \in Entities, TouchedByDiff(e)
    PROVE  e \in DOMAIN entities /\ Surfacing(e) # {}
<1>1. PICK f \in impact.files, c \in impact.diff :
          /\ FilesOf[e] = {f}
          /\ f \in history[c].changed
          /\ Structural(c, f, e) \in SurfaceKinds
  BY DEF TouchedByDiff
<1>2. f \in Files /\ c \in done
  BY DEF ImpactProcess
<1> QED
  BY <1>1, <1>2, ChangeIsThere

\* The diff in hand stays what it is.
LEMMA TouchedStable ==
    ASSUME GraphInv, impact \in ImpactProcess, [Next]_vars,
           impact'.files = impact.files, impact'.diff = impact.diff, NEW e
    PROVE  TouchedByDiff(e)' => TouchedByDiff(e)
<1>1. impact.diff \subseteq Commits
  BY DEF ImpactProcess
<1>2. \A c \in Commits : history'[c] = history[c]
  BY GraphStep
<1>3. \A c \in Commits : \A f : Structural(c, f, e)' = Structural(c, f, e)
  BY GraphStep
<1>4. SUFFICES ASSUME NEW f \in impact.files, NEW c \in impact.diff,
                      FilesOf[e] = {f}, f \in history'[c].changed,
                      Structural(c, f, e)' \in SurfaceKinds
               PROVE  TouchedByDiff(e)
  BY DEF TouchedByDiff
<1>5. f \in history[c].changed /\ Structural(c, f, e) \in SurfaceKinds
  BY <1>1, <1>2, <1>4, <1>3
<1> QED
  BY <1>4, <1>5 DEF TouchedByDiff

\* While the others run, a digest loses nothing.
LEMMA SpeakWhileOthersRun ==
    ASSUME GraphInv, impact \in ImpactProcess, SpeakInv, [Next]_vars, UNCHANGED impact
    PROVE  SpeakInv'
<1> SUFFICES ASSUME impact.pc # "idle", impact.ready # NoCommit, ~RealLLM PROVE SpeakInv'
  BY DEF SpeakInv
<1>0. TypeOK /\ impact.ready \in Nat /\ impact.ready <= HEAD
  BY DEF GraphInv, IInv, ImpactProcess, SpeakInv
<1>1. /\ DOMAIN edges \subseteq DOMAIN edges'
      /\ done \subseteq done'
      /\ impact.ready <= HEAD'
  <2>1. HEAD \in Nat /\ HEAD' \in Nat /\ HEAD <= HEAD'
    BY <1>0, HistoryStep, HEADType DEF HEAD, GitTypeOK, TypeOK
  <2> QED
    BY <1>0, <2>1, GraphStep
<1>2. \A e : TouchedByDiff(e)' => TouchedByDiff(e)
  BY TouchedStable
<1>3. \A l : Standing(l)' => Standing(l)
  <2>1. impact.ready \in 0 .. HEAD
    BY <1>0, HEADType DEF TypeOK
  <2> QED
    BY <1>0, <2>1, DeclaredStep DEF Standing
<1>4. \A l : (Affects(l)' => Affects(l)) /\ (Breaks(l)' => Breaks(l))
  BY <1>2, <1>3 DEF Affects, Breaks
<1> QED
  BY <1>1, <1>2, <1>3, <1>4 DEF SpeakInv

\* A digest that starts with its diff ingested finds every contract the diff changed.
LEMMA SpeakStart ==
    ASSUME GraphInv, NEW s \in Services, NEW lo \in 0 .. HEAD, NEW hi \in Commits,
           RunImpact(s, lo, hi), UNCHANGED vars, impact' \in ImpactProcess
    PROVE  SpeakInv'
<1>1. PICK files :
          impact' = [Blank EXCEPT !.pc = "edges", !.service = s, !.files = files,
              !.touched = {e \in DOMAIN entities : entities[e].def_file \in files},
              !.ready = IF lo + 1 .. hi \subseteq done THEN extracted ELSE NoCommit,
              !.diff = lo + 1 .. hi]
  BY DEF RunImpact, StartImpact
<1>2. /\ impact'.pc = "edges" /\ impact'.files = files /\ impact'.diff = lo + 1 .. hi
      /\ impact'.touched = {e \in DOMAIN entities : entities[e].def_file \in files}
      /\ impact'.ready = IF lo + 1 .. hi \subseteq done THEN extracted ELSE NoCommit
  BY <1>1 DEF Blank
<1> SUFFICES ASSUME impact'.ready # NoCommit, ~RealLLM PROVE SpeakInv'
  BY DEF SpeakInv
<1>3. /\ impact'.ready <= HEAD'
      /\ \A l \in Links : Standing(l)' => l \in DOMAIN edges'
      /\ impact'.diff \subseteq done'
  <2>1. impact'.ready = extracted /\ lo + 1 .. hi \subseteq done
    BY <1>2
  <2>2. history' = history /\ edges' = edges /\ done' = done
    BY DEF vars, store, ingVars
  <2>3. extracted <= HEAD /\ \A l \in Links : DeclaredSince(l, extracted) => l \in DOMAIN edges
    BY DEF GraphInv, SeedInv
  <2>4. HEAD' = HEAD /\ \A l : Standing(l)' => DeclaredSince(l, extracted)
    BY <2>1, <2>2 DEF HEAD, Standing, DeclaredSince, ManifestsAt
  <2> QED
    BY <1>2, <2>1, <2>2, <2>3, <2>4
<1>4. ASSUME NEW e \in Entities, TouchedByDiff(e)' PROVE e \in impact'.touched
  <2>1. PICK f \in impact'.files, c \in impact'.diff :
            /\ FilesOf[e] = {f}
            /\ f \in history'[c].changed
            /\ Structural(c, f, e)' \in SurfaceKinds
    BY <1>4 DEF TouchedByDiff
  <2>2. Structural(c, f, e)' = Structural(c, f, e) /\ history' = history
    BY DEF Structural, TreeAt, ParentTree, vars
  <2>3. f \in Files /\ c \in done
    BY <1>2 DEF ImpactProcess
  <2>4. e \in DOMAIN entities /\ entities[e].def_file = f
    BY <2>1, <2>2, <2>3, ChangeIsThere
  <2> QED
    BY <1>2, <2>4
<1> QED
  BY <1>2, <1>3, <1>4 DEF SpeakInv

\* The diff, the files and the service of a digest are the same until it is printed.
LEMMA DigestInHand ==
    ASSUME impact \in ImpactProcess, ImpactStep, ~PrintImpact
    PROVE  /\ impact'.service = impact.service
           /\ impact'.files = impact.files
           /\ impact'.diff = impact.diff
           /\ impact'.ready = impact.ready
           /\ impact.pc # "idle"
  BY DEF ImpactStep, TouchedByEdges, Outbound, UpstreamEntry, OwnedTouched, InboundOf,
         DownstreamEntry, ImpactProcess

\* Every query of a digest goes through something and loses nothing.
LEMMA SpeakStep ==
    ASSUME GraphInv, impact \in ImpactProcess, SpeakInv, ImpactStep, UNCHANGED vars
    PROVE  SpeakInv'
<1>1. CASE PrintImpact
  <2>1. impact'.pc = "idle"
    BY <1>1 DEF PrintImpact, Blank
  <2> QED
    BY <2>1 DEF SpeakInv
<1> SUFFICES ASSUME ~PrintImpact, impact'.ready # NoCommit, ~RealLLM PROVE SpeakInv'
  BY <1>1 DEF SpeakInv
<1>2. /\ impact'.service = impact.service
      /\ impact'.files = impact.files
      /\ impact'.diff = impact.diff
      /\ impact'.ready = impact.ready
      /\ impact.pc # "idle" /\ impact.ready # NoCommit
  BY DigestInHand
<1>3. \A e : TouchedByDiff(e)' => TouchedByDiff(e)
  <2>1. [Next]_vars
    OBVIOUS
  <2> QED
    BY <1>2, <2>1, TouchedStable
<1>4. \A l : /\ Standing(l)' => Standing(l)
             /\ Affects(l)' => Affects(l)
             /\ Breaks(l)' => Breaks(l)
  <2>1. history' = history
    BY DEF vars
  <2>2. \A l : Standing(l)' => Standing(l)
    BY <1>2, <2>1 DEF Standing, DeclaredSince, ManifestsAt, HEAD
  <2> QED
    BY <1>2, <1>3, <2>2 DEF Affects, Breaks
<1>5. /\ impact.ready <= HEAD /\ HEAD' = HEAD
      /\ \A l \in Links : Standing(l) => l \in DOMAIN edges
      /\ impact.diff \subseteq done
      /\ DOMAIN edges' = DOMAIN edges
      /\ done' = done
      /\ \A e \in Entities : TouchedByDiff(e) => e \in impact.touched
  BY <1>2 DEF SpeakInv, vars, store, ingVars, HEAD
<1>6. ASSUME NEW l \in Links, TouchedByDiff(l[2])
      PROVE  /\ l[2] \in Entities /\ l[2] \in impact.touched
             /\ l[2] \in DOMAIN entities
             /\ Surfacing(l[2]) # {}
  <2>1. l[2] \in Entities
    OBVIOUS
  <2> QED
    BY <1>5, <1>6, <2>1, TouchedIsThere
<1>7. TypeOK
  BY DEF GraphInv, IInv
<1>8. ASSUME impact.touched \subseteq impact'.touched,
             \A l \in Links :
                (Affects(l) /\ impact'.pc \in {"upstream", "downstream"}) =>
                    \/ impact'.pc = "upstream" /\ l[2] \in impact'.asked
                    \/ \E n \in impact'.up : n.entity = l[2],
              \A l \in Links :
                (Breaks(l) /\ impact'.pc = "downstream") =>
                    \/ l[2] \in impact'.asked
                    \/ l \in impact'.links
                    \/ \E n \in impact'.down : n.edge = l
       PROVE  SpeakInv'
  <2>1. /\ impact'.ready <= HEAD'
        /\ \A l \in Links : Standing(l)' => l \in DOMAIN edges'
        /\ impact'.diff \subseteq done'
    BY <1>2, <1>4, <1>5
  <2>2. \A e \in Entities : TouchedByDiff(e)' => e \in impact'.touched
    BY <1>3, <1>5, <1>8
  <2>3. \A l \in Links :
            (Affects(l)' /\ impact'.pc \in {"upstream", "downstream"}) =>
                \/ impact'.pc = "upstream" /\ l[2] \in impact'.asked
                \/ \E n \in impact'.up : n.entity = l[2]
    BY <1>4, <1>8
  <2>4. \A l \in Links :
            (Breaks(l)' /\ impact'.pc = "downstream") =>
                \/ l[2] \in impact'.asked
                \/ l \in impact'.links
                \/ \E n \in impact'.down : n.edge = l
    BY <1>4, <1>8
  <2> QED
    BY <2>1, <2>2, <2>3, <2>4 DEF SpeakInv
<1>9. CASE TouchedByEdges
  <2>1. impact'.pc = "outbound" /\ impact.touched \subseteq impact'.touched
    BY <1>9 DEF TouchedByEdges, ImpactProcess
  <2> QED
    BY <1>8, <2>1
<1>10. CASE Outbound
  <2>1. /\ impact'.pc = "upstream" /\ impact'.touched = impact.touched
        /\ impact'.asked = impact.touched \cap {l[2] : l \in OutboundEdges(impact.service)}
    BY <1>10 DEF Outbound, ImpactProcess
  <2>2. ASSUME NEW l \in Links, Affects(l) PROVE l[2] \in impact'.asked
    <3>1. impact.service \in NamesLike[impact.service]
      BY <2>2 DEF Affects
    <3>2. l \in OutboundEdges(impact.service)
      BY <1>5, <2>2, <3>1 DEF Affects, OutboundEdges
    <3> QED
      BY <1>5, <1>6, <2>1, <2>2, <3>2 DEF Affects
  <2> QED
    BY <1>8, <2>1, <2>2
<1>11. ASSUME NEW e \in Entities, UpstreamEntry(e) PROVE SpeakInv'
  <2>1. PICK k \in impact.links :
            impact' = [impact EXCEPT !.asked = @ \ {e}, !.up = @ \cup EntriesFor(e, k)]
    BY <1>11 DEF UpstreamEntry
  <2>2. /\ impact'.pc = "upstream" /\ impact'.touched = impact.touched
        /\ impact'.asked = impact.asked \ {e}
        /\ impact'.up = impact.up \cup EntriesFor(e, k)
        /\ impact.pc = "upstream"
    BY <1>11, <2>1 DEF UpstreamEntry, ImpactProcess
  <2>3. ASSUME NEW l \in Links, Affects(l)
        PROVE  l[2] \in impact'.asked \/ \E n \in impact'.up : n.entity = l[2]
    <3>1. CASE l[2] = e
      <4>1. e \in DOMAIN entities /\ Surfacing(e) # {}
        BY <1>6, <2>3, <3>1 DEF Affects
      <4> QED
        BY <1>7, <2>2, <3>1, <4>1, EntryIsMade
    <3>2. CASE l[2] # e
      BY <1>2, <2>2, <2>3, <3>2 DEF SpeakInv
    <3> QED
      BY <3>1, <3>2
  <2> QED
    BY <1>8, <2>2, <2>3
<1>12. CASE OwnedTouched
  <2>1. /\ impact'.pc = "downstream" /\ impact'.touched = impact.touched
        /\ impact.asked = {} /\ impact.pc = "upstream" /\ impact'.up = impact.up
        /\ impact'.asked = {e \in impact.touched \cap DOMAIN entities :
                                OwnerOf[e] = impact.service}
    BY <1>12 DEF OwnedTouched, ImpactProcess
  <2>2. ASSUME NEW l \in Links, Affects(l)
        PROVE  \E n \in impact'.up : n.entity = l[2]
    BY <1>2, <2>1, <2>2 DEF SpeakInv
  <2>3. ASSUME NEW l \in Links, Breaks(l) PROVE l[2] \in impact'.asked
    BY <1>6, <2>1, <2>3 DEF Breaks
  <2> QED
    BY <1>8, <2>1, <2>2, <2>3
<1>13. ASSUME NEW e \in Entities, InboundOf(e) PROVE SpeakInv'
  <2>1. /\ impact'.pc = "downstream" /\ impact'.touched = impact.touched
        /\ impact.pc = "downstream" /\ impact'.up = impact.up /\ impact'.down = impact.down
        /\ impact.links = {} /\ impact'.asked = impact.asked \ {e}
        /\ impact'.links = {l \in InboundEdges(e) : l[1] # impact.service}
    BY <1>13 DEF InboundOf, ImpactProcess
  <2>2. ASSUME NEW l \in Links, Affects(l)
        PROVE  \E n \in impact'.up : n.entity = l[2]
    BY <1>2, <2>1, <2>2 DEF SpeakInv
  <2>3. ASSUME NEW l \in Links, Breaks(l)
        PROVE  \/ l[2] \in impact'.asked
               \/ l \in impact'.links
               \/ \E n \in impact'.down : n.edge = l
    <3>1. CASE l[2] = e
      <4>1. l \in DOMAIN edges
        BY <1>5, <2>3 DEF Breaks
      <4> QED
        BY <2>1, <2>3, <3>1, <4>1 DEF Breaks, InboundEdges
    <3>2. CASE l[2] # e
      BY <1>2, <2>1, <2>3, <3>2 DEF SpeakInv
    <3> QED
      BY <3>1, <3>2
  <2> QED
    BY <1>8, <2>1, <2>2, <2>3
<1>14. ASSUME NEW k \in Links, DownstreamEntry(k) PROVE SpeakInv'
  <2>1. /\ impact'.pc = "downstream" /\ impact'.touched = impact.touched
        /\ impact.pc = "downstream" /\ impact'.up = impact.up /\ impact'.asked = impact.asked
        /\ impact'.links = impact.links \ {k}
        /\ impact'.down = impact.down \cup EntriesFor(k[2], k)
    BY <1>14 DEF DownstreamEntry, ImpactProcess
  <2>2. ASSUME NEW l \in Links, Affects(l)
        PROVE  \E n \in impact'.up : n.entity = l[2]
    BY <1>2, <2>1, <2>2 DEF SpeakInv
  <2>3. ASSUME NEW l \in Links, Breaks(l)
        PROVE  \/ l[2] \in impact'.asked
               \/ l \in impact'.links
               \/ \E n \in impact'.down : n.edge = l
    <3>1. CASE l = k
      <4>1. k[2] \in DOMAIN entities /\ Surfacing(k[2]) # {}
        BY <1>6, <2>3, <3>1 DEF Breaks
      <4> QED
        BY <1>7, <2>1, <3>1, <4>1, EntryIsMade
    <3>2. CASE l # k
      BY <1>2, <2>1, <2>3, <3>2 DEF SpeakInv
    <3> QED
      BY <3>1, <3>2
  <2> QED
    BY <1>8, <2>1, <2>2, <2>3
<1> QED
  BY <1>9, <1>10, <1>11, <1>12, <1>13, <1>14 DEF ImpactStep

\* A digest computed over an ingested diff tells the owner of every declared consumer of
\* a contract the diff changed, and every declared consumer of the contract, whatever
\* commits, extracts, ingests and crashes happen between its queries.
THEOREM Speaks == DigestSpec => []ImpactSpeaks
<1>1. DigestInit => SpeakInv
  <2>1. DigestInit => impact = Blank
    BY DEF DigestInit, ImpactInit
  <2>2. Blank.pc = "idle"
    BY DEF Blank
  <2> QED
    BY <2>1, <2>2 DEF SpeakInv
<1>2. ASSUME GraphInv, impact \in ImpactProcess, (impact \in ImpactProcess)', SpeakInv,
             [DigestNext]_<<vars, digestVars>>
      PROVE  SpeakInv'
  <2>1. CASE ImpactNext
    <3>1. UNCHANGED vars /\ impact' \in ImpactProcess
      <4>1. UNCHANGED vars /\ Commits' = Commits
        BY <2>1 DEF ImpactNext, vars, Commits
      <4> QED
        BY <1>2, <4>1 DEF ImpactProcess
    <3> QED
      BY <1>2, <2>1, <3>1, SpeakStart, SpeakStep DEF ImpactNext
  <2>2. CASE UNCHANGED impact
    BY <1>2, <2>2, ReadersOnlyRead, SpeakWhileOthersRun
  <2> QED
    BY <1>2, <2>1, <2>2 DEF DigestNext, NotesNext, digestVars
<1>3. SpeakInv /\ impact \in ImpactProcess /\ GitTypeOK => ImpactSpeaks
  <2> SUFFICES ASSUME SpeakInv, impact \in ImpactProcess, GitTypeOK, ImpactComplete, ~RealLLM,
                      NEW l \in Links, DeclaredSince(l, impact.ready),
                      TouchedByDiff(l[2]), OwnerOf[l[2]] # l[1]
               PROVE  /\ impact.service = OwnerOf[l[2]] => \E n \in impact.down : n.edge = l
                      /\ impact.service = l[1] => \E n \in impact.up : n.entity = l[2]
    BY DEF ImpactSpeaks
  <2>1. impact.pc = "downstream" /\ impact.asked = {} /\ impact.links = {}
    BY DEF ImpactComplete
  <2>2. impact.ready # NoCommit
    BY NotBeforeRoot
  <2> QED
    BY <2>1, <2>2 DEF SpeakInv, Affects, Breaks, Standing
<1>4. GraphInv => GitTypeOK
  BY DEF GraphInv, IInv, TypeOK
<1> QED
  BY <1>1, <1>2, <1>3, <1>4, GraphAlways, ImpactTyped, PTL DEF DigestSpec

-----------------------------------------------------------------------------
(* impact: nothing is told that is no one's business. *)

\* A changed file may declare the entity, or has a use of it.
Implicated(e, files) ==
    \/ FilesOf[e] \cap files # {}
    \/ \E use \in Uses : use.file \in files /\ IsUseOf(use, e)

\* An entry tells a surfaced change of an entity, along an edge to it.
SoundEntry(n) ==
    /\ n.event \in DOMAIN events
    /\ events[n.event].entity = n.entity
    /\ events[n.event].kind \in SurfaceKinds
    /\ n.edge \in DOMAIN edges
    /\ n.edge[2] = n.entity
    /\ Implicated(n.entity, impact.files)

\* The digest goes only through implicated entities, and edges of a service whose name
\* matches or to what the service owns, and so its entries are of these.
SilentInv ==
    /\ \A e \in impact.touched : Implicated(e, impact.files)
    /\ impact.asked \subseteq impact.touched
    /\ impact.pc = "upstream" =>
        \A l \in impact.links : l \in DOMAIN edges /\ l[1] \in NamesLike[impact.service]
    /\ impact.pc = "downstream" =>
        /\ \A e \in impact.asked : OwnerOf[e] = impact.service
        /\ \A l \in impact.links :
            /\ l \in DOMAIN edges /\ l[1] # impact.service
            /\ l[2] \in impact.touched /\ OwnerOf[l[2]] = impact.service
    /\ \A n \in impact.up \cup impact.down : SoundEntry(n)
    /\ \A n \in impact.up : n.edge[1] \in NamesLike[impact.service]
    /\ \A n \in impact.down : OwnerOf[n.entity] = impact.service /\ n.edge[1] # impact.service

\* The edges in code are located under the readers, too.
LEMMA LocatedAlways ==
    ASSUME CallsSpelledOut
    PROVE  DigestSpec => []Located
<1>1. DigestInit => Located
  BY DEF DigestInit, Init, StoreInit, ExtractInit, AtRest, Located
<1>2. ASSUME GraphInv, Located, [DigestNext]_<<vars, digestVars>> PROVE Located'
  BY <1>2, ReadersOnlyRead, LocatedStep DEF GraphInv, IInv
<1> QED
  BY <1>1, <1>2, GraphAlways, PTL DEF DigestSpec

\* What is in the graph stays there while the others run.
LEMMA SilentWhileOthersRun ==
    ASSUME GraphInv, SilentInv, [Next]_vars, UNCHANGED impact
    PROVE  SilentInv'
<1>1. /\ DOMAIN events \subseteq DOMAIN events'
      /\ \A i \in DOMAIN events : events'[i] = events[i]
      /\ DOMAIN edges \subseteq DOMAIN edges'
  BY GraphStep
<1>2. \A n : SoundEntry(n) => SoundEntry(n)'
  BY <1>1 DEF SoundEntry
<1> QED
  BY <1>1, <1>2 DEF SilentInv

\* The entries made of an entity tell its latest surfaced change.
LEMMA EntriesSound ==
    ASSUME NEW e, NEW l \in DOMAIN edges, l[2] = e, Implicated(e, impact.files),
           NEW n \in EntriesFor(e, l)
    PROVE  SoundEntry(n) /\ n.edge = l /\ n.entity = e
<1>1. PICK i \in LatestSurfaceEvent(e) : n = [entity |-> e, event |-> i, edge |-> l]
  BY DEF EntriesFor
<1>2. i \in DOMAIN events /\ events[i].entity = e /\ events[i].kind \in SurfaceKinds
  BY <1>1 DEF LatestSurfaceEvent, Surfacing, EventsFor
<1>3. n.entity = e /\ n.event = i /\ n.edge = l
  BY <1>1
<1> QED
  BY <1>2, <1>3 DEF SoundEntry

\* A digest starts from the entities whose file changed.
LEMMA SilentStart ==
    ASSUME GraphInv, NEW s, NEW lo, NEW hi, RunImpact(s, lo, hi), UNCHANGED vars
    PROVE  SilentInv'
<1>1. PICK files :
          impact' = [Blank EXCEPT !.pc = "edges", !.service = s, !.files = files,
              !.touched = {e \in DOMAIN entities : entities[e].def_file \in files},
              !.ready = IF lo + 1 .. hi \subseteq done THEN extracted ELSE NoCommit,
              !.diff = lo + 1 .. hi]
  BY DEF RunImpact, StartImpact
<1>2. /\ impact'.pc = "edges" /\ impact'.files = files
      /\ impact'.touched = {e \in DOMAIN entities : entities[e].def_file \in files}
      /\ impact'.asked = {} /\ impact'.up = {} /\ impact'.down = {}
  BY <1>1 DEF Blank
<1>3. ASSUME NEW e \in DOMAIN entities, entities[e].def_file \in files
      PROVE  Implicated(e, files)
  <2>1. <<entities[e].def_file, e>> \in Slots
    BY DEF GraphInv, RowsInPlace
  <2>2. entities[e].def_file \in FilesOf[e]
    BY <2>1 DEF Slots
  <2> QED
    BY <1>3, <2>2 DEF Implicated
<1> QED
  BY <1>2, <1>3 DEF SilentInv

\* Every query keeps to what is implicated, and to the edges of the service.
LEMMA SilentStep ==
    ASSUME TypeOK, Located, impact \in ImpactProcess, SilentInv, ImpactStep, UNCHANGED vars
    PROVE  SilentInv'
<1>0. edges' = edges /\ events' = events
  BY DEF vars, store
<1>1. CASE PrintImpact
  <2>1. /\ impact'.pc = "idle" /\ impact'.touched = {} /\ impact'.asked = {}
        /\ impact'.up = {} /\ impact'.down = {}
    BY <1>1 DEF PrintImpact, Blank
  <2> QED
    BY <2>1 DEF SilentInv
<1>2. CASE TouchedByEdges
  <2>1. /\ impact'.pc = "outbound" /\ impact'.asked = impact.asked
        /\ impact'.touched = impact.touched \cup EditedUses(impact.files)
        /\ impact'.up = impact.up /\ impact'.down = impact.down
        /\ impact'.service = impact.service /\ impact'.files = impact.files
    BY <1>2 DEF TouchedByEdges, ImpactProcess
  <2>2. ASSUME NEW e \in EditedUses(impact.files) PROVE Implicated(e, impact.files)
    <3>1. PICK l \in DOMAIN edges : edges[l].from_file \in impact.files /\ l[2] = e
      BY DEF EditedUses
    <3>2. edges[l].from_file # NoFile
      BY <3>1 DEF ImpactProcess, NoFile
    <3>3. IsLocatedUse(l, edges[l].from_file)
      BY <3>2 DEF Located
    <3> QED
      BY <3>1, <3>3 DEF IsLocatedUse, Implicated
  <2>3. \A n : SoundEntry(n) => SoundEntry(n)'
    BY <1>0, <2>1 DEF SoundEntry
  <2> QED
    BY <2>1, <2>2, <2>3 DEF SilentInv
<1>3. CASE Outbound
  <2>1. /\ impact'.pc = "upstream" /\ impact'.touched = impact.touched
        /\ impact'.links = OutboundEdges(impact.service)
        /\ impact'.asked \subseteq impact.touched
        /\ impact'.up = impact.up /\ impact'.down = impact.down
        /\ impact'.service = impact.service /\ impact'.files = impact.files
    BY <1>3 DEF Outbound, ImpactProcess
  <2>2. \A n : SoundEntry(n) => SoundEntry(n)'
    BY <1>0, <2>1 DEF SoundEntry
  <2> QED
    BY <1>0, <2>1, <2>2 DEF SilentInv, OutboundEdges
<1>4. ASSUME NEW e \in Entities, UpstreamEntry(e) PROVE SilentInv'
  <2>1. PICK l \in impact.links :
            /\ l[2] = e
            /\ impact' = [impact EXCEPT !.asked = @ \ {e}, !.up = @ \cup EntriesFor(e, l)]
    BY <1>4 DEF UpstreamEntry
  <2>2. /\ impact.pc = "upstream" /\ impact'.pc = "upstream" /\ e \in impact.asked
        /\ impact'.touched = impact.touched /\ impact'.links = impact.links
        /\ impact'.asked = impact.asked \ {e}
        /\ impact'.up = impact.up \cup EntriesFor(e, l) /\ impact'.down = impact.down
        /\ impact'.service = impact.service /\ impact'.files = impact.files
    BY <1>4, <2>1 DEF UpstreamEntry, ImpactProcess
  <2>3. l \in DOMAIN edges /\ l[1] \in NamesLike[impact.service] /\ Implicated(e, impact.files)
    BY <2>2 DEF SilentInv
  <2>4. \A n \in EntriesFor(e, l) : SoundEntry(n) /\ n.edge = l
    BY <2>1, <2>3, EntriesSound
  <2>5. \A n : SoundEntry(n) => SoundEntry(n)'
    BY <1>0, <2>2 DEF SoundEntry
  <2> QED
    BY <1>0, <2>2, <2>3, <2>4, <2>5 DEF SilentInv
<1>5. CASE OwnedTouched
  <2>1. /\ impact'.pc = "downstream" /\ impact'.touched = impact.touched
        /\ impact'.links = {}
        /\ impact'.asked \subseteq impact.touched
        /\ \A e \in impact'.asked : OwnerOf[e] = impact.service
        /\ impact'.up = impact.up /\ impact'.down = impact.down
        /\ impact'.service = impact.service /\ impact'.files = impact.files
    BY <1>5 DEF OwnedTouched, ImpactProcess
  <2>2. \A n : SoundEntry(n) => SoundEntry(n)'
    BY <1>0, <2>1 DEF SoundEntry
  <2> QED
    BY <2>1, <2>2 DEF SilentInv
<1>6. ASSUME NEW e \in Entities, InboundOf(e) PROVE SilentInv'
  <2>1. /\ impact.pc = "downstream" /\ impact'.pc = "downstream" /\ e \in impact.asked
        /\ impact'.touched = impact.touched /\ impact'.asked = impact.asked \ {e}
        /\ impact'.links = {l \in InboundEdges(e) : l[1] # impact.service}
        /\ impact'.up = impact.up /\ impact'.down = impact.down
        /\ impact'.service = impact.service /\ impact'.files = impact.files
    BY <1>6 DEF InboundOf, ImpactProcess
  <2>2. e \in impact.touched /\ OwnerOf[e] = impact.service
    BY <2>1 DEF SilentInv
  <2>3. \A l \in impact'.links : /\ l \in DOMAIN edges /\ l[1] # impact.service
                                  /\ l[2] = e
    BY <2>1 DEF InboundEdges
  <2>4. \A n : SoundEntry(n) => SoundEntry(n)'
    BY <1>0, <2>1 DEF SoundEntry
  <2> QED
    BY <1>0, <2>1, <2>2, <2>3, <2>4 DEF SilentInv
<1>7. ASSUME NEW l \in Links, DownstreamEntry(l) PROVE SilentInv'
  <2>1. /\ impact.pc = "downstream" /\ impact'.pc = "downstream" /\ l \in impact.links
        /\ impact'.touched = impact.touched /\ impact'.asked = impact.asked
        /\ impact'.links = impact.links \ {l}
        /\ impact'.up = impact.up /\ impact'.down = impact.down \cup EntriesFor(l[2], l)
        /\ impact'.service = impact.service /\ impact'.files = impact.files
    BY <1>7 DEF DownstreamEntry, ImpactProcess
  <2>2. /\ l \in DOMAIN edges /\ l[1] # impact.service /\ OwnerOf[l[2]] = impact.service
        /\ Implicated(l[2], impact.files)
    BY <2>1 DEF SilentInv
  <2>3. \A n \in EntriesFor(l[2], l) : SoundEntry(n) /\ n.edge = l /\ n.entity = l[2]
    BY <2>2, EntriesSound
  <2>4. \A n : SoundEntry(n) => SoundEntry(n)'
    BY <1>0, <2>1 DEF SoundEntry
  <2> QED
    BY <1>0, <2>1, <2>2, <2>3, <2>4 DEF SilentInv
<1> QED
  BY <1>1, <1>2, <1>3, <1>4, <1>5, <1>6, <1>7 DEF ImpactStep

\* A digest speaks only to the coupled: each entry is a surfaced change of a contract that
\* the diff implicates and that the service owns and another consumes, or that the service
\* consumes or one whose name its own matches as a pattern, whatever is committed,
\* extracted and ingested meanwhile, as long as no call interpolates a value into the
\* middle of its path.
THEOREM Silent ==
    ASSUME CallsSpelledOut
    PROVE  DigestSpec => []ImpactSilent
<1>1. DigestInit => SilentInv
  BY DEF DigestInit, ImpactInit, Blank, SilentInv
<1>2. ASSUME GraphInv, Located, impact \in ImpactProcess, SilentInv,
             [DigestNext]_<<vars, digestVars>>
      PROVE  SilentInv'
  <2>1. CASE ImpactNext
    BY <1>2, <2>1, SilentStart, SilentStep DEF ImpactNext, GraphInv, IInv
  <2>2. CASE UNCHANGED impact
    BY <1>2, <2>2, ReadersOnlyRead, SilentWhileOthersRun
  <2> QED
    BY <1>2, <2>1, <2>2 DEF DigestNext, NotesNext, digestVars
<1>3. SilentInv => ImpactSilent
  BY DEF SilentInv, ImpactSilent, SoundEntry, Implicated
<1> QED
  BY <1>1, <1>2, <1>3, GraphAlways, LocatedAlways, ImpactTyped, PTL DEF DigestSpec

-----------------------------------------------------------------------------
(* render-notes. *)

\* The render-notes process is a record of its fields.
NotesProcess ==
    [pc : {"idle", "entities", "events"}, since : Nat, head : Nat, only : Services \cup {NoService},
     asked : SUBSET Entities, rows : SUBSET Nat, changelog : SUBSET Nat,
     filed : SUBSET (Services \X Nat), ready : Nat, seen : Nat]

\* The rowids the notes have to tell of.
InScope(i) ==
    /\ events[i].kind \in SurfaceKinds
    /\ events[i].commit \in notes.since + 1 .. notes.head

\* The manifests have declared the link in every commit since the one that was extracted
\* when the notes were started.
Held(l) == DeclaredSince(l, notes.ready)

\* Event i is under every service whose manifest declares its contract.
FiledForAll(i) ==
    \A l \in Links :
        (/\ Held(l)
         /\ l[2] = events[i].entity
         /\ l[1] # OwnerOf[l[2]]
         /\ notes.only \in {NoService, l[1]}) => <<l[1], i>> \in notes.filed

\* What is in the notes is there for a reason.
FiledSoundly ==
    /\ notes.rows \subseteq notes.changelog
    /\ notes.changelog \subseteq DOMAIN events
    /\ \A i \in notes.changelog :
        notes.since # NoCommit => events[i].commit \in notes.since + 1 .. notes.head
    /\ \A x \in notes.filed :
        /\ x[2] \in notes.changelog
        /\ x[1] # OwnerOf[events[x[2]].entity]
        /\ \E l \in DOMAIN edges : l[1] = x[1] /\ l[2] = events[x[2]].entity

\* What was on a timeline at the start is not lost: its entity is still to be gone through,
\* or it is in the changelog and still to be filed, or it is filed.
FiledCompletely ==
    /\ notes.pc # "idle" =>
        /\ notes.seen <= Len(events)
        /\ \A l \in Links : Held(l) => l \in DOMAIN edges
    /\ notes.pc = "events" =>
        \A i \in 1 .. notes.seen :
            InScope(i) =>
                \/ events[i].entity \in notes.asked
                \/ i \in notes.changelog /\ (i \in notes.rows \/ FiledForAll(i))

NotesInv ==
    /\ notes \in NotesProcess
    /\ notes.ready <= HEAD
    /\ FiledSoundly
    /\ FiledCompletely

\* What is held, by the notes' own steps.
LEMMA HeldSame ==
    ASSUME UNCHANGED vars, notes'.ready = notes.ready
    PROVE  /\ HEAD' = HEAD
           /\ \A l : Held(l)' <=> Held(l)
  BY DEF Held, DeclaredSince, ManifestsAt, HEAD, vars

\* While the others run, the notes stay as sound and as complete as they are.
LEMMA NotesWhileOthersRun ==
    ASSUME GraphInv, NotesInv, [Next]_vars, UNCHANGED notes
    PROVE  NotesInv'
<1>1. /\ DOMAIN events \subseteq DOMAIN events'
      /\ \A i \in DOMAIN events : events'[i] = events[i]
      /\ DOMAIN edges \subseteq DOMAIN edges'
  BY GraphStep
<1>2. /\ Len(events) \in Nat /\ DOMAIN events = 1 .. Len(events)
      /\ Len(events') \in Nat /\ DOMAIN events' = 1 .. Len(events')
  <2>1. TypeOK /\ TypeOK'
    BY TypeStep DEF GraphInv, IInv
  <2> QED
    BY <2>1 DEF TypeOK, StoreTypeOK
<1>3. Len(events) <= Len(events')
  BY <1>1, <1>2
<1>4. notes \in NotesProcess /\ notes' \in NotesProcess
  BY DEF NotesInv, NotesProcess
<1>10. notes'.ready <= HEAD' /\ notes.ready \in 0 .. HEAD
  <2>1. TypeOK /\ notes.ready \in Nat /\ notes.ready <= HEAD
    BY <1>4 DEF GraphInv, IInv, NotesInv, NotesProcess
  <2>2. HEAD \in Nat /\ HEAD' \in Nat /\ HEAD <= HEAD'
    BY <2>1, HistoryStep, HEADType DEF HEAD, GitTypeOK, TypeOK
  <2> QED
    BY <2>1, <2>2
<1>11. \A l : Held(l)' => Held(l)
  BY <1>10, DeclaredStep DEF Held, GraphInv, IInv
<1>5. FiledSoundly'
  BY <1>1, <1>4 DEF NotesInv, FiledSoundly
<1>6. notes.pc # "idle" =>
          /\ notes.seen <= Len(events)
          /\ \A l \in Links : Held(l) => l \in DOMAIN edges
          /\ 1 .. notes.seen \subseteq DOMAIN events
  <2>1. notes.seen \in Nat
    BY <1>4 DEF NotesProcess
  <2>2. notes.pc # "idle" =>
            /\ notes.seen <= Len(events)
            /\ \A l \in Links : Held(l) => l \in DOMAIN edges
    BY DEF NotesInv, FiledCompletely
  <2> QED
    BY <1>2, <2>1, <2>2
<1>7. \A i \in DOMAIN events : (InScope(i)' => InScope(i)) /\ (FiledForAll(i) => FiledForAll(i)')
  BY <1>1, <1>11 DEF InScope, FiledForAll
<1>8. (notes.pc # "idle" =>
        /\ notes.seen <= Len(events)
        /\ \A l \in Links : Held(l) => l \in DOMAIN edges)'
  <2>1. notes.seen \in Nat
    BY <1>4 DEF NotesProcess
  <2> QED
    BY <1>1, <1>2, <1>3, <1>6, <1>11, <2>1
<1>9. ASSUME notes.pc = "events", NEW i \in 1 .. notes.seen, InScope(i)'
      PROVE  \/ events'[i].entity \in notes.asked
             \/ i \in notes.changelog /\ (i \in notes.rows \/ FiledForAll(i)')
  BY <1>1, <1>6, <1>7, <1>9 DEF NotesInv, FiledCompletely
<1> QED
  BY <1>4, <1>5, <1>8, <1>9, <1>10 DEF NotesInv, FiledCompletely

\* The types of what the notes read.
LEMMA GraphTypes ==
    ASSUME GraphInv
    PROVE  /\ HEAD \in Nat /\ extracted \in Nat
           /\ DOMAIN entities \subseteq Entities /\ DOMAIN edges \subseteq Links
           /\ Len(events) \in Nat /\ DOMAIN events = 1 .. Len(events)
           /\ \A i \in DOMAIN events : events[i].commit \in Nat \ {0}
<1>1. GitTypeOK /\ StoreTypeOK /\ ExtractTypeOK
  BY DEF GraphInv, IInv, TypeOK
<1>2. \A i \in DOMAIN events : events[i] \in EventRow
  BY <1>1 DEF StoreTypeOK
<1>3. \A i \in DOMAIN events : events[i].commit \in Nat \ {0}
  BY <1>2 DEF EventRow
<1>4. HEAD \in Nat
  BY <1>1 DEF GitTypeOK, HEAD
<1>5. extracted \in Nat
  BY <1>1 DEF ExtractTypeOK
<1> QED
  BY <1>1, <1>3, <1>4, <1>5 DEF StoreTypeOK

\* Who is told of a change: the other services with an edge to the contract.
LEMMA ConsumersAre ==
    ASSUME NEW e, NEW s
    PROVE  s \in ConsumersOf(e)
                <=> \E l \in DOMAIN edges : /\ l[1] = s /\ l[2] = e
                                            /\ s # OwnerOf[e]
                                            /\ notes.only = NoService \/ s = notes.only
<1>1. ASSUME s \in ConsumersOf(e)
      PROVE  \E l \in DOMAIN edges : /\ l[1] = s /\ l[2] = e
                                     /\ s # OwnerOf[e]
                                     /\ notes.only = NoService \/ s = notes.only
  <2>1. PICK l \in {x \in InboundEdges(e) : /\ x[1] # OwnerOf[e]
                                            /\ notes.only = NoService \/ x[1] = notes.only} :
            s = l[1]
    BY <1>1 DEF ConsumersOf
  <2> QED
    BY <2>1 DEF InboundEdges
<1>2. ASSUME NEW l \in DOMAIN edges, l[1] = s, l[2] = e, s # OwnerOf[e],
             notes.only = NoService \/ s = notes.only
      PROVE  s \in ConsumersOf(e)
  <2>1. l \in InboundEdges(e)
    BY <1>2 DEF InboundEdges
  <2> QED
    BY <1>2, <2>1 DEF ConsumersOf
<1> QED
  BY <1>1, <1>2

\* Notes that start see nothing yet.
LEMMA NotesStart ==
    ASSUME GraphInv, NEW since \in 0 .. HEAD, NEW only \in Services \cup {NoService},
           StartNotes(since, only), UNCHANGED vars
    PROVE  NotesInv'
<1>1. /\ notes'.pc = "entities" /\ notes'.since = since /\ notes'.head = HEAD
      /\ notes'.only = only /\ notes'.ready = extracted /\ notes'.seen = Len(events)
      /\ notes'.rows = {} /\ notes'.changelog = {} /\ notes'.filed = {}
      /\ notes' = [pc |-> "entities", since |-> since, head |-> HEAD, only |-> only,
                   asked |-> {}, rows |-> {}, changelog |-> {}, filed |-> {},
                   ready |-> extracted, seen |-> Len(events)]
  BY DEF StartNotes, NoNotes
<1>2. Len(events) \in Nat
  BY GraphTypes
<1>3. notes' \in NotesProcess
  <2>1. HEAD \in Nat
    BY GraphTypes
  <2>2. since \in Nat
    BY <2>1 DEF HEAD
  <2>3. extracted \in Nat
    BY GraphTypes
  <2>4. PICK head, seen : head = HEAD /\ seen = Len(events)
    OBVIOUS
  <2>5. head \in Nat /\ seen \in Nat
    BY <1>2, <2>1, <2>4
  <2>6. notes' = [pc |-> "entities", since |-> since, head |-> head, only |-> only,
                  asked |-> {}, rows |-> {}, changelog |-> {}, filed |-> {},
                  ready |-> extracted, seen |-> seen]
    BY <1>1, <2>4
  <2> QED
    BY <2>2, <2>3, <2>5, <2>6 DEF NotesProcess
<1>4. FiledSoundly'
  BY <1>1 DEF FiledSoundly
<1>5. /\ notes'.seen <= Len(events')
      /\ notes'.ready <= HEAD'
      /\ \A l \in Links : Held(l)' => l \in DOMAIN edges'
  <2>1. extracted <= HEAD /\ \A l \in Links : DeclaredSince(l, extracted) => l \in DOMAIN edges
    BY DEF GraphInv, SeedInv
  <2>2. events' = events /\ edges' = edges /\ history' = history
    BY DEF vars, store
  <2>3. HEAD' = HEAD /\ \A l : Held(l)' => DeclaredSince(l, extracted)
    BY <1>1, <2>2 DEF HEAD, Held, DeclaredSince, ManifestsAt
  <2> QED
    BY <1>1, <1>2, <2>1, <2>2, <2>3
<1>6. FiledCompletely'
  BY <1>1, <1>5 DEF FiledCompletely
<1> QED
  BY <1>3, <1>4, <1>5, <1>6 DEF NotesInv

\* The entities that are gone through include that of every event.
LEMMA NotesEntitiesStep ==
    ASSUME GraphInv, NotesInv, NotesEntities, UNCHANGED vars
    PROVE  NotesInv'
<1>1. notes \in NotesProcess /\ FiledSoundly /\ FiledCompletely
  BY DEF NotesInv
<1>2. /\ notes.pc = "entities" /\ notes'.pc = "events" /\ notes'.asked = DOMAIN entities
      /\ notes'.rows = notes.rows /\ notes'.changelog = notes.changelog
      /\ notes'.filed = notes.filed /\ notes'.since = notes.since /\ notes'.head = notes.head
      /\ notes'.ready = notes.ready /\ notes'.seen = notes.seen
  BY <1>1 DEF NotesEntities, NotesProcess
<1>3. /\ DOMAIN entities \subseteq Entities
      /\ Len(events) \in Nat /\ DOMAIN events = 1 .. Len(events)
      /\ notes.seen \in Nat
  BY <1>1, GraphTypes DEF NotesProcess
<1>4. notes' \in NotesProcess
  BY <1>1, <1>3 DEF NotesEntities, NotesProcess
<1>5. FiledSoundly'
  BY <1>1, <1>2 DEF FiledSoundly, vars, store
<1>6. /\ notes.seen <= Len(events)
      /\ \A l \in Links : Held(l) => l \in DOMAIN edges
  BY <1>1, <1>2 DEF FiledCompletely
<1>7. ASSUME NEW i \in 1 .. notes.seen PROVE events[i].entity \in DOMAIN entities
  <2>1. i \in DOMAIN events
    BY <1>3, <1>6
  <2>2. Bounded(events[i].entity)
    BY <2>1 DEF GraphInv, BoundInv
  <2> QED
    BY <2>2 DEF Bounded, OriginOf
<1>8. FiledCompletely'
  BY <1>2, <1>6, <1>7, HeldSame DEF FiledCompletely, vars, store
<1> QED
  BY <1>2, <1>4, <1>5, <1>8, HeldSame DEF NotesInv

\* The surfaced events of an entity enter the changelog, and are to be filed.
LEMMA NotesEventsStep ==
    ASSUME GraphInv, NotesInv, NEW e \in Entities, NotesEvents(e), UNCHANGED vars
    PROVE  NotesInv'
<1> DEFINE rows == {i \in EventsFor(e) : /\ events[i].kind \in SurfaceKinds
                                         /\ InNotesWindow(events[i].commit)}
<1>1. notes \in NotesProcess /\ FiledSoundly /\ FiledCompletely
  BY DEF NotesInv
<1>2. notes' = [notes EXCEPT !.asked = @ \ {e}, !.rows = rows, !.changelog = @ \cup rows]
  BY DEF NotesEvents
<1>3. /\ notes.pc = "events" /\ notes'.pc = "events" /\ notes'.asked = notes.asked \ {e}
      /\ notes.rows = {} /\ notes'.rows = rows /\ notes'.changelog = notes.changelog \cup rows
      /\ notes'.filed = notes.filed /\ notes'.since = notes.since /\ notes'.head = notes.head
      /\ notes'.ready = notes.ready /\ notes'.seen = notes.seen /\ notes'.only = notes.only
  BY <1>1, <1>2 DEF NotesEvents, NotesProcess
<1>4. /\ Len(events) \in Nat /\ DOMAIN events = 1 .. Len(events)
      /\ DOMAIN events \subseteq Nat
      /\ notes.seen \in Nat /\ notes.since \in Nat /\ notes.head \in Nat
  BY <1>1, GraphTypes DEF NotesProcess
<1>5. \A i \in DOMAIN events : events[i].commit \in Nat \ {0}
  BY GraphTypes
<1>6. \A i \in DOMAIN events :
          i \in rows <=> /\ events[i].entity = e /\ events[i].kind \in SurfaceKinds
                        /\ InNotesWindow(events[i].commit)
  BY DEF EventsFor
<1>7. rows \subseteq DOMAIN events
  BY DEF EventsFor
<1> HIDE DEF rows
<1>8. notes' \in NotesProcess
  BY <1>1, <1>2, <1>4, <1>7 DEF NotesProcess
<1>9. /\ notes.seen <= Len(events)
      /\ \A l \in Links : Held(l) => l \in DOMAIN edges
      /\ \A i \in 1 .. notes.seen :
            InScope(i) =>
                \/ events[i].entity \in notes.asked
                \/ i \in notes.changelog /\ (i \in notes.rows \/ FiledForAll(i))
  BY <1>1, <1>3 DEF FiledCompletely
<1>10. FiledSoundly'
  <2>1. \A i \in notes'.changelog :
            notes'.since # NoCommit => events[i].commit \in notes'.since + 1 .. notes'.head
    <3>1. \A i \in rows :
              notes.since # NoCommit => events[i].commit \in notes.since + 1 .. notes.head
      BY <1>4, <1>5, <1>6, <1>7 DEF InNotesWindow
    <3> QED
      BY <1>1, <1>3, <3>1 DEF FiledSoundly
  <2>2. notes'.rows \subseteq notes'.changelog /\ notes'.changelog \subseteq DOMAIN events
    BY <1>1, <1>3, <1>7 DEF FiledSoundly
  <2>3. \A x \in notes'.filed :
            /\ x[2] \in notes'.changelog
            /\ x[1] # OwnerOf[events[x[2]].entity]
            /\ \E l \in DOMAIN edges : l[1] = x[1] /\ l[2] = events[x[2]].entity
    BY <1>1, <1>3 DEF FiledSoundly
  <2> QED
    BY <2>1, <2>2, <2>3 DEF FiledSoundly, vars, store
<1>11. ASSUME NEW i \in 1 .. notes.seen, InScope(i)
       PROVE  \/ events[i].entity \in notes'.asked
              \/ i \in notes'.changelog /\ (i \in notes'.rows \/ FiledForAll(i))
  <2>1. CASE events[i].entity = e
    <3>1. i \in DOMAIN events
      BY <1>4, <1>9
    <3>2. InNotesWindow(events[i].commit)
      BY <1>4, <1>5, <1>11, <3>1 DEF InScope, InNotesWindow
    <3> QED
      BY <1>3, <1>6, <1>11, <2>1, <3>1, <3>2 DEF InScope
  <2>2. CASE events[i].entity # e
    BY <1>3, <1>9, <1>11, <2>2
  <2> QED
    BY <2>1, <2>2
<1>12. FiledCompletely'
  <2>1. \A i : InScope(i)' <=> InScope(i)
    BY <1>3 DEF InScope, vars, store
  <2>2. \A l : Held(l)' <=> Held(l)
    BY <1>3, HeldSame
  <2>3. \A i : FiledForAll(i)' <=> FiledForAll(i)
    BY <1>3, <2>2 DEF FiledForAll, vars, store
  <2> QED
    BY <1>3, <1>9, <1>11, <2>1, <2>2, <2>3 DEF FiledCompletely, vars, store
<1> QED
  BY <1>3, <1>8, <1>10, <1>12, HeldSame DEF NotesInv

\* An event is filed under the services that consume its contract by then.
LEMMA NotesFileStep ==
    ASSUME GraphInv, NotesInv, NEW k \in DOMAIN events, NotesFile(k), UNCHANGED vars
    PROVE  NotesInv'
<1>1. notes \in NotesProcess /\ FiledSoundly /\ FiledCompletely
  BY DEF NotesInv
<1>2. PICK services : services = ConsumersOf(events[k].entity)
  OBVIOUS
<1>3. /\ notes.pc = "events" /\ notes'.pc = "events" /\ notes'.asked = notes.asked
      /\ k \in notes.rows /\ notes'.rows = notes.rows \ {k}
      /\ notes'.changelog = notes.changelog
      /\ notes'.filed = notes.filed \cup (services \X {k})
      /\ notes'.since = notes.since /\ notes'.head = notes.head
      /\ notes'.ready = notes.ready /\ notes'.seen = notes.seen /\ notes'.only = notes.only
  BY <1>1, <1>2 DEF NotesFile, NotesProcess
<1>4. /\ DOMAIN events \subseteq Nat /\ DOMAIN edges \subseteq Links
      /\ services \subseteq Services
  <2>1. DOMAIN events \subseteq Nat /\ DOMAIN edges \subseteq Links
    BY GraphTypes
  <2>2. \A l \in Links : l[1] \in Services
    OBVIOUS
  <2> QED
    BY <1>2, <2>1, <2>2, ConsumersAre
<1>5. \A s : s \in services <=>
          \E l \in DOMAIN edges : /\ l[1] = s /\ l[2] = events[k].entity
                                  /\ s # OwnerOf[events[k].entity]
                                  /\ notes.only = NoService \/ s = notes.only
  BY <1>2, ConsumersAre
<1>6. notes' \in NotesProcess
  <2>1. services \X {k} \subseteq Services \X Nat
    BY <1>4
  <2>2. notes' = [notes EXCEPT !.rows = @ \ {k}, !.filed = @ \cup (services \X {k})]
    BY <1>2 DEF NotesFile
  <2> QED
    BY <1>1, <2>1, <2>2 DEF NotesProcess
<1>7. FiledSoundly'
  <2>1. \A x \in services \X {k} :
            /\ x[2] \in notes.changelog
            /\ x[1] # OwnerOf[events[x[2]].entity]
            /\ \E l \in DOMAIN edges : l[1] = x[1] /\ l[2] = events[x[2]].entity
    BY <1>1, <1>3, <1>5 DEF FiledSoundly
  <2> QED
    BY <1>1, <1>3, <2>1 DEF FiledSoundly, vars, store
<1>8. /\ notes.seen <= Len(events)
      /\ \A l \in Links : Held(l) => l \in DOMAIN edges
      /\ \A i \in 1 .. notes.seen :
            InScope(i) =>
                \/ events[i].entity \in notes.asked
                \/ i \in notes.changelog /\ (i \in notes.rows \/ FiledForAll(i))
  BY <1>1, <1>3 DEF FiledCompletely
<1>12. HEAD' = HEAD /\ \A l : Held(l)' <=> Held(l)
  BY <1>3, HeldSame
<1>9. \A i : FiledForAll(i) => FiledForAll(i)'
  BY <1>3, <1>12 DEF FiledForAll, vars, store
<1>10. FiledForAll(k)'
  <2>1. SUFFICES ASSUME NEW l \in Links, Held(l),
                        l[2] = events[k].entity, l[1] # OwnerOf[l[2]],
                        notes.only \in {NoService, l[1]}
                 PROVE  <<l[1], k>> \in notes'.filed
    BY <1>3, <1>12 DEF FiledForAll, vars, store
  <2>2. l \in DOMAIN edges
    BY <1>8, <2>1
  <2>3. l[1] \in services
    BY <1>5, <2>1, <2>2
  <2> QED
    BY <1>3, <2>3
<1>11. FiledCompletely'
  <2>1. \A i : InScope(i)' <=> InScope(i)
    BY <1>3 DEF InScope, vars, store
  <2>2. \A i \in 1 .. notes.seen :
            InScope(i) =>
                \/ events[i].entity \in notes'.asked
                \/ i \in notes'.changelog /\ (i \in notes'.rows \/ FiledForAll(i)')
    BY <1>3, <1>8, <1>9, <1>10
  <2> QED
    BY <1>3, <1>8, <1>12, <2>1, <2>2 DEF FiledCompletely, vars, store
<1> QED
  BY <1>3, <1>6, <1>7, <1>11, <1>12 DEF NotesInv

\* Release notes are complete for what was there when they were started and file nothing
\* under a service that does not consume it, whatever is committed, extracted, ingested
\* and interrupted while they are computed, also with a model's verdicts.
THEOREM NotesFiled == DigestSpec => []NotesExact
<1>0. NoNotes \in NotesProcess /\ NoNotes.pc = "idle" /\ NoNotes.rows = {}
      /\ NoNotes.changelog = {} /\ NoNotes.filed = {}
      /\ NoNotes.ready = 0
  BY DEF NoNotes, NotesProcess, NoCommit
<1>1. DigestInit => NotesInv
  <2>1. DigestInit => notes = NoNotes /\ HEAD = 0
    BY DEF DigestInit, NotesInit, Init, GitInit, HEAD
  <2> QED
    BY <1>0, <2>1 DEF NotesInv, FiledSoundly, FiledCompletely
<1>2. ASSUME GraphInv, NotesInv, [DigestNext]_<<vars, digestVars>>
      PROVE  NotesInv'
  <2>1. CASE NotesNext
    <3>1. UNCHANGED vars
      BY <2>1 DEF NotesNext
    <3>2. CASE \E since \in 0 .. HEAD, only \in Services \cup {NoService} : RunNotes(since, only)
      BY <1>2, <3>1, <3>2, NotesStart DEF RunNotes
    <3>3. CASE PrintNotes
      <4>1. notes' = NoNotes
        BY <3>3 DEF PrintNotes
      <4>2. HEAD' \in Nat /\ 0 <= HEAD'
        BY <1>2, <3>1, GraphTypes DEF HEAD, vars
      <4> QED
        BY <1>0, <4>1, <4>2 DEF NotesInv, FiledSoundly, FiledCompletely, NotesProcess
    <3>4. CASE NotesStep /\ ~PrintNotes
      BY <1>2, <3>1, <3>4, NotesEntitiesStep, NotesEventsStep, NotesFileStep DEF NotesStep
    <3> QED
      BY <2>1, <3>2, <3>3, <3>4 DEF NotesNext
  <2>2. CASE UNCHANGED notes
    BY <1>2, <2>2, ReadersOnlyRead, NotesWhileOthersRun
  <2> QED
    BY <1>2, <2>1, <2>2 DEF DigestNext, ImpactNext, digestVars
<1>3. NotesInv => NotesExact
  <2> SUFFICES ASSUME NotesInv PROVE NotesExact
    OBVIOUS
  <2>1. FiledSoundly /\ FiledCompletely
    BY DEF NotesInv
  <2>2. ASSUME NotesComplete, NEW i \in 1 .. notes.seen, InScope(i)
        PROVE  i \in notes.changelog /\ FiledForAll(i)
    BY <2>1, <2>2 DEF FiledCompletely, NotesComplete
  <2>3. \A x \in notes.filed :
            /\ x[2] \in notes.changelog
            /\ x[1] # OwnerOf[events[x[2]].entity]
            /\ \E l \in DOMAIN edges : l[1] = x[1] /\ l[2] = events[x[2]].entity
            /\ notes.since # NoCommit => events[x[2]].commit \in notes.since + 1 .. notes.head
    BY <2>1 DEF FiledSoundly
  <2> QED
    BY <2>2, <2>3 DEF NotesExact, InScope, FiledForAll, Held
<1> QED
  BY <1>1, <1>2, <1>3, GraphAlways, PTL DEF DigestSpec
=================================================================================

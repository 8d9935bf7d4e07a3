------------------------------ MODULE DeliveryProofs -----------------------------
(* Proof that no change is missed: whatever the marker of a service has passed was   *)
(* shown to the service, for any number of concurrent sessions, crashes, commits and *)
(* re-ingests, when extract comes first, verdicts are rule-based and HEAD is          *)
(* ingested whenever a sync reads it.                                                *)
EXTENDS Delivery, HistoryProofs

USE GitAssumption, StoreAssumption, IngestAssumption, ExtractAssumption,
    TimelineAssumption, SyncAssumption, DeliveryAssumption

-----------------------------------------------------------------------------
(* The invariant. *)

\* Every commit up to c has been ingested.
Ingested(c) == 1 .. c \subseteq done

\* Every change that matters to s, up to c, was shown to it.
Delivered(s, c) == \A i \in Actionable(s) : events[i].commit <= c => i \in delivered[s]

\* The session is done with the producer of l.
Collected(p, l) ==
    \A i \in DOMAIN events :
        /\ events[i].kind \in SurfaceKinds
        /\ events[i].entity = l[2]
        /\ events[i].commit <= sync[p].head
        /\ DeclaredSince(l, events[i].commit)
        => i \in sync[p].found \cup delivered[sync[p].service]

\* A session covers everything up to its HEAD: what is before its window was delivered
\* when it read the marker, what is in the window is found edge by edge.
SessionInv(p) ==
    sync[p].pc # "idle" =>
        /\ sync[p].service \in Services
        /\ sync[p].head # NoCommit
        /\ Ingested(sync[p].head)
        /\ sync[p].pc # "marker" =>
            Ingested(sync[p].since) /\ Delivered(sync[p].service, sync[p].since)
        /\ sync[p].pc \in {"edges", "collect"} => sync[p].head <= sync[p].until
        /\ sync[p].pc = "collect" =>
            \A l \in Links :
                l[1] = sync[p].service /\ DeclaredSince(l, sync[p].head)
                    => l \in sync[p].links \/ Collected(p, l)
        /\ sync[p].pc = "mark" => Delivered(sync[p].service, sync[p].head)

MarkerInv ==
    \A s \in Services : Ingested(sync_state[s]) /\ Delivered(s, sync_state[s])

\* Every event, and the one about to be appended, is about an entity that has a row.
RowsExist ==
    /\ \A i \in DOMAIN events : events[i].entity \in DOMAIN entities
    /\ ing.pc \in {"bounds", "summarize", "append"} => ing.at[2] \in DOMAIN entities

\* No commit is ingested before an extract of its tree, or a later one, went through.
EdgesFirst == \A c \in done : c <= extracted

SyncTypeOK ==
    /\ sync \in [Sessions -> SyncProcess]
    /\ syncs \in Nat
    /\ delivered \in [Services -> SUBSET Nat]

GraphInv == IInv /\ SeedInv /\ FlagInv /\ RowsExist /\ EdgesFirst

DInv ==
    /\ GraphInv
    /\ SyncTypeOK
    /\ MarkerInv
    /\ \A p \in Sessions : SessionInv(p)

-----------------------------------------------------------------------------
(* Steps of git, ingest and extract. *)

\* Ingest upserts the row before it appends the event.
LEMMA RowsStep ==
    ASSUME TypeOK, LoopInv, RowsExist, [Next]_vars
    PROVE  RowsExist'
<1>0. DOMAIN entities \subseteq DOMAIN entities' /\ ing \in IngestProcess
  BY RowsOnlyGrow DEF TypeOK, IngestTypeOK
<1>1. \A i \in DOMAIN events' : events'[i].entity \in DOMAIN entities'
  <2>1. CASE IngestNext /\ IngestAppend
    <3>1. PICK ev \in EventRow : AddEvent(ev) /\ ev.entity = ing.at[2]
      BY <2>1, AppendedEvent
    <3>2. ing.at[2] \in DOMAIN entities
      BY <2>1 DEF RowsExist, IngestAppend
    <3> QED
      BY <1>0, <3>1, <3>2, AddEventEffect DEF RowsExist, TypeOK
  <2>2. CASE ~(IngestNext /\ IngestAppend)
    BY <1>0, <2>2, EventsStep DEF RowsExist
  <2> QED
    BY <2>1, <2>2
<1>2. (ing.pc \in {"bounds", "summarize", "append"} => ing.at[2] \in DOMAIN entities)'
  <2>1. CASE UNCHANGED ing
    BY <1>0, <2>1 DEF RowsExist
  <2>2. ASSUME NEW s \in Slots, IngestEntity(s) PROVE ing'.at[2] \in DOMAIN entities'
    <3>1. s[2] \in DOMAIN entities'
      BY <2>2 DEF IngestEntity, UpsertEntity
    <3>2. ing'.at = s
      BY <1>0, <2>2 DEF IngestEntity, IngestProcess
    <3> QED
      BY <3>1, <3>2
  <2>3. CASE IngestBounds \/ IngestSummarize
    <3>1. ing.pc \in {"bounds", "summarize"}
      BY <2>3 DEF IngestBounds, IngestSummarize
    <3>2. ing'.at = ing.at
      BY <1>0, <2>3 DEF IngestBounds, IngestSummarize, IngestProcess
    <3> QED
      BY <1>0, <3>1, <3>2 DEF RowsExist
  <2>4. CASE IngestAppend \/ IngestNextCommit
    <3>1. ing'.pc = "scan"
      BY <1>0, <2>4 DEF IngestAppend, IngestNextCommit, CommitIngested, IngestProcess
    <3> QED
      BY <3>1
  <2>5. CASE IngestFinish \/ IngestCrash
    BY <2>5 DEF IngestFinish, IngestCrash, Resting
  <2>6. ASSUME NEW lo \in 0 .. HEAD, NEW hi \in Commits, RunIngest(lo, hi)
        PROVE  ing'.pc = "scan"
    BY <2>6 DEF RunIngest, StartIngest, Resting
  <2> QED
    BY <2>1, <2>2, <2>3, <2>4, <2>5, <2>6
       DEF Next, DeveloperCommits, IngestNext, IngestStep, ExtractNext, ingVars, vars
<1> QED
  BY <1>1, <1>2 DEF RowsExist

\* A commit is only ingested by an active run, and runs come after an extract.
LEMMA EdgesFirstStep ==
    ASSUME ExtractFirst, TypeOK, LoopInv, SeedInv, FlagInv, EdgesFirst, [Next]_vars
    PROVE  EdgesFirst'
<1>0. done \subseteq Nat /\ ing.hi \in Nat /\ ing.commit \in Nat
  BY DEF TypeOK, IngestTypeOK, IngestProcess, Commits
<1>1. extracted <= extracted' /\ extracted \in Nat /\ extracted' \in Nat
  BY ExtractedGrows
<1>2. done' = done \/ (Active /\ done' = done \cup {ing.commit})
  BY DEF Next, DeveloperCommits, IngestNext, ExtractNext, RunIngest, StartIngest, IngestStep,
         IngestEntity, IngestBounds, IngestSummarize, IngestAppend, IngestNextCommit,
         IngestFinish, IngestCrash, CommitIngested, Active, ingVars, vars
<1>3. Active => ing.commit <= extracted'
  BY <1>0, <1>1 DEF LoopInv, FlagInv
<1>4. \A c \in done : c <= extracted'
  BY <1>0, <1>1 DEF EdgesFirst
<1>5. \A c \in done' : c <= extracted'
  BY <1>2, <1>3, <1>4
<1> QED
  BY <1>5 DEF EdgesFirst

\* What the sessions rely on is kept by git, ingest and extract.
LEMMA GraphStep ==
    ASSUME GraphInv, ExtractFirst, [Next]_vars
    PROVE  GraphInv'
<1>1. IInv'
  BY TypeStep, LoopStep, EventsOfHistoryStep, CompletedStep, ExactStep, BreakingStep
     DEF GraphInv, IInv
<1>2. SeedInv' /\ FlagInv' /\ RowsExist' /\ EdgesFirst'
  BY SeedStep, FlagStep, RowsStep, EdgesFirstStep DEF GraphInv, IInv
<1> QED
  BY <1>1, <1>2 DEF GraphInv

\* With the deterministic verdicts nothing is added to an ingested commit any more.
LEMMA IngestedFixed ==
    ASSUME IInv, ~RealLLM, [Next]_vars, NEW i \in DOMAIN events'
    PROVE  \/ i \in DOMAIN events /\ events'[i] = events[i]
           \/ events'[i].commit \in Nat \ {0} /\ events'[i].commit \notin done
<1>0. TypeOK /\ LoopInv /\ CompletedCommitsRecorded
  BY DEF IInv
<1>1. CASE IngestNext /\ IngestAppend
  <2>1. PICK ev \in EventRow :
            /\ AddEvent(ev)
            /\ ing.at \in Work(ing.commit)
            /\ ev.entity = ing.at[2]
            /\ ev.commit = ing.commit
            /\ ev.kind \in Verdicts(Structural(ing.commit, ing.at[1], ing.at[2]))
    BY <1>0, <1>1, AppendedEvent
  <2>2. CASE i \in DOMAIN events
    BY <1>0, <2>1, <2>2, AddEventEffect DEF TypeOK
  <2>3. CASE i \notin DOMAIN events
    <3>1. events'[i] = ev /\ ~HasEvent(ev.entity, ev.commit, ev.kind)
      BY <1>0, <2>1, <2>3, AddEventEffect DEF TypeOK
    <3>2. ev.commit \notin done
      <4>1. SUFFICES ASSUME ev.commit \in done PROVE FALSE
        OBVIOUS
      <4>2. Recorded(ev.commit, ing.at)
        BY <1>0, <2>1, <4>1 DEF CompletedCommitsRecorded
      <4> QED
        BY <2>1, <3>1, <4>2 DEF Recorded, HasEvent, Verdicts
    <3> QED
      BY <3>1, <3>2 DEF EventRow
  <2> QED
    BY <2>2, <2>3
<1>2. CASE ~(IngestNext /\ IngestAppend)
  BY <1>2, EventsStep
<1> QED
  BY <1>1, <1>2

\* What the manifests declare from a recorded event on is less after a commit, never more.
LEMMA DeclaredOfEvent ==
    ASSUME IInv, [Next]_vars, NEW i \in DOMAIN events, NEW l,
           DeclaredSince(l, events[i].commit)'
    PROVE  events'[i] = events[i] => DeclaredSince(l, events[i].commit)
<1> SUFFICES ASSUME events'[i] = events[i] PROVE DeclaredSince(l, events[i].commit)
  OBVIOUS
<1>1. PICK c \in 0 .. HEAD : c = events[i].commit
  BY HEADType DEF IInv, EventsOfHistory, Commits, HEAD, TypeOK, GitTypeOK
<1>2. DeclaredSince(l, c)'
  BY <1>1
<1> QED
  BY <1>1, <1>2, DeclaredStep DEF IInv

\* Sync reads the history as it is.
LEMMA SameConcerns ==
    ASSUME UNCHANGED <<history, events>>
    PROVE  /\ \A l, c : DeclaredSince(l, c)' = DeclaredSince(l, c)
           /\ \A s : Actionable(s)' = Actionable(s)
<1>1. \A l, c : DeclaredSince(l, c)' = DeclaredSince(l, c)
  BY DEF DeclaredSince, ManifestsAt, HEAD
<1> QED
  BY <1>1 DEF Actionable, Declares

\* So neither what was shown nor what was collected up to an ingested commit falls
\* behind.
LEMMA DeliveredStable ==
    ASSUME IInv, ~RealLLM, [Next]_vars, UNCHANGED delivered,
           NEW s, NEW c \in Nat, Ingested(c), Delivered(s, c)
    PROVE  Delivered(s, c)'
<1> SUFFICES ASSUME NEW i \in Actionable(s)', events'[i].commit <= c
             PROVE  i \in delivered[s]
  BY DEF Delivered
<1>1. i \in DOMAIN events'
  BY DEF Actionable
<1>2. i \in DOMAIN events /\ events'[i] = events[i]
  BY <1>1, IngestedFixed DEF Ingested
<1>3. i \in Actionable(s)
  BY <1>2, DeclaredOfEvent DEF Actionable, Declares
<1> QED
  BY <1>2, <1>3 DEF Delivered

\* The same for a session that went through the edges of a producer.
LEMMA CollectedStable ==
    ASSUME IInv, ~RealLLM, [Next]_vars, UNCHANGED <<sync, delivered>>,
           NEW p, NEW l, sync[p].head \in Nat, Ingested(sync[p].head), Collected(p, l)
    PROVE  Collected(p, l)'
<1> SUFFICES ASSUME NEW i \in DOMAIN events', events'[i].kind \in SurfaceKinds,
                    events'[i].entity = l[2], events'[i].commit <= sync[p].head,
                    DeclaredSince(l, events[i].commit)'
             PROVE  i \in sync[p].found \cup delivered[sync[p].service]
  BY DEF Collected
<1>1. i \in DOMAIN events /\ events'[i] = events[i]
  BY IngestedFixed DEF Ingested
<1>2. DeclaredSince(l, events[i].commit)
  BY <1>1, DeclaredOfEvent
<1> QED
  BY <1>1, <1>2 DEF Collected

\* No step of git, ingest or extract moves a marker.
LEMMA MarkersKept ==
    ASSUME [Next]_vars
    PROVE  UNCHANGED sync_state
<1>1. CASE DeveloperCommits
  BY <1>1 DEF DeveloperCommits, store
<1>2. CASE IngestNext
  BY <1>2 DEF IngestNext, RunIngest, StartIngest, IngestStep, IngestEntity, IngestBounds,
              IngestSummarize, IngestAppend, IngestNextCommit, IngestFinish, IngestCrash,
              store
<1>3. CASE ExtractNext
  BY <1>3 DEF ExtractNext, StartExtract, ExtractStep, ExtractProducer, ExtractManifests, ReadManifest,
              SeedManifestEdge, IndexProducers, ResolveCodeEdge, ExtractFinish,
              ExtractCrash, store
<1> QED
  BY <1>1, <1>2, <1>3 DEF Next, vars, store

\* Whatever git, ingest and extract do, the sessions and the markers stay covered.
LEMMA GraphStepKeepsSessions ==
    ASSUME DInv, ~RealLLM, ExtractFirst, [Next]_vars, UNCHANGED syncVars
    PROVE  DInv'
<1>0. IInv /\ done \subseteq done' /\ UNCHANGED <<sync, syncs, delivered, sync_state>>
  BY DoneGrows, MarkersKept DEF DInv, GraphInv, syncVars
<1>1. GraphInv' /\ SyncTypeOK'
  BY <1>0, GraphStep DEF DInv, SyncTypeOK
<1>2. MarkerInv'
  <2>1. \A s \in Services : sync_state[s] \in Nat
    BY <1>0 DEF IInv, TypeOK, StoreTypeOK
  <2>2. ASSUME NEW s \in Services
        PROVE  Ingested(sync_state[s])' /\ Delivered(s, sync_state[s])'
    <3>1. PICK c \in Nat : c = sync_state[s]
      BY <2>1
    <3>2. Ingested(c) /\ Delivered(s, c)
      BY <3>1 DEF DInv, MarkerInv
    <3>3. Delivered(s, c)' /\ Ingested(c)'
      BY <1>0, <3>2, DeliveredStable DEF Ingested
    <3>4. sync_state'[s] = c
      BY <1>0, <3>1
    <3> QED
      BY <3>3, <3>4 DEF Ingested, Delivered
  <2> QED
    BY <2>2 DEF MarkerInv
<1>3. ASSUME NEW p \in Sessions, sync[p].pc # "idle" PROVE SessionInv(p)'
  <2>1. SessionInv(p) /\ sync[p].head \in Nat /\ sync[p].since \in Nat
    BY <1>3 DEF DInv, SyncTypeOK, SyncProcess
  <2>2. PICK h \in Nat, c \in Nat : h = sync[p].head /\ c = sync[p].since
    BY <2>1
  <2>3. PICK s \in Services : s = sync[p].service
    BY <1>3, <2>1 DEF SessionInv
  <2>4. Ingested(h) /\ Ingested(h)'
    BY <1>0, <1>3, <2>1, <2>2 DEF SessionInv, Ingested
  <2>5. sync[p].pc # "marker" => Ingested(c)' /\ Delivered(s, c)'
    <3>1. sync[p].pc # "marker" => Ingested(c) /\ Delivered(s, c)
      BY <1>3, <2>1, <2>2, <2>3 DEF SessionInv
    <3> QED
      BY <1>0, <3>1, DeliveredStable DEF Ingested
  <2>6. sync[p].pc = "mark" => Delivered(s, h)'
    <3>1. sync[p].pc = "mark" => Delivered(s, h)
      BY <2>1, <2>2, <2>3 DEF SessionInv
    <3> QED
      BY <1>0, <2>4, <3>1, DeliveredStable
  <2>7. \A l : Collected(p, l) => Collected(p, l)'
    BY <1>0, <2>1, <2>2, <2>4, CollectedStable
  <2>8. \A l : DeclaredSince(l, h)' => DeclaredSince(l, h)
    <3>1. h \in Commits
      BY <1>0, <1>3, <2>1, <2>2, <2>4
         DEF SessionInv, Ingested, IInv, TypeOK, IngestTypeOK, NoCommit
    <3>2. h \in 0 .. HEAD
      BY <3>1 DEF Commits, HEAD
    <3> QED
      BY <1>0, <3>2, DeclaredStep DEF IInv
  <2>9. \A l : DeclaredSince(l, sync[p].head)' => DeclaredSince(l, sync[p].head)
    BY <1>0, <2>2, <2>8 DEF DeclaredSince
  <2> QED
    BY <1>0, <2>1, <2>2, <2>3, <2>4, <2>5, <2>6, <2>7, <2>9
       DEF SessionInv, Ingested, Delivered
<1> QED
  BY <1>0, <1>1, <1>2, <1>3 DEF DInv, SessionInv

-----------------------------------------------------------------------------
(* Steps of the sessions. *)

\* Sync only reads the history, the timelines and the edges.
LEMMA GraphUntouched ==
    ASSUME GraphInv, UNCHANGED <<history, entities, events, edges, ingVars, extVars>>,
           sync_state' \in [Services -> Nat]
    PROVE  GraphInv'
<1>1. UNCHANGED <<history, entities, events, edges, ing, runs, done, interrupted, ext,
                  extracts, extracted>>
  BY DEF ingVars, extVars
<1>2. TypeOK'
  <2>1. GitTypeOK' /\ Commits' = Commits
    BY <1>1 DEF GraphInv, IInv, TypeOK, GitTypeOK, Commits
  <2>2. StoreTypeOK'
    BY <1>1 DEF GraphInv, IInv, TypeOK, StoreTypeOK
  <2>3. IngestTypeOK' /\ ExtractTypeOK'
    BY <1>1, <2>1 DEF GraphInv, IInv, TypeOK, IngestTypeOK, ExtractTypeOK
  <2> QED
    BY <2>1, <2>2, <2>3 DEF TypeOK
<1>3. \A c, f, e : Structural(c, f, e)' = Structural(c, f, e)
  BY <1>1 DEF Structural, TreeAt, ParentTree
<1>4. \A c : Work(c)' = Work(c)
  BY <1>1, <1>3 DEF Work
<1>5. \A c, s : Recorded(c, s)' = Recorded(c, s)
  BY <1>1, <1>3 DEF Recorded
<1>6. \A e : HasInboundEdge(e)' = HasInboundEdge(e)
  BY <1>1 DEF HasInboundEdge
<1>7. LoopInv'
  BY <1>1, <1>3, <1>4, <1>5, <1>6 DEF GraphInv, IInv, LoopInv, Active, Commits, Verdicts
<1>8. EventsOfHistory' /\ CompletedCommitsRecorded' /\ FlagsBacked'
  BY <1>1, <1>4, <1>5, <1>6
     DEF GraphInv, IInv, EventsOfHistory, CompletedCommitsRecorded, FlagsBacked, Commits
<1>9. EventsExact'
  BY <1>1, <1>3, <1>4 DEF GraphInv, IInv, EventsExact
<1>10. SeedInv' /\ FlagInv' /\ RowsExist' /\ EdgesFirst'
  BY <1>1 DEF GraphInv, SeedInv, FlagInv, RowsExist, EdgesFirst, Active, DeclaredFrom,
              DeclaredSince, ManifestsAt, HEAD
<1> QED
  BY <1>2, <1>7, <1>8, <1>9, <1>10 DEF GraphInv, IInv

\* What is shown to a service stays shown.
ShownOnlyGrows == \A s \in Services : delivered[s] \subseteq delivered'[s]

\* A session is not disturbed by the steps of another.
LEMMA OtherSession ==
    ASSUME SyncTypeOK, NEW p \in Sessions, SessionInv(p), sync'[p] = sync[p],
           UNCHANGED <<history, events, done>>, ShownOnlyGrows
    PROVE  SessionInv(p)'
<1> SUFFICES ASSUME sync[p].pc # "idle" PROVE SessionInv(p)'
  BY DEF SessionInv
<1>0. /\ \A l, c : DeclaredSince(l, c)' = DeclaredSince(l, c)
      /\ \A s : Actionable(s)' = Actionable(s)
  BY SameConcerns
<1>1. \A s \in Services : \A c : Delivered(s, c) => Delivered(s, c)'
  BY <1>0 DEF Delivered, ShownOnlyGrows
<1>2. sync[p].service \in Services
  BY DEF SessionInv
<1>3. \A l : Collected(p, l) => Collected(p, l)'
  BY <1>0, <1>2 DEF Collected, ShownOnlyGrows
<1> QED
  BY <1>0, <1>1, <1>2, <1>3 DEF SessionInv, Ingested, Delivered

\* The step of a session that leaves the markers alone.
LEMMA MarkersUntouched ==
    ASSUME MarkerInv, UNCHANGED <<history, sync_state, events, done>>, ShownOnlyGrows
    PROVE  MarkerInv'
  BY SameConcerns DEF MarkerInv, Ingested, Delivered, ShownOnlyGrows

\* The idle session is typed.
LEMMA NotSyncingType == NotSyncing \in SyncProcess
  BY DEF NotSyncing, SyncProcess, NoCommit

\* A step that replaces the state of one session keeps the types.
LEMMA SessionType ==
    ASSUME DInv, NEW p \in Sessions, NEW x \in SyncProcess, sync' = [sync EXCEPT ![p] = x],
           syncs' = syncs, delivered' = delivered
    PROVE  SyncTypeOK'
  BY DEF DInv, SyncTypeOK

\* A step that does not mark leaves markers, timelines and the graph as they are.
LEMMA ReadOnlyStep ==
    ASSUME DInv, SyncNext, UNCHANGED store, NEW p \in Sessions,
           \A q \in Sessions \ {p} : sync'[q] = sync[q],
           SyncTypeOK', SessionInv(p)', ShownOnlyGrows
    PROVE  DInv'
<1>1. /\ UNCHANGED <<history, entities, events, edges, sync_state, ingVars, extVars>>
      /\ done' = done
  BY DEF SyncNext, store, ingVars
<1>2. GraphInv'
  BY <1>1, GraphUntouched DEF DInv, GraphInv, IInv, TypeOK, StoreTypeOK
<1>3. MarkerInv'
  BY <1>1, MarkersUntouched DEF DInv
<1>4. \A q \in Sessions \ {p} : SessionInv(q)'
  BY <1>1, OtherSession DEF DInv
<1> QED
  BY <1>2, <1>3, <1>4 DEF DInv

\* HEAD is ingested when it is read, and stays so.
LEMMA StartStep ==
    ASSUME DInv, SyncWhenIngested, SyncNext,
           NEW p \in Sessions, NEW s \in Services, RunSync(p, s)
    PROVE  DInv'
<1>1. /\ sync' = [sync EXCEPT ![p] = [NotSyncing EXCEPT !.pc = "marker", !.service = s,
                                                        !.head = HEAD]]
      /\ syncs' = syncs + 1 /\ UNCHANGED <<store, delivered>>
      /\ HEAD # NoCommit /\ Commits \subseteq done
  BY DEF RunSync, StartSync, BeginSync
<1>2. sync \in [Sessions -> SyncProcess] /\ HEAD \in Nat /\ done' = done
  BY DEF DInv, SyncTypeOK, GraphInv, IInv, TypeOK, GitTypeOK, HEAD, SyncNext, ingVars
<1>3. sync'[p] = [NotSyncing EXCEPT !.pc = "marker", !.service = s, !.head = HEAD]
  BY <1>1, <1>2
<1>4. sync'[p].pc = "marker" /\ sync'[p].service = s /\ sync'[p].head = HEAD
  BY <1>3 DEF NotSyncing
<1>5. sync'[p] \in SyncProcess
  <2>1. HEAD \in Nat
    BY <1>2
  <2>2. [NotSyncing EXCEPT !.pc = "marker", !.service = s, !.head = HEAD] \in SyncProcess
    BY <2>1, NotSyncingType DEF SyncProcess
  <2> QED
    BY <1>3, <2>2
<1>6. SyncTypeOK'
  BY <1>1, <1>2, <1>5 DEF DInv, SyncTypeOK
<1>7. SessionInv(p)'
  BY <1>1, <1>2, <1>4 DEF SessionInv, Ingested, Commits, HEAD
<1>8. ShownOnlyGrows /\ \A q \in Sessions \ {p} : sync'[q] = sync[q]
  BY <1>1, <1>2 DEF ShownOnlyGrows
<1> QED
  BY <1>1, <1>6, <1>7, <1>8, ReadOnlyStep

\* What the marker has passed was shown.
LEMMA MarkerStep ==
    ASSUME DInv, SyncNext, NEW p \in Sessions, SyncMarker(p)
    PROVE  DInv'
<1> DEFINE c == sync_state[sync[p].service]
<1>1. /\ sync[p].pc = "marker" /\ UNCHANGED <<store, syncs, delivered>>
      /\ sync' = [sync EXCEPT ![p] = [sync[p] EXCEPT !.pc = "log", !.since = c]]
  BY DEF SyncMarker
<1>2. sync \in [Sessions -> SyncProcess] /\ SessionInv(p) /\ done' = done
  BY DEF DInv, SyncTypeOK, SyncNext, ingVars
<1>3. sync[p].service \in Services
  BY <1>1, <1>2 DEF SessionInv
<1>4. c \in Nat /\ Ingested(c) /\ Delivered(sync[p].service, c)
  BY <1>3 DEF DInv, MarkerInv, GraphInv, IInv, TypeOK, StoreTypeOK
<1> HIDE DEF c
<1>5. /\ sync'[p].pc = "log" /\ sync'[p].since = c
      /\ sync'[p].head = sync[p].head /\ sync'[p].service = sync[p].service
  BY <1>1, <1>2 DEF SyncProcess
<1>6. SyncTypeOK'
  <2>0. sync[p] \in SyncProcess
    BY <1>2
  <2>1. [sync[p] EXCEPT !.pc = "log", !.since = c] \in SyncProcess
    BY <2>0, <1>4 DEF SyncProcess
  <2> QED
    BY <1>1, <1>2, <2>1, SessionType
<1>7. SessionInv(p)'
  BY <1>1, <1>2, <1>4, <1>5, SameConcerns
     DEF SessionInv, Ingested, Delivered, SyncNext, store
<1>8. ShownOnlyGrows /\ \A q \in Sessions \ {p} : sync'[q] = sync[q]
  BY <1>1, <1>2 DEF ShownOnlyGrows
<1> QED
  BY <1>1, <1>6, <1>7, <1>8, ReadOnlyStep

\* The log reaches at least to the HEAD the session will mark: history only grows.
LEMMA LogStep ==
    ASSUME DInv, SyncNext, NEW p \in Sessions, SyncLog(p)
    PROVE  DInv'
<1>1. /\ sync[p].pc = "log" /\ UNCHANGED <<store, syncs, delivered>>
      /\ sync' = [sync EXCEPT ![p] = [sync[p] EXCEPT !.pc = "edges", !.until = HEAD]]
  BY DEF SyncLog
<1>2. /\ sync \in [Sessions -> SyncProcess] /\ SessionInv(p) /\ done' = done
      /\ HEAD \in Nat /\ done \subseteq 1 .. HEAD
  BY DEF DInv, SyncTypeOK, SyncNext, ingVars, GraphInv, IInv, TypeOK, GitTypeOK, HEAD,
         IngestTypeOK, Commits
<1>3. sync[p].head <= HEAD
  <2>1. sync[p].head \in Nat \ {0} /\ 1 .. sync[p].head \subseteq done
    BY <1>1, <1>2 DEF SyncProcess, SessionInv, Ingested, NoCommit
  <2>2. sync[p].head \in 1 .. sync[p].head
    BY <2>1
  <2> QED
    BY <1>2, <2>1, <2>2
<1>4. /\ sync'[p].pc = "edges" /\ sync'[p].until = HEAD /\ sync'[p].since = sync[p].since
      /\ sync'[p].head = sync[p].head /\ sync'[p].service = sync[p].service
  BY <1>1, <1>2 DEF SyncProcess
<1>5. SyncTypeOK'
  <2>0. sync[p] \in SyncProcess
    BY <1>2
  <2>1. HEAD \in Nat
    BY <1>2
  <2>2. [sync[p] EXCEPT !.pc = "edges", !.until = HEAD] \in SyncProcess
    BY <2>0, <2>1 DEF SyncProcess
  <2> QED
    BY <1>1, <1>2, <2>2, SessionType
<1>6. SessionInv(p)'
  BY <1>1, <1>2, <1>3, <1>4, SameConcerns
     DEF SessionInv, Ingested, Delivered, SyncNext, store
<1>7. ShownOnlyGrows /\ \A q \in Sessions \ {p} : sync'[q] = sync[q]
  BY <1>1, <1>2 DEF ShownOnlyGrows
<1> QED
  BY <1>1, <1>5, <1>6, <1>7, ReadOnlyStep

\* By then all the edges the manifests declare are in the graph.
LEMMA EdgesStep ==
    ASSUME DInv, SyncNext, NEW p \in Sessions, SyncEdges(p)
    PROVE  DInv'
<1>1. /\ sync[p].pc = "edges" /\ UNCHANGED <<store, syncs, delivered>>
      /\ sync' = [sync EXCEPT ![p] =
                    [sync[p] EXCEPT !.pc = "collect", !.links = OutboundEdges(sync[p].service)]]
  BY DEF SyncEdges
<1>2. sync \in [Sessions -> SyncProcess] /\ SessionInv(p) /\ done' = done
  BY DEF DInv, SyncTypeOK, SyncNext, ingVars
<1>3. \A l \in Links : DeclaredSince(l, sync[p].head) => l \in DOMAIN edges
  <2>1. sync[p].head \in Nat \ {0} /\ 1 .. sync[p].head \subseteq done
    BY <1>1, <1>2 DEF SyncProcess, SessionInv, Ingested, NoCommit
  <2>2. sync[p].head <= extracted
    BY <2>1 DEF DInv, GraphInv, EdgesFirst
  <2>3. extracted \in Nat
    BY DEF DInv, GraphInv, IInv, TypeOK, ExtractTypeOK
  <2> QED
    BY <2>1, <2>2, <2>3, DeclaredLater DEF DInv, GraphInv, SeedInv
<1>4. OutboundEdges(sync[p].service) \subseteq Links
  BY DEF OutboundEdges, DInv, GraphInv, IInv, TypeOK, StoreTypeOK
<1>5. /\ sync'[p].pc = "collect" /\ sync'[p].until = sync[p].until
      /\ sync'[p].since = sync[p].since /\ sync'[p].head = sync[p].head
      /\ sync'[p].service = sync[p].service
      /\ sync'[p].links = OutboundEdges(sync[p].service)
  BY <1>1, <1>2 DEF SyncProcess
<1>6. SyncTypeOK'
  <2>0. sync[p] \in SyncProcess
    BY <1>2
  <2>1. [sync[p] EXCEPT !.pc = "collect", !.links = OutboundEdges(sync[p].service)]
            \in SyncProcess
    BY <2>0, <1>4 DEF SyncProcess
  <2> QED
    BY <1>1, <1>2, <2>1, SessionType
<1>7. \A l \in Links : l[1] = sync[p].service /\ DeclaredSince(l, sync[p].head)
                          => l \in sync'[p].links
  BY <1>1, <1>2, <1>3, <1>5 DEF OutboundEdges, SessionInv
<1>8. SessionInv(p)'
  BY <1>1, <1>2, <1>5, <1>7, SameConcerns
     DEF SessionInv, Ingested, Delivered, SyncNext, store
<1>9. ShownOnlyGrows /\ \A q \in Sessions \ {p} : sync'[q] = sync[q]
  BY <1>1, <1>2 DEF ShownOnlyGrows
<1> QED
  BY <1>1, <1>6, <1>8, <1>9, ReadOnlyStep

\* After an edge, its producer is covered: an event is in the window, or was delivered
\* before it.
LEMMA CollectStep ==
    ASSUME DInv, SyncNext, NEW p \in Sessions, NEW l \in Links, SyncCollect(p, l)
    PROVE  DInv'
<1>1. /\ sync[p].pc = "collect" /\ UNCHANGED <<store, syncs, delivered>>
      /\ sync' = [sync EXCEPT ![p] =
                    [sync[p] EXCEPT !.links = sync[p].links \ {l},
                                    !.found = sync[p].found \cup Surfaced(p, l[2])]]
  BY DEF SyncCollect
<1>2. /\ sync \in [Sessions -> SyncProcess] /\ SessionInv(p) /\ done' = done
      /\ events \in Seq(EventRow)
  BY DEF DInv, SyncTypeOK, SyncNext, ingVars, GraphInv, IInv, TypeOK, StoreTypeOK
<1>3. Surfaced(p, l[2]) \subseteq Nat
  BY <1>2 DEF Surfaced, EventsFor
<1>4. /\ sync'[p].pc = "collect" /\ sync'[p].until = sync[p].until
      /\ sync'[p].since = sync[p].since /\ sync'[p].head = sync[p].head
      /\ sync'[p].service = sync[p].service /\ sync'[p].links = sync[p].links \ {l}
      /\ sync'[p].found = sync[p].found \cup Surfaced(p, l[2])
  BY <1>1, <1>2 DEF SyncProcess
<1>5. SyncTypeOK'
  <2>0. sync[p] \in SyncProcess
    BY <1>2
  <2>1. [sync[p] EXCEPT !.links = sync[p].links \ {l},
                        !.found = sync[p].found \cup Surfaced(p, l[2])] \in SyncProcess
    BY <2>0, <1>3 DEF SyncProcess
  <2> QED
    BY <1>1, <1>2, <2>1, SessionType
<1>0. /\ \A k, c : DeclaredSince(k, c)' = DeclaredSince(k, c)
      /\ \A s : Actionable(s)' = Actionable(s)
  BY <1>1, SameConcerns DEF SyncNext, store
<1>6. \A k : Collected(p, k) => Collected(p, k)'
  BY <1>0, <1>1, <1>4 DEF Collected, store
<1>7. ASSUME l[1] = sync[p].service PROVE Collected(p, l)'
  <2> SUFFICES ASSUME NEW i \in DOMAIN events, events[i].kind \in SurfaceKinds,
                      events[i].entity = l[2], events[i].commit <= sync[p].head,
                      DeclaredSince(l, events[i].commit)
               PROVE  i \in Surfaced(p, l[2]) \/ i \in delivered[sync[p].service]
    BY <1>0, <1>1, <1>4 DEF Collected, store
  <2>1. events[i].commit \in Nat
    <3>1. events[i] \in EventRow
      BY <1>2
    <3> QED
      BY <3>1 DEF EventRow
  <2>2. sync[p].head \in Nat /\ sync[p].since \in Nat /\ sync[p].until \in Nat
    BY <1>2 DEF SyncProcess
  <2>3. /\ sync[p].head <= sync[p].until
        /\ Delivered(sync[p].service, sync[p].since)
    BY <1>1, <1>2 DEF SessionInv
  <2>4. l[2] \in DOMAIN entities
    BY DEF DInv, GraphInv, RowsExist
  <2>5. CASE events[i].commit <= sync[p].since
    <3>1. i \in Actionable(sync[p].service)
      BY <1>7 DEF Actionable, Declares
    <3> QED
      BY <2>3, <2>5, <3>1 DEF Delivered
  <2>6. CASE ~(events[i].commit <= sync[p].since)
    <3>1. InWindow(p, events[i].commit)
      BY <2>1, <2>2, <2>3, <2>6 DEF InWindow
    <3> QED
      BY <2>4, <3>1 DEF Surfaced, EventsFor
  <2> QED
    BY <2>5, <2>6
<1>8. SessionInv(p)'
  BY <1>0, <1>1, <1>2, <1>4, <1>6, <1>7 DEF SessionInv, Ingested, Delivered, store
<1>9. ShownOnlyGrows /\ \A q \in Sessions \ {p} : sync'[q] = sync[q]
  BY <1>1, <1>2 DEF ShownOnlyGrows
<1> QED
  BY <1>1, <1>5, <1>8, <1>9, ReadOnlyStep

\* When no edge is left, writing the digest delivers everything up to HEAD.
LEMMA WriteStep ==
    ASSUME DInv, SyncNext, NEW p \in Sessions, SyncWrite(p)
    PROVE  DInv'
<1> DEFINE s == sync[p].service
<1>1. /\ sync[p].pc = "collect" /\ sync[p].links = {} /\ UNCHANGED <<store, syncs>>
      /\ sync' = [sync EXCEPT ![p].pc = "mark"]
      /\ delivered' = [delivered EXCEPT ![s] = @ \cup sync[p].found]
  BY DEF SyncWrite
<1>2. /\ sync \in [Sessions -> SyncProcess] /\ SessionInv(p) /\ done' = done
      /\ delivered \in [Services -> SUBSET Nat]
  BY DEF DInv, SyncTypeOK, SyncNext, ingVars
<1>3. s \in Services /\ sync[p].found \subseteq Nat
  BY <1>1, <1>2 DEF SessionInv, SyncProcess
<1>4. /\ sync'[p].pc = "mark" /\ sync'[p].since = sync[p].since
      /\ sync'[p].head = sync[p].head /\ sync'[p].service = s
  BY <1>1, <1>2 DEF SyncProcess
<1>5. delivered'[s] = delivered[s] \cup sync[p].found /\ ShownOnlyGrows
  BY <1>1, <1>2, <1>3 DEF ShownOnlyGrows
<1>6. SyncTypeOK'
  <2>0. sync[p] \in SyncProcess
    BY <1>2
  <2>1. [sync[p] EXCEPT !.pc = "mark"] \in SyncProcess
    BY <2>0 DEF SyncProcess
  <2>2. sync' \in [Sessions -> SyncProcess]
    BY <1>1, <1>2, <2>1
  <2>3. delivered' \in [Services -> SUBSET Nat]
    BY <1>1, <1>2, <1>3
  <2> QED
    BY <1>1, <2>2, <2>3 DEF DInv, SyncTypeOK
<1>0. Actionable(s)' = Actionable(s)
  BY <1>1, SameConcerns DEF SyncNext, store
<1>7. Delivered(s, sync[p].head)'
  <2> SUFFICES ASSUME NEW i \in Actionable(s), events[i].commit <= sync[p].head
               PROVE  i \in delivered'[s]
    BY <1>0, <1>1, <1>4 DEF Delivered, store
  <2>1. PICK l \in Links :
            l[1] = s /\ l[2] = events[i].entity /\ DeclaredSince(l, events[i].commit)
    BY DEF Actionable, Declares
  <2>2. events[i].commit \in Nat /\ sync[p].head \in Nat
    BY <1>2 DEF Actionable, DInv, GraphInv, IInv, EventsOfHistory, Commits, SyncProcess
  <2>3. DeclaredSince(l, sync[p].head)
    BY <2>1, <2>2, DeclaredLater
  <2>4. Collected(p, l)
    BY <1>1, <1>2, <2>1, <2>3 DEF SessionInv
  <2> QED
    BY <1>5, <2>1, <2>4 DEF Collected, Actionable
<1>8. SessionInv(p)'
  <2>1. Delivered(s, sync[p].since)'
    BY <1>0, <1>1, <1>2, <1>5 DEF SessionInv, Delivered, store
  <2> QED
    BY <1>1, <1>2, <1>3, <1>4, <1>7, <2>1 DEF SessionInv, Ingested, Delivered
<1>9. \A q \in Sessions \ {p} : sync'[q] = sync[q]
  BY <1>1, <1>2
<1> QED
  BY <1>1, <1>5, <1>6, <1>8, <1>9, ReadOnlyStep

\* A killed session forgets everything and has moved nothing.
LEMMA CrashStep ==
    ASSUME DInv, SyncNext, NEW p \in Sessions, SyncCrash(p)
    PROVE  DInv'
<1>1. sync' = [sync EXCEPT ![p] = NotSyncing] /\ UNCHANGED <<store, syncs, delivered>>
  BY DEF SyncCrash
<1>2. sync \in [Sessions -> SyncProcess] /\ NotSyncing \in SyncProcess
  BY NotSyncingType DEF DInv, SyncTypeOK
<1>3. SyncTypeOK'
  BY <1>1, <1>2 DEF DInv, SyncTypeOK
<1>4. SessionInv(p)' /\ ShownOnlyGrows /\ \A q \in Sessions \ {p} : sync'[q] = sync[q]
  BY <1>1, <1>2 DEF SessionInv, NotSyncing, ShownOnlyGrows
<1> QED
  BY <1>1, <1>3, <1>4, ReadOnlyStep

\* The marker moves to a HEAD up to which everything was delivered: forwards, or back
\* when a session that started earlier finishes later.
LEMMA MarkStep ==
    ASSUME DInv, SyncNext, NEW p \in Sessions, SyncMark(p)
    PROVE  DInv'
<1> DEFINE s == sync[p].service
<1>1. /\ sync[p].pc = "mark" /\ sync_state' = [sync_state EXCEPT ![s] = sync[p].head]
      /\ sync' = [sync EXCEPT ![p] = NotSyncing]
      /\ UNCHANGED <<entities, events, edges, syncs, delivered>>
  BY DEF SyncMark, SetLastSynced
<1>2. /\ sync \in [Sessions -> SyncProcess] /\ NotSyncing \in SyncProcess
      /\ sync_state \in [Services -> Nat] /\ SessionInv(p)
      /\ UNCHANGED <<history, ingVars, extVars, done>>
  BY DEF DInv, SyncTypeOK, SyncProcess, NotSyncing, NoCommit, SyncNext, ingVars, GraphInv,
         IInv, TypeOK, StoreTypeOK
<1>3. s \in Services /\ sync[p].head \in Nat
  BY <1>1, <1>2 DEF SessionInv, SyncProcess
<1>4. GraphInv'
  BY <1>1, <1>2, <1>3, GraphUntouched DEF DInv
<1>5. SyncTypeOK'
  BY <1>1, <1>2 DEF DInv, SyncTypeOK
<1>6. MarkerInv'
  <2>1. Ingested(sync[p].head) /\ Delivered(s, sync[p].head)
    BY <1>1, <1>2 DEF SessionInv
  <2>2. sync_state'[s] = sync[p].head /\ \A t \in Services \ {s} : sync_state'[t] = sync_state[t]
    BY <1>1, <1>2, <1>3
  <2>3. \A t \in Services : Ingested(sync_state'[t]) /\ Delivered(t, sync_state'[t])
    BY <2>1, <2>2 DEF DInv, MarkerInv
  <2> QED
    BY <1>1, <1>2, <2>3, SameConcerns DEF MarkerInv, Ingested, Delivered
<1>7. SessionInv(p)' /\ ShownOnlyGrows /\ \A q \in Sessions \ {p} : sync'[q] = sync[q]
  BY <1>1, <1>2 DEF SessionInv, NotSyncing, ShownOnlyGrows
<1>8. \A q \in Sessions \ {p} : SessionInv(q)'
  BY <1>1, <1>2, <1>7, OtherSession DEF DInv
<1> QED
  BY <1>4, <1>5, <1>6, <1>7, <1>8 DEF DInv

-----------------------------------------------------------------------------
(* The theorem. *)

\* Nothing is shown, ingested or marked at first.
LEMMA InitDInv == DeliveryInit => DInv
<1> SUFFICES ASSUME DeliveryInit PROVE DInv
  OBVIOUS
<1>1. /\ IInv /\ done = {} /\ extracted = NoCommit /\ HEAD = 0
      /\ ext.pc = "idle" /\ ing.pc = "idle"
  BY InitIInv DEF DeliveryInit, Init, GitInit, IngestInit, ExtractInit, Resting, AtRest, HEAD
<1>2. events = << >> /\ sync_state = [s \in Services |-> NoCommit]
  BY DEF DeliveryInit, Init, StoreInit
<1>3. GraphInv
  BY <1>1, <1>2, NotBeforeRoot
     DEF GraphInv, IInv, TypeOK, NoCommit, SeedInv, FlagInv, RowsExist, EdgesFirst, Active
<1>4. SyncTypeOK
  BY NotSyncingType DEF DeliveryInit, SyncInit, SyncTypeOK
<1>5. \A p \in Sessions : SessionInv(p)
  BY DEF DeliveryInit, SyncInit, SyncTypeOK, SessionInv, NotSyncing
<1>6. MarkerInv
  BY <1>2 DEF MarkerInv, Ingested, Delivered, Actionable, NoCommit
<1> QED
  BY <1>3, <1>4, <1>5, <1>6 DEF DInv

\* For any number of sessions and services, with crashes, syncs that overlap each other,
\* extracts and re-ingests, and HEAD moving under them: whatever the marker of a service
\* has left behind was shown to it, as long as HEAD is ingested when a sync starts.
THEOREM NoMissed ==
    ASSUME ExtractFirst, ~RealLLM, SyncWhenIngested
    PROVE  DeliverySpec => []NoMissedChange
<1>1. ASSUME DInv, [DeliveryNext]_allVars PROVE DInv'
  <2>1. CASE [Next]_vars /\ UNCHANGED syncVars
    BY <1>1, <2>1, GraphStepKeepsSessions
  <2>2. CASE SyncNext
    BY <1>1, <2>2, StartStep, MarkerStep, LogStep, EdgesStep, CollectStep, WriteStep,
       MarkStep, CrashStep DEF SyncNext, SyncStep
  <2> QED
    BY <1>1, <2>1, <2>2 DEF DeliveryNext, allVars
<1>2. DInv => NoMissedChange
  BY DEF DInv, MarkerInv, Delivered, NoMissedChange
<1> QED
  BY InitDInv, <1>1, <1>2, PTL DEF DeliverySpec
=================================================================================

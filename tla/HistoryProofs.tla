------------------------------ MODULE HistoryProofs ------------------------------
(* Proofs about the graph when the commands are run in the documented order, and that *)
(* the timelines agree with git's history as a whole.  The manifests' recall floor    *)
(* needs extract before ingest, oldest-first timelines need ranges that never start   *)
(* beyond what is already ingested.  Replayed, the timelines give what is declared at *)
(* HEAD, and the bounds of a row are commits of its timeline, whatever crashes,       *)
(* retries and concurrent extracts do.                                                *)
EXTENDS TimelineProofs, NumberLemmas

USE GitAssumption, StoreAssumption, IngestAssumption, ExtractAssumption,
    TimelineAssumption

-----------------------------------------------------------------------------
(* The recall floor. *)

\* A commit's manifests, and those of all later ones, declare an edge to e.
DeclaredFrom(e, c) == \E l \in Links : l[2] = e /\ DeclaredSince(l, c)

\* What is declared since a commit is declared since a later one.
LEMMA DeclaredLater ==
    ASSUME NEW l, NEW c \in Nat, NEW d \in Nat, c <= d, DeclaredSince(l, c)
    PROVE  DeclaredSince(l, d)
<1>1. \A x \in d .. HEAD : x \in c .. HEAD
  OBVIOUS
<1> QED
  BY <1>1 DEF DeclaredSince

\* Nothing is declared since before the root commit.
LEMMA NotBeforeRoot ==
    ASSUME GitTypeOK, NEW l
    PROVE  ~DeclaredSince(l, NoCommit)
<1>1. NoCommit \in NoCommit .. HEAD
  BY HEADType DEF NoCommit
<1> QED
  BY <1>1 DEF DeclaredSince, ManifestsAt

\* A new commit can only end what the manifests have declared since an older one.
LEMMA DeclaredStep ==
    ASSUME TypeOK, [Next]_vars, NEW c \in 0 .. HEAD, NEW l, DeclaredSince(l, c)'
    PROVE  DeclaredSince(l, c)
<1>1. SUFFICES ASSUME NEW d \in c .. HEAD PROVE l \in ManifestsAt(d)
  BY DEF DeclaredSince
<1>2. HEAD \in Nat /\ HEAD' \in Nat /\ HEAD <= HEAD' /\ GitTypeOK
  BY HistoryStep, HEADType DEF HEAD, GitTypeOK, TypeOK
<1>3. d \in c .. HEAD' /\ l \in ManifestsAt(d)'
  BY <1>1, <1>2 DEF DeclaredSince
<1>4. CASE d = NoCommit
  BY <1>3, <1>4 DEF ManifestsAt
<1>5. CASE d # NoCommit
  <2>1. d \in Commits
    BY <1>1, <1>2, <1>5 DEF Commits, HEAD, NoCommit
  <2>2. history'[d] = history[d]
    BY <1>2, <2>1, HistoryStep, HistoryOnlyGrows
  <2> QED
    BY <1>3, <1>5, <2>2 DEF ManifestsAt
<1> QED
  BY <1>4, <1>5

\* The extract at work is of a tree no older than the last one that went through, and a
\* seeded edge stays: after phase 2a, and so after every completed extract, the edges that
\* have been declared since are in the graph.
SeedInv ==
    /\ extracted <= HEAD
    /\ ext.pc # "idle" => extracted <= ext.at /\ ext.at <= HEAD
    /\ ext.pc = "manifests" =>
            \A l \in Links : DeclaredSince(l, ext.at) =>
                \/ l[1] \in ext.unread
                \/ <<l, NoFile>> \in ext.links
                \/ l \in DOMAIN edges
    /\ ext.pc = "code" =>
            \A l \in Links : DeclaredSince(l, ext.at) => l \in DOMAIN edges
    /\ \A l \in Links : DeclaredSince(l, extracted) => l \in DOMAIN edges

\* With extract first, the range of a run is within what was extracted, and the flag that
\* waits to be appended already reflects the floor.
FlagInv ==
    ExtractFirst =>
        /\ Active => ing.hi <= extracted
        /\ (/\ ing.pc = "append"
            /\ ing.kind \in BreakingKinds
            /\ DeclaredFrom(ing.at[2], ing.commit)) => ing.breaking

\* And so does the flag of every event.
EventFloor ==
    ExtractFirst =>
        \A i \in DOMAIN events :
            /\ events[i].kind \in BreakingKinds
            /\ DeclaredFrom(events[i].entity, events[i].commit)
            => events[i].breaking

FloorInv == SeedInv /\ FlagInv /\ EventFloor

\* Extract only leaves phase 2a, and only finishes, with every manifest edge seeded.
LEMMA SeedStep ==
    ASSUME TypeOK, SeedInv, [Next]_vars
    PROVE  SeedInv'
<1>0. /\ DOMAIN edges \subseteq DOMAIN edges' /\ ext \in ExtractProcess
      /\ extracted \in Nat /\ ext.at \in Nat /\ GitTypeOK
      /\ HEAD \in Nat /\ HEAD' \in Nat /\ HEAD <= HEAD'
  BY EdgesOnlyGrow, HistoryStep, HEADType
     DEF TypeOK, ExtractTypeOK, ExtractProcess, HEAD, GitTypeOK
<1>1. \A l \in Links : DeclaredSince(l, extracted)' /\ extracted' = extracted
                            => l \in DOMAIN edges'
  BY <1>0, DeclaredStep DEF SeedInv
<1>2. CASE UNCHANGED <<ext, extracted>>
  <2>1. ASSUME ext.pc # "idle", NEW l, DeclaredSince(l, ext.at)'
        PROVE  DeclaredSince(l, ext.at)
    BY <1>0, <1>2, <2>1, DeclaredStep DEF SeedInv
  <2> QED
    BY <1>0, <1>1, <1>2, <2>1 DEF SeedInv
<1>3. CASE ExtractNext
  <2>0. HEAD' = HEAD /\ \A l, c : DeclaredSince(l, c)' = DeclaredSince(l, c)
    BY <1>3 DEF ExtractNext, HEAD, DeclaredSince, ManifestsAt
  <2>1. CASE StartExtract
    <3>1. /\ ext'.pc = "producers" /\ ext'.at = HEAD /\ extracted' = extracted
      BY <2>1 DEF StartExtract, AtRest
    <3> QED
      BY <1>0, <1>1, <2>0, <3>1 DEF SeedInv
  <2>2. ASSUME NEW s \in Slots, ExtractProducer(s) PROVE SeedInv'
    <3>1. /\ ext.pc = "producers" /\ ext'.pc = "producers" /\ ext'.at = ext.at
          /\ extracted' = extracted
      BY <1>0, <2>2 DEF ExtractProducer, ExtractProcess
    <3> QED
      BY <1>0, <1>1, <2>0, <3>1 DEF SeedInv
  <2>3. CASE ExtractManifests
    <3>1. /\ ext.pc = "producers" /\ ext'.pc = "manifests" /\ ext'.at = ext.at
          /\ ext'.unread = Services /\ extracted' = extracted
      BY <1>0, <2>3 DEF ExtractManifests, ExtractProcess
    <3>2. \A l \in Links : l[1] \in Services
      OBVIOUS
    <3> QED
      BY <1>0, <1>1, <2>0, <3>1, <3>2 DEF SeedInv
  <2>R. ASSUME NEW s \in Services, ReadManifest(s) PROVE SeedInv'
    <3>1. /\ ext.pc = "manifests" /\ ext'.pc = "manifests" /\ ext'.at = ext.at
          /\ ext.links = {} /\ ext'.links = Manifest(s) \X {NoFile}
          /\ ext'.unread = ext.unread \ {s} /\ extracted' = extracted
      BY <1>0, <2>R DEF ReadManifest, ExtractProcess
    <3>2. ASSUME NEW l \in Links, DeclaredSince(l, ext.at), l[1] = s
          PROVE  <<l, NoFile>> \in ext'.links
      <4>1. HEAD \in ext.at .. HEAD
        BY <1>0, <3>1 DEF SeedInv
      <4>2. l \in Manifest(s)
        BY <3>2, <4>1 DEF DeclaredSince, Manifest
      <4> QED
        BY <3>1, <4>2
    <3> QED
      BY <1>0, <1>1, <2>0, <3>1, <3>2 DEF SeedInv
  <2>4. ASSUME NEW l \in Links, SeedManifestEdge(l) PROVE SeedInv'
    <3>1. /\ ext.pc = "manifests" /\ ext'.pc = "manifests" /\ ext'.at = ext.at
          /\ ext'.links = ext.links \ {<<l, NoFile>>} /\ extracted' = extracted
          /\ ext'.unread = ext.unread
      BY <1>0, <2>4 DEF SeedManifestEdge, ExtractProcess
    <3>2. l \in DOMAIN edges'
      BY <2>4 DEF SeedManifestEdge, UpsertEdge
    <3>3. \A k \in Links : DeclaredSince(k, ext.at) =>
              k[1] \in ext'.unread \/ <<k, NoFile>> \in ext'.links \/ k \in DOMAIN edges'
      BY <1>0, <3>1, <3>2 DEF SeedInv
    <3> QED
      BY <1>0, <1>1, <2>0, <3>1, <3>3 DEF SeedInv
  <2>5. CASE IndexProducers
    <3>1. /\ ext.pc = "manifests" /\ ext.unread = {} /\ ext.links = {} /\ ext'.pc = "code"
          /\ ext'.at = ext.at /\ extracted' = extracted
      BY <1>0, <2>5 DEF IndexProducers, ExtractProcess
    <3>2. \A l \in Links : DeclaredSince(l, ext.at) => l \in DOMAIN edges
      BY <3>1 DEF SeedInv
    <3> QED
      BY <1>0, <1>1, <2>0, <3>1, <3>2 DEF SeedInv
  <2>6. ASSUME NEW l \in Links, NEW f \in Files, ResolveCodeEdge(l, f) PROVE SeedInv'
    <3>1. ext.pc = "code" /\ ext'.pc = "code" /\ ext'.at = ext.at /\ extracted' = extracted
      BY <1>0, <2>6 DEF ResolveCodeEdge, ExtractProcess
    <3> QED
      BY <1>0, <1>1, <2>0, <3>1 DEF SeedInv
  <2>7. CASE ExtractFinish
    <3>1. ext.pc = "code" /\ ext'.pc = "idle" /\ extracted' = ext.at
      BY <2>7 DEF ExtractFinish, AtRest
    <3> QED
      BY <1>0, <2>0, <3>1 DEF SeedInv
  <2>8. CASE ExtractCrash
    <3>1. ext'.pc = "idle" /\ extracted' = extracted
      BY <2>8 DEF ExtractCrash, AtRest
    <3> QED
      BY <1>0, <1>1, <2>0, <3>1 DEF SeedInv
  <2> QED
    BY <1>3, <2>1, <2>2, <2>3, <2>R, <2>4, <2>5, <2>6, <2>7, <2>8 DEF ExtractNext, ExtractStep
<1> QED
  BY <1>2, <1>3 DEF Next, DeveloperCommits, IngestNext, extVars, vars

\* What has been extracted only moves on.
LEMMA ExtractedGrows ==
    ASSUME TypeOK, SeedInv, [Next]_vars
    PROVE  extracted <= extracted' /\ extracted \in Nat /\ extracted' \in Nat
<1>1. extracted \in Nat /\ ext.at \in Nat
  BY DEF TypeOK, ExtractTypeOK, ExtractProcess
<1>2. CASE ExtractFinish
  BY <1>1, <1>2 DEF ExtractFinish, SeedInv
<1>3. CASE extracted' = extracted
  BY <1>1, <1>3
<1> QED
  BY <1>2, <1>3
     DEF Next, DeveloperCommits, IngestNext, ExtractNext, StartExtract, ExtractStep,
         ExtractProducer, ExtractManifests, ReadManifest, SeedManifestEdge, IndexProducers,
         ResolveCodeEdge, ExtractCrash, extVars, vars

\* The breaking guard of ingest sees the seeded edges.
LEMMA FlagStep ==
    ASSUME TypeOK, LoopInv, SeedInv, FlagInv, [Next]_vars
    PROVE  FlagInv'
<1> SUFFICES ASSUME ExtractFirst PROVE FlagInv'
  BY DEF FlagInv
<1>0. ing \in IngestProcess /\ ing.hi \in Nat /\ ing.commit \in Nat
  BY DEF TypeOK, IngestTypeOK, IngestProcess
<1>1. extracted <= extracted' /\ extracted \in Nat /\ extracted' \in Nat
  BY ExtractedGrows
<1>2. CASE UNCHANGED ing
  <2>1. Active => ing.hi <= extracted'
    BY <1>0, <1>1 DEF FlagInv
  <2>2. ASSUME ing.pc = "append", DeclaredFrom(ing.at[2], ing.commit)'
        PROVE  DeclaredFrom(ing.at[2], ing.commit)
    <3>1. ing.commit \in 0 .. HEAD
      BY <1>0, <2>2, HEADType DEF LoopInv, Active, Commits, HEAD, TypeOK, GitTypeOK
    <3> QED
      BY <1>2, <2>2, <3>1, DeclaredStep DEF DeclaredFrom
  <2> QED
    BY <1>2, <2>1, <2>2 DEF FlagInv, Active
<1>3. CASE IngestNext
  <2>0. UNCHANGED <<history, extracted>>
    BY <1>3 DEF IngestNext, extVars
  <2>1. ASSUME NEW lo \in 0 .. HEAD, NEW hi \in Commits, RunIngest(lo, hi)
        PROVE  FlagInv'
    <3>1. ing'.pc = "scan" /\ ing'.hi = hi /\ hi <= extracted
      BY <2>1 DEF RunIngest, StartIngest, Resting
    <3> QED
      BY <2>0, <3>1 DEF FlagInv, Active
  <2>2. CASE IngestSummarize
    <3>1. PICK kind \in ChangeKinds \cup {"none"} :
              ing' = [ing EXCEPT !.pc = "append", !.kind = kind,
                                 !.breaking = (kind \in BreakingKinds
                                                /\ HasInboundEdge(ing.at[2]))]
      <4>1. ing.at \in Slots
        BY <2>2 DEF IngestSummarize, LoopInv, Active, Work
      <4>2. Verdicts(Structural(ing.commit, ing.at[1], ing.at[2]))
                \subseteq ChangeKinds \cup {"none"}
        BY <4>1, StructuralType DEF Verdicts
      <4> QED
        BY <2>2, <4>2 DEF IngestSummarize
    <3>2. /\ ing'.at = ing.at /\ ing'.kind = kind /\ ing'.commit = ing.commit
          /\ ing'.hi = ing.hi
          /\ ing'.breaking = (kind \in BreakingKinds /\ HasInboundEdge(ing.at[2]))
      BY <1>0, <3>1 DEF IngestProcess
    <3>3. ing.commit <= extracted /\ ing.hi <= extracted
      BY <1>0, <1>1, <2>2 DEF IngestSummarize, LoopInv, FlagInv, Active
    <3>4. DeclaredFrom(ing.at[2], ing.commit) => HasInboundEdge(ing.at[2])
      BY <1>0, <1>1, <3>3, DeclaredLater DEF SeedInv, DeclaredFrom, HasInboundEdge
    <3>5. DeclaredFrom(ing.at[2], ing.commit)' = DeclaredFrom(ing.at[2], ing.commit)
      BY <2>0, <3>2 DEF DeclaredFrom, DeclaredSince, ManifestsAt, HEAD
    <3> QED
      BY <2>0, <3>2, <3>3, <3>4, <3>5 DEF FlagInv
  <2>3. CASE ~IngestSummarize /\ Active /\ (IngestStep \/ IngestCrash)
    <3>1. ing'.pc # "append" /\ (ing'.pc # "idle" => ing'.hi = ing.hi)
      <4>1. ASSUME NEW s \in Slots, IngestEntity(s)
            PROVE  ing'.pc # "append" /\ ing'.hi = ing.hi
        BY <1>0, <4>1 DEF IngestEntity, IngestProcess
      <4>2. ASSUME IngestBounds \/ IngestAppend
            PROVE  ing'.pc # "append" /\ ing'.hi = ing.hi
        BY <1>0, <4>2 DEF IngestBounds, IngestAppend, IngestProcess
      <4>3. ASSUME IngestNextCommit
            PROVE  ing'.pc # "append" /\ ing'.hi = ing.hi
        BY <1>0, <4>3 DEF IngestNextCommit, CommitIngested, IngestProcess
      <4>4. ASSUME IngestFinish \/ IngestCrash PROVE ing'.pc = "idle"
        BY <4>4 DEF IngestFinish, IngestCrash, Resting
      <4> QED
        BY <2>3, <4>1, <4>2, <4>3, <4>4 DEF IngestStep
    <3> QED
      BY <1>0, <1>1, <2>0, <2>3, <3>1 DEF FlagInv, Active
  <2> QED
    BY <1>3, <2>1, <2>2, <2>3
       DEF IngestNext, IngestStep, IngestEntity, IngestBounds, IngestSummarize,
           IngestAppend, IngestNextCommit, CommitIngested, IngestFinish, IngestCrash, Active
<1> QED
  BY <1>2, <1>3 DEF Next, DeveloperCommits, ExtractNext, ingVars, vars

\* The appended event carries the flag, and the others keep theirs.
LEMMA FloorStep ==
    ASSUME TypeOK, LoopInv, EventsOfHistory, FlagInv, EventFloor, [Next]_vars
    PROVE  EventFloor'
<1> SUFFICES ASSUME ExtractFirst PROVE EventFloor'
  BY DEF EventFloor
<1>1. ASSUME NEW i \in DOMAIN events,
             DeclaredFrom(events[i].entity, events[i].commit)', UNCHANGED events
      PROVE  DeclaredFrom(events[i].entity, events[i].commit)
  <2>1. events[i].commit \in 0 .. HEAD
    BY HEADType DEF EventsOfHistory, Commits, HEAD, TypeOK, GitTypeOK
  <2> QED
    BY <1>1, <2>1, DeclaredStep DEF DeclaredFrom
<1>2. CASE IngestNext /\ IngestAppend
  <2> DEFINE ev == [entity |-> ing.at[2], commit |-> ing.commit, kind |-> ing.kind,
                    breaking |-> ing.breaking, file |-> ing.at[1]]
  <2>1. ing.at \in Work(ing.commit) /\ ing.commit \in Commits /\ ing.pc = "append"
    BY <1>2 DEF LoopInv, Active, IngestAppend
  <2>2. ing.at[1] \in Files /\ ing.at[2] \in Entities
    BY <2>1, WorkType
  <2>3. ev \in EventRow
    BY <2>1, <2>2 DEF EventRow, TypeOK, IngestTypeOK, IngestProcess, Commits
  <2>4. AddEvent(ev)
    BY <1>2 DEF IngestAppend
  <2>5. ev.kind \in BreakingKinds /\ DeclaredFrom(ev.entity, ev.commit) => ev.breaking
    BY <2>1 DEF FlagInv
  <2> HIDE DEF ev
  <2>6. \A i \in DOMAIN events' :
            events'[i] = ev \/ (i \in DOMAIN events /\ events'[i] = events[i])
    BY <2>3, <2>4, AddEventEffect DEF TypeOK
  <2>7. \A e, c : DeclaredFrom(e, c)' = DeclaredFrom(e, c)
    BY <1>2 DEF IngestNext, DeclaredFrom, DeclaredSince, ManifestsAt, HEAD
  <2>8. ASSUME NEW i \in DOMAIN events', events'[i].kind \in BreakingKinds,
               DeclaredFrom(events'[i].entity, events'[i].commit)
        PROVE  events'[i].breaking
    BY <2>5, <2>6, <2>8 DEF EventFloor
  <2> QED
    BY <2>7, <2>8 DEF EventFloor, DeclaredFrom
<1>3. CASE ~(IngestNext /\ IngestAppend)
  <2>1. UNCHANGED events
    BY <1>3, EventsStep
  <2> QED
    BY <1>1, <2>1 DEF EventFloor
<1> QED
  BY <1>2, <1>3

\* The floor is kept by every step, together with what it rests on.
LEMMA FloorAlways == Spec => []FloorInv
<1>1. Init => FloorInv
  <2>1. Init => GitTypeOK /\ NoCommit <= HEAD
    BY DEF Init, GitInit, GitTypeOK, HEAD, NoCommit
  <2> QED
    BY <2>1, NotBeforeRoot
       DEF Init, StoreInit, IngestInit, ExtractInit, AtRest, Resting, FloorInv, SeedInv,
           FlagInv, Active, EventFloor
<1>2. ASSUME IInv, FloorInv, [Next]_vars PROVE FloorInv'
  BY <1>2, SeedStep, FlagStep, FloorStep DEF IInv, FloorInv
<1> QED
  BY <1>1, <1>2, Inductive, PTL DEF Spec

\* When every commit is ingested after an extract of its tree or a later one, with the
\* rule-based verdicts every signature change and removal of a producer that the manifests
\* declare, then and since, is flagged: in every repository, whatever the manifests of the
\* other commits say, with every resolution of the code edges.
THEOREM RecallFloor == Spec => []ManifestFloorFlagsBreaks
<1>1. ASSUME IInv, EventFloor PROVE ManifestFloorFlagsBreaks
  <2> SUFFICES ASSUME ExtractFirst, ~RealLLM, NEW c \in done, NEW s \in Work(c),
                      Structural(c, s[1], s[2]) \in BreakingKinds,
                      DeclaredFrom(s[2], c)
               PROVE  \E i \in EventsFor(s[2]) : events[i].commit = c /\ events[i].breaking
    BY DEF ManifestFloorFlagsBreaks, DeclaredFrom
  <2>1. Recorded(c, s)
    BY <1>1 DEF IInv, CompletedCommitsRecorded
  <2>2. PICK i \in DOMAIN events : /\ events[i].entity = s[2]
                                   /\ events[i].commit = c
                                   /\ events[i].kind = Structural(c, s[1], s[2])
    BY <2>1 DEF Recorded
  <2>3. events[i].breaking
    BY <1>1, <2>2 DEF EventFloor
  <2> QED
    BY <2>2, <2>3 DEF EventsFor
<1> QED
  BY <1>1, FloorAlways, Inductive, PTL DEF FloorInv

-----------------------------------------------------------------------------
(* Oldest-first timelines. *)

\* With ranges in order, whatever an event or a run is about, all the commits before it
\* have been ingested.
OrderInv ==
    InOrder =>
        /\ Active => 1 .. ing.commit - 1 \subseteq done
        /\ \A i \in DOMAIN events : 1 .. events[i].commit - 1 \subseteq done
        /\ ~RealLLM => TimelineOldestFirst

\* No step forgets an ingested commit.
LEMMA DoneGrows ==
    ASSUME [Next]_vars
    PROVE  done \subseteq done'
  BY DEF Next, DeveloperCommits, IngestNext, ExtractNext, RunIngest, StartIngest, IngestStep,
         IngestEntity, IngestBounds, IngestSummarize, IngestAppend, IngestNextCommit,
         IngestFinish, IngestCrash, CommitIngested, vars, ingVars

\* An event is only appended at the end of its timeline: if a later commit were already
\* on it, this commit would be ingested, so its event would be there and nothing is
\* appended.
LEMMA OrderStep ==
    ASSUME IInv, OrderInv, [Next]_vars, InOrder
    PROVE  OrderInv'
<1>0. /\ TypeOK /\ LoopInv /\ EventsOfHistory /\ CompletedCommitsRecorded
      /\ ing \in IngestProcess
  BY DEF IInv, TypeOK, IngestTypeOK
<1>1. (Active => 1 .. ing.commit - 1 \subseteq done)'
  <2>1. CASE UNCHANGED ing
    BY <2>1, DoneGrows DEF OrderInv, Active
  <2>2. ASSUME NEW lo \in 0 .. HEAD, NEW hi \in Commits, RunIngest(lo, hi)
        PROVE  ing'.commit = lo + 1 /\ 1 .. lo \subseteq done
    BY <2>2 DEF RunIngest, StartIngest, Resting
  <2>3. CASE IngestNextCommit
    <3>1. ing'.commit = ing.commit + 1 /\ done' = done \cup {ing.commit} /\ Active
      BY <1>0, <2>3 DEF IngestNextCommit, CommitIngested, IngestProcess, Active
    <3>2. ing.commit \in Nat
      BY <1>0 DEF IngestProcess
    <3>3. 1 .. ing.commit - 1 \subseteq done
      BY <3>1 DEF OrderInv
    <3> QED
      BY <3>1, <3>2, <3>3
  <2>4. CASE \E s \in Slots : IngestEntity(s)
    <3>1. ing'.commit = ing.commit /\ Active
      BY <1>0, <2>4 DEF IngestEntity, IngestProcess, Active
    <3> QED
      BY <3>1, DoneGrows DEF OrderInv
  <2>5. CASE IngestBounds \/ IngestSummarize \/ IngestAppend
    <3>1. ing'.commit = ing.commit /\ Active
      BY <1>0, <2>5 DEF IngestBounds, IngestSummarize, IngestAppend, IngestProcess, Active
    <3> QED
      BY <3>1, DoneGrows DEF OrderInv
  <2>6. CASE IngestFinish \/ IngestCrash
    BY <2>6 DEF IngestFinish, IngestCrash, Resting, Active
  <2>7. ASSUME NEW lo \in 0 .. HEAD, NEW hi \in Commits, RunIngest(lo, hi)
        PROVE  (Active => 1 .. ing.commit - 1 \subseteq done)'
    <3>1. lo \in Nat
      BY <1>0 DEF HEAD, TypeOK, GitTypeOK
    <3> QED
      BY <2>2, <2>7, <3>1, DoneGrows
  <2> QED
    BY <2>1, <2>3, <2>4, <2>5, <2>6, <2>7
       DEF Next, DeveloperCommits, IngestNext, IngestStep, ExtractNext, ingVars, vars
<1>2. CASE IngestNext /\ IngestAppend
  <2>1. PICK ev \in EventRow :
            /\ AddEvent(ev)
            /\ ing.commit \in Commits
            /\ ing.at \in Work(ing.commit)
            /\ ev.entity = ing.at[2]
            /\ ev.commit = ing.commit
            /\ ev.kind \in Verdicts(Structural(ing.commit, ing.at[1], ing.at[2]))
    BY <1>0, <1>2, AppendedEvent
  <2>2. 1 .. ev.commit - 1 \subseteq done
    BY <1>2, <2>1 DEF OrderInv, IngestAppend, Active
  <2>3. \A i \in DOMAIN events : i \in DOMAIN events' /\ events'[i] = events[i]
    BY <2>1, <1>0, AddEventEffect DEF TypeOK
  <2>4. \A i \in DOMAIN events' \ DOMAIN events :
            events'[i] = ev /\ ~HasEvent(ev.entity, ev.commit, ev.kind)
    BY <2>1, <1>0, AddEventEffect DEF TypeOK
  <2>5. \A i \in DOMAIN events' : 1 .. events'[i].commit - 1 \subseteq done'
    BY <2>2, <2>3, <2>4, DoneGrows DEF OrderInv
  <2>6. ASSUME ~RealLLM PROVE TimelineOldestFirst'
    <3>1. TimelineOldestFirst
      BY <2>6 DEF OrderInv
    <3>2. \A i \in DOMAIN events : events[i].commit \in Nat /\ ev.commit \in Nat \ {0}
      <4>1. \A i \in DOMAIN events : events[i] \in EventRow
        BY <1>0 DEF TypeOK, StoreTypeOK
      <4> QED
        BY <4>1 DEF EventRow
    <3>3. CASE HasEvent(ev.entity, ev.commit, ev.kind)
      BY <2>1, <3>1, <3>3 DEF AddEvent, TimelineOldestFirst
    <3>4. CASE ~HasEvent(ev.entity, ev.commit, ev.kind)
      <4>1. ev.commit \notin done
        <5>1. SUFFICES ASSUME ev.commit \in done PROVE FALSE
          OBVIOUS
        <5>2. Recorded(ev.commit, ing.at)
          BY <1>0, <2>1, <5>1 DEF CompletedCommitsRecorded
        <5> QED
          BY <2>1, <2>6, <3>4, <5>2 DEF Recorded, HasEvent, Verdicts
      <4>2. \A i \in DOMAIN events : events[i].commit <= ev.commit
        BY <3>2, <4>1 DEF OrderInv
      <4>3. events' = Append(events, ev)
        BY <2>1, <3>4 DEF AddEvent
      <4>4. /\ events \in Seq(EventRow)
            /\ DOMAIN events' = 1 .. Len(events) + 1 /\ DOMAIN events = 1 .. Len(events)
            /\ Len(events) \in Nat
        BY <1>0, <4>3 DEF TypeOK, StoreTypeOK
      <4>5. ASSUME NEW i \in DOMAIN events', NEW j \in DOMAIN events',
                   events'[i].entity = events'[j].entity, i < j
            PROVE  events'[i].commit <= events'[j].commit
        <5>1. i \in DOMAIN events
          BY <4>4, <4>5
        <5>2. CASE j \in DOMAIN events
          BY <2>3, <3>1, <4>5, <5>1, <5>2 DEF TimelineOldestFirst
        <5>3. CASE j \notin DOMAIN events
          BY <2>3, <2>4, <4>2, <5>1, <5>3
        <5> QED
          BY <5>2, <5>3
      <4> QED
        BY <4>5 DEF TimelineOldestFirst
    <3> QED
      BY <3>3, <3>4
  <2> QED
    BY <1>1, <2>5, <2>6 DEF OrderInv
<1>3. CASE ~(IngestNext /\ IngestAppend)
  <2>1. events' = events
    BY <1>3, EventsStep
  <2> QED
    BY <1>1, <2>1, DoneGrows DEF OrderInv, TimelineOldestFirst
<1> QED
  BY <1>2, <1>3

\* With the deterministic verdicts and ranges that leave no gap, rowid order is commit
\* order on every timeline, whatever is re-ingested and wherever runs die.
THEOREM OldestFirst ==
    ASSUME InOrder, ~RealLLM
    PROVE  Spec => []TimelineOldestFirst
<1>1. Init => OrderInv
  BY DEF Init, StoreInit, IngestInit, Resting, OrderInv, Active, TimelineOldestFirst
<1>2. ASSUME IInv, OrderInv, [Next]_vars PROVE OrderInv'
  BY <1>2, OrderStep
<1>3. OrderInv => TimelineOldestFirst
  BY DEF OrderInv
<1> QED
  BY <1>1, <1>2, <1>3, Inductive, PTL DEF Spec

-----------------------------------------------------------------------------
(* The history. *)

\* Git lists every file in which a commit changed a declaration.
DiffListed ==
    \A c \in Commits : DiffersIn(ParentTree(c), TreeAt(c)) \subseteq history[c].changed

\* Commits are made with the files they differ in.
LEMMA DiffListedStep ==
    ASSUME TypeOK, DiffListed, [Next]_vars
    PROVE  DiffListed'
<1>1. CASE DeveloperCommits
  <2>1. PICK t \in Trees, changed \in SUBSET Files :
            \E manifests, touched : Commit(t, changed, touched, manifests)
    BY <1>1 DEF DeveloperCommits, GitNext
  <2>2. PICK manifests, touched : Commit(t, changed, touched, manifests)
    BY <2>1
  <2> DEFINE x == [tree |-> t, changed |-> changed, touched |-> touched,
                   manifests |-> manifests]
  <2>3. /\ history' = Append(history, x)
        /\ DiffersIn(TreeAt(HEAD), t) \subseteq changed
    BY <2>2 DEF Commit
  <2>4. /\ x.tree = t /\ x.changed = changed
    OBVIOUS
  <2> HIDE DEF x
  <2>5. GitTypeOK /\ Len(history) \in Nat
    BY DEF TypeOK, GitTypeOK
  <2>6. /\ Commits' = Commits \cup {Len(history) + 1}
        /\ history'[Len(history) + 1] = x
        /\ Commits = 1 .. Len(history)
    BY <2>3, <2>5 DEF Commits, GitTypeOK
  <2>7. ASSUME NEW c \in Commits
        PROVE  DiffersIn(ParentTree(c), TreeAt(c))' \subseteq history'[c].changed
    <3>1. /\ TreeAt(c)' = TreeAt(c)
          /\ ParentTree(c)' = ParentTree(c)
          /\ history'[c] = history[c]
      BY <2>3, <2>5, HistoryOnlyGrows
    <3> QED
      BY <3>1 DEF DiffListed, DiffersIn
  <2>8. ASSUME NEW c, c = Len(history) + 1
        PROVE  DiffersIn(ParentTree(c), TreeAt(c))' \subseteq history'[c].changed
    <3>1. TreeAt(c)' = t
      BY <2>4, <2>5, <2>6, <2>8 DEF TreeAt, NoCommit
    <3>2. c - 1 = Len(history)
      BY <2>5, <2>8
    <3>3. ParentTree(c)' = TreeAt(HEAD)
      <4>1. CASE Len(history) = 0
        BY <3>2, <4>1 DEF ParentTree, TreeAt, HEAD, NoCommit
      <4>2. CASE Len(history) # 0
        <5>1. PICK d \in Commits : d = c - 1
          BY <2>5, <2>6, <3>2, <4>2
        <5>2. TreeAt(d)' = TreeAt(d)
          BY <2>3, <2>5, <5>1, HistoryOnlyGrows
        <5> QED
          BY <3>2, <5>1, <5>2 DEF ParentTree, HEAD
      <4> QED
        BY <4>1, <4>2
    <3> QED
      BY <2>3, <2>4, <2>6, <2>8, <3>1, <3>3 DEF DiffersIn
  <2> QED
    BY <2>6, <2>7, <2>8 DEF DiffListed
<1>2. CASE UNCHANGED history
  BY <1>2 DEF DiffListed, Commits, DiffersIn, ParentTree, TreeAt
<1> QED
  BY <1>1, <1>2 DEF Next, IngestNext, ExtractNext, vars

\* The commit declares the entity of the slot anew or deletes its declaration.
Flips(c, s) == (ParentTree(c)[s] = Absent) # (TreeAt(c)[s] = Absent)

\* As long as no commit does, a slot stays declared, or stays undeclared.
LEMMA SameUntilFlip ==
    ASSUME GitTypeOK, NEW s, NEW c \in 0 .. HEAD, \A d \in c + 1 .. HEAD : ~Flips(d, s)
    PROVE  (TreeAt(HEAD)[s] = Absent) <=> (TreeAt(c)[s] = Absent)
<1> DEFINE Other(d) == (TreeAt(d)[s] = Absent) # (TreeAt(c)[s] = Absent)
           T == {d \in c .. HEAD : Other(d)}
<1>0. HEAD \in Nat /\ c \in Nat
  BY DEF HEAD, GitTypeOK
<1>1. SUFFICES ASSUME T # {} PROVE FALSE
  <2>1. T = {}
    BY <1>1
  <2>2. HEAD \in c .. HEAD
    BY <1>0
  <2> QED
    BY <2>1, <2>2
<1>2. PICK d \in T : \A x \in T : d <= x
  <2>1. T \subseteq Nat
    BY <1>0
  <2> HIDE DEF T
  <2> QED
    BY <1>1, <2>1, Smallest
<1>3. d \in c .. HEAD /\ Other(d)
  OBVIOUS
<1>4. d # c
  BY <1>3
<1>5. d - 1 \in c .. HEAD /\ d \in c + 1 .. HEAD
  BY <1>0, <1>3, <1>4
<1>6. ~Other(d - 1)
  <2>1. d - 1 \notin T
    BY <1>0, <1>2, <1>3
  <2> QED
    BY <1>5, <2>1
<1>7. Flips(d, s)
  BY <1>3, <1>6 DEF Flips, ParentTree
<1> QED
  BY <1>5, <1>7

\* A commit that flips a slot has work there.
LEMMA FlipIsWork ==
    ASSUME DiffListed, NEW c \in Commits, NEW s \in Slots, Flips(c, s)
    PROVE  s \in Work(c)
<1>1. s = <<s[1], s[2]>>
  BY DEF Slots
<1>2. s[1] \in history[c].changed
  <2>1. ParentTree(c)[s] # TreeAt(c)[s]
    BY DEF Flips
  <2>2. s[1] \in DiffersIn(ParentTree(c), TreeAt(c))
    BY <2>1 DEF DiffersIn
  <2> QED
    BY <2>2 DEF DiffListed
<1>3. Structural(c, s[1], s[2]) \in {"added", "removed"}
  BY <1>1 DEF Flips, Structural
<1> QED
  BY <1>2, <1>3 DEF Work

\* A commit's verdict is a removal exactly when it leaves the slot undeclared.
LEMMA RemovedIsAbsent ==
    ASSUME NEW c, NEW s \in Work(c)
    PROVE  Structural(c, s[1], s[2]) = "removed" <=> TreeAt(c)[s] = Absent
<1>1. s = <<s[1], s[2]>> /\ Structural(c, s[1], s[2]) # "none"
  BY DEF Work, Slots
<1> QED
  BY <1>1 DEF Structural, Classify

-----------------------------------------------------------------------------
(* Replay. *)

\* An entity with one possible file has one slot.
LEMMA OneSlot ==
    ASSUME NEW e \in Entities, NEW f, FilesOf[e] = {f}, NEW s \in Slots, s[2] = e
    PROVE  s = <<f, e>>
  BY DEF Slots

\* The replay of a timeline from what the events say, one by one.
LEMMA Replay ==
    ASSUME TypeOK, EventsOfHistory, CompletedCommitsRecorded, EventsExact, DiffListed
    PROVE  ReplayGivesHead
<1> SUFFICES ASSUME Commits \subseteq done, ~RealLLM,
                    NEW e \in Entities, NEW f \in Files, FilesOf[e] = {f}
             PROVE  TreeAt(HEAD)[<<f, e>>] # Absent
                        <=> \E i \in LastEvents(e) : events[i].kind # "removed"
  BY DEF ReplayGivesHead
<1>0. PICK s \in Slots : s = <<f, e>>
  BY DEF Slots
<1>00. GitTypeOK /\ HEAD \in Nat /\ Commits = 1 .. HEAD /\ s[1] = f /\ s[2] = e
  BY <1>0 DEF TypeOK, GitTypeOK, HEAD, Commits
<1>1. ASSUME NEW c \in Commits, Flips(c, s)
      PROVE  \E i \in EventsFor(e) : events[i].commit = c
  <2>1. s \in Work(c) /\ c \in done
    BY <1>1, FlipIsWork
  <2>2. Recorded(c, s)
    BY <2>1 DEF CompletedCommitsRecorded
  <2> QED
    BY <1>00, <2>2 DEF Recorded, EventsFor
<1>2. ASSUME NEW i \in EventsFor(e)
      PROVE  /\ events[i].commit \in Commits
             /\ events[i].kind = "removed" <=> TreeAt(events[i].commit)[s] = Absent
  <2>1. PICK x \in Work(events[i].commit) :
            /\ x[2] = e
            /\ events[i].kind = Structural(events[i].commit, x[1], x[2])
    BY <1>2 DEF EventsExact, EventsFor
  <2>2. x = s
    BY <1>0, <2>1, OneSlot DEF Work
  <2> QED
    BY <1>2, <2>1, <2>2, RemovedIsAbsent DEF EventsOfHistory, EventsFor
<1> DEFINE T == {events[i].commit : i \in EventsFor(e)}
<1>3. CASE EventsFor(e) = {}
  <2>1. \A d \in 1 .. HEAD : ~Flips(d, s)
    BY <1>00, <1>1, <1>3
  <2>2. 0 \in 0 .. HEAD /\ 0 + 1 = 1
    BY <1>00
  <2>3. TreeAt(HEAD)[s] = Absent <=> TreeAt(0)[s] = Absent
    BY <1>00, <2>1, <2>2, SameUntilFlip
  <2>4. TreeAt(0)[s] = Absent
    BY DEF TreeAt, EmptyTree, NoCommit
  <2> QED
    BY <1>0, <1>3, <2>3, <2>4 DEF LastEvents
<1>4. CASE EventsFor(e) # {}
  <2>1. PICK m \in T : \A y \in T : y <= m
    <3>1. T \in SUBSET (0 .. HEAD) /\ T # {}
      BY <1>00, <1>2, <1>4
    <3>2. HEAD \in Nat
      BY <1>00
    <3> HIDE DEF T
    <3> QED
      BY <3>1, <3>2, LargestOfAny, Zenon
  <2>2. PICK i \in EventsFor(e) : events[i].commit = m
    BY <2>1
  <2>3. m \in 1 .. HEAD
    BY <1>00, <1>2, <2>2
  <2>4. \A d \in m + 1 .. HEAD : ~Flips(d, s)
    <3>1. SUFFICES ASSUME NEW d \in m + 1 .. HEAD, Flips(d, s) PROVE FALSE
      OBVIOUS
    <3>2. d \in Commits /\ ~(d <= m)
      BY <1>00, <2>3, <3>1
    <3>3. d \in T
      BY <1>1, <3>1, <3>2
    <3> QED
      BY <2>1, <3>2, <3>3
  <2>5. TreeAt(HEAD)[s] = Absent <=> TreeAt(m)[s] = Absent
    <3>1. m \in 0 .. HEAD
      BY <1>00, <2>3
    <3> QED
      BY <1>00, <2>4, <3>1, SameUntilFlip
  <2>6. i \in LastEvents(e)
    BY <2>1, <2>2 DEF LastEvents
  <2>7. \A j \in LastEvents(e) : j \in EventsFor(e) /\ events[j].commit = m
    <3>1. SUFFICES ASSUME NEW j \in LastEvents(e)
                   PROVE  j \in EventsFor(e) /\ events[j].commit = m
      OBVIOUS
    <3>2. j \in EventsFor(e) /\ m <= events[j].commit
      BY <2>2 DEF LastEvents
    <3>3. events[j].commit \in T
      BY <3>2
    <3>4. events[j].commit <= m /\ events[j].commit \in Nat /\ m \in Nat
      BY <1>00, <1>2, <2>1, <2>3, <3>2, <3>3
    <3> QED
      BY <3>2, <3>4
  <2>8. \A j \in LastEvents(e) : events[j].kind = "removed" <=> TreeAt(m)[s] = Absent
    BY <1>2, <2>7
  <2> QED
    BY <1>0, <2>5, <2>6, <2>8
<1> QED
  BY <1>3, <1>4

\* Replaying the timelines gives the tree at HEAD, in every organisation and however often
\* ingest died and was run again, once every commit is ingested with deterministic verdicts.
THEOREM Replayable == Spec => []ReplayGivesHead
<1>1. Init => DiffListed
  BY DEF Init, GitInit, DiffListed, Commits
<1>2. ASSUME IInv, DiffListed, [Next]_vars PROVE DiffListed'
  BY <1>2, DiffListedStep DEF IInv
<1>3. IInv /\ DiffListed => ReplayGivesHead
  BY Replay DEF IInv
<1> QED
  BY <1>1, <1>2, <1>3, Inductive, PTL DEF Spec

-----------------------------------------------------------------------------
(* The bounds of a row. *)

\* A bound of e is a commit that did something to e, and that is ingested, was interrupted
\* or is being ingested.
Backed(e, b) ==
    b # NoCommit =>
        /\ b \in Commits
        /\ \E s \in Work(b) : s[2] = e
        /\ b \in done \cup interrupted \/ (Active /\ b = ing.commit)

\* The row of e has both of its bounds.
Bounded(e) == OriginOf(e) # NoCommit /\ LatestOf(e) # NoCommit

\* What has events, or is about to have one, is bounded; and with ranges in order the
\* origin comes before whatever else was done to the entity.
BoundInv ==
    /\ \A e \in DOMAIN entities :
        Backed(e, entities[e].origin_commit) /\ Backed(e, entities[e].latest_commit)
    /\ \A i \in DOMAIN events : Bounded(events[i].entity)
    /\ ing.pc \in {"bounds", "summarize", "append"} => Bounded(ing.at[2])
    /\ InOrder =>
        \A e \in DOMAIN entities, d \in Commits : \A s \in Work(d) :
            s[2] = e /\ entities[e].origin_commit # NoCommit
                => entities[e].origin_commit <= d

\* The commit that ingest is on, when it is one that did something to e.
Fresh(e) == {c \in Commits : /\ Active /\ c = ing.commit
                             /\ \E s \in Work(c) : s[2] = e}

\* A step that writes a bound of e.
BoundsFrom(e) ==
    /\ entities'[e].origin_commit = OriginOf(e)
        \/ (OriginOf(e) = NoCommit /\ entities'[e].origin_commit \in Fresh(e))
    /\ entities'[e].latest_commit \in {LatestOf(e)} \cup Fresh(e)

\* upsert_entity by ingest, whose bounds are the commit it is on.
LEMMA UpsertBounds ==
    ASSUME TypeOK, NEW x \in Entities, NEW signature, NEW file, NEW c \in Nat,
           UpsertEntity(x, signature, file, c, c), c = NoCommit \/ c \in Fresh(x),
           NEW e \in DOMAIN entities'
    PROVE  BoundsFrom(e)
<1>1. CASE e # x
  BY <1>1 DEF UpsertEntity, BoundsFrom, OriginOf, LatestOf
<1>2. CASE e = x
  <2>1. /\ entities'[e].origin_commit = Coalesce(OriginOf(e), c)
        /\ entities'[e].latest_commit = Coalesce(c, LatestOf(e))
    BY <1>2 DEF UpsertEntity
  <2> QED
    BY <1>2, <2>1 DEF BoundsFrom, Coalesce
<1> QED
  BY <1>1, <1>2

\* Every bound was there before or is the commit that ingest is on; an origin is only
\* written where there was none.
LEMMA BoundsStep ==
    ASSUME TypeOK, LoopInv, [Next]_vars, NEW e \in DOMAIN entities'
    PROVE  BoundsFrom(e)
<1>1. CASE UNCHANGED entities
  BY <1>1 DEF BoundsFrom, OriginOf, LatestOf
<1>2. ASSUME NEW s \in Slots, IngestEntity(s) PROVE BoundsFrom(e)
  <2>1. /\ s \in ing.todo /\ Active
    BY <1>2 DEF IngestEntity, Active
  <2>2. ing.commit \in Fresh(s[2])
    BY <2>1 DEF LoopInv, Fresh
  <2>3. s[2] \in Entities /\ ing.commit \in Nat
    BY <2>2 DEF Slots, Fresh, Commits
  <2>4. \E signature : UpsertEntity(s[2], signature, s[1], ing.commit, ing.commit)
    BY <1>2 DEF IngestEntity
  <2> QED
    BY <2>2, <2>3, <2>4, UpsertBounds
<1>3. CASE IngestBounds
  <2>1. Active /\ ing.pc = "bounds" /\ SetCommitBounds(ing.at[2], ing.commit, ing.commit)
    BY <1>3 DEF IngestBounds, Active
  <2>2. ing.commit \in Fresh(ing.at[2])
    BY <2>1 DEF LoopInv, Fresh
  <2>3. DOMAIN entities' = DOMAIN entities
    BY <2>1 DEF SetCommitBounds
  <2>4. entities[e] \in EntityRow
    BY <2>3 DEF TypeOK, StoreTypeOK
  <2>5. CASE e # ing.at[2]
    BY <2>1, <2>3, <2>5 DEF SetCommitBounds, BoundsFrom, OriginOf, LatestOf
  <2>6. CASE e = ing.at[2]
    <3>1. entities'[e] = [entities[e] EXCEPT
                            !.origin_commit = Coalesce(entities[e].origin_commit, ing.commit),
                            !.latest_commit = ing.commit]
      BY <2>1, <2>3, <2>6 DEF SetCommitBounds
    <3>2. /\ entities'[e].origin_commit = Coalesce(entities[e].origin_commit, ing.commit)
          /\ entities'[e].latest_commit = ing.commit
      BY <2>4, <3>1 DEF EntityRow
    <3> QED
      BY <2>2, <2>3, <2>6, <3>2 DEF BoundsFrom, OriginOf, Coalesce
  <2> QED
    BY <2>5, <2>6
<1>4. ASSUME NEW s \in Slots, ExtractProducer(s) PROVE BoundsFrom(e)
  <2>1. s[2] \in Entities /\ NoCommit \in Nat
    BY DEF Slots, NoCommit
  <2>2. \E signature : UpsertEntity(s[2], signature, s[1], NoCommit, NoCommit)
    BY <1>4 DEF ExtractProducer
  <2> QED
    BY <2>1, <2>2, UpsertBounds
<1>5. CASE DeveloperCommits \/ UNCHANGED vars
  BY <1>1, <1>5 DEF DeveloperCommits, store, vars
<1>6. CASE IngestNext
  BY <1>1, <1>2, <1>3, <1>6
     DEF IngestNext, RunIngest, StartIngest, IngestStep, IngestSummarize, IngestAppend,
         IngestNextCommit, IngestFinish, IngestCrash, store
<1>7. CASE ExtractNext
  BY <1>1, <1>4, <1>7
     DEF ExtractNext, StartExtract, ExtractStep, ExtractManifests, ReadManifest, SeedManifestEdge,
         IndexProducers, ResolveCodeEdge, ExtractFinish, ExtractCrash, store
<1> QED
  BY <1>5, <1>6, <1>7 DEF Next

\* What is settled, or worked on, stays one or the other.
LEMMA SettledStep ==
    ASSUME TypeOK, [Next]_vars
    PROVE  /\ done \cup interrupted \subseteq done' \cup interrupted'
           /\ Active => \/ ing.commit \in done' \cup interrupted'
                        \/ Active' /\ ing'.commit = ing.commit
<1>0. ing \in IngestProcess
  BY DEF TypeOK, IngestTypeOK
<1>1. CASE UNCHANGED <<ing, done, interrupted>>
  BY <1>1 DEF Active
<1>2. ASSUME NEW lo \in 0 .. HEAD, NEW hi \in Commits, RunIngest(lo, hi)
      PROVE  ~Active /\ UNCHANGED <<done, interrupted>>
  BY <1>2 DEF RunIngest, StartIngest
<1>3. ASSUME NEW s \in Slots, IngestEntity(s)
      PROVE  Active' /\ ing'.commit = ing.commit /\ UNCHANGED <<done, interrupted>>
  BY <1>0, <1>3 DEF IngestEntity, IngestProcess, Active
<1>4. ASSUME IngestBounds \/ IngestSummarize \/ IngestAppend
      PROVE  Active' /\ ing'.commit = ing.commit /\ UNCHANGED <<done, interrupted>>
  BY <1>0, <1>4 DEF IngestBounds, IngestSummarize, IngestAppend, IngestProcess, Active
<1>5. CASE IngestNextCommit \/ IngestFinish
  BY <1>5 DEF IngestNextCommit, IngestFinish, CommitIngested
<1>6. CASE IngestCrash
  BY <1>6 DEF IngestCrash
<1> QED
  BY <1>1, <1>2, <1>3, <1>4, <1>5, <1>6
     DEF Next, DeveloperCommits, IngestNext, IngestStep, ExtractNext, ingVars, vars

\* A bound keeps what backs it.
LEMMA BackedStable ==
    ASSUME TypeOK, [Next]_vars, NEW e, NEW b, Backed(e, b)
    PROVE  Backed(e, b)'
<1>1. SUFFICES ASSUME b # NoCommit
               PROVE  /\ b \in Commits'
                      /\ \E s \in Work(b)' : s[2] = e
                      /\ b \in done' \cup interrupted' \/ (Active' /\ b = ing'.commit)
  BY DEF Backed
<1>2. /\ b \in Commits
      /\ \E s \in Work(b) : s[2] = e
      /\ b \in done \cup interrupted \/ (Active /\ b = ing.commit)
  BY <1>1 DEF Backed
<1>3. b \in Commits' /\ Work(b)' = Work(b)
  BY <1>2, HistoryStep, WorkStable DEF TypeOK
<1> QED
  BY <1>2, <1>3, SettledStep

\* A row keeps its bounds.
LEMMA BoundedStable ==
    ASSUME TypeOK, LoopInv, [Next]_vars, NEW e, Bounded(e)
    PROVE  Bounded(e)'
<1>1. e \in DOMAIN entities'
  <2>1. e \in DOMAIN entities
    BY DEF Bounded, OriginOf
  <2> QED
    BY <2>1, RowsOnlyGrow
<1>2. BoundsFrom(e)
  BY <1>1, BoundsStep
<1>3. NoCommit \notin Fresh(e)
  BY DEF Fresh, Commits, NoCommit
<1> QED
  BY <1>1, <1>2, <1>3 DEF Bounded, BoundsFrom, OriginOf, LatestOf

\* After its upsert the entity that ingest works on is bounded.
LEMMA UpsertIsBounded ==
    ASSUME TypeOK, LoopInv, NEW s \in Slots, IngestEntity(s)
    PROVE  Bounded(s[2])' /\ ing'.at = s
<1>1. ing.commit \in Commits
  BY DEF IngestEntity, LoopInv, Active
<1>2. ing.commit # NoCommit
  BY <1>1 DEF Commits, NoCommit
<1>3. \E signature : UpsertEntity(s[2], signature, s[1], ing.commit, ing.commit)
  BY DEF IngestEntity
<1>4. ing'.at = s
  BY DEF IngestEntity, TypeOK, IngestTypeOK, IngestProcess
<1>5. /\ s[2] \in DOMAIN entities'
      /\ entities'[s[2]].origin_commit = Coalesce(OriginOf(s[2]), ing.commit)
      /\ entities'[s[2]].latest_commit = Coalesce(ing.commit, LatestOf(s[2]))
  BY <1>3 DEF UpsertEntity
<1> QED
  BY <1>2, <1>4, <1>5 DEF Bounded, OriginOf, LatestOf, Coalesce

\* Ingest bounds a row before it appends an event of it.
LEMMA BoundedStep ==
    ASSUME TypeOK, LoopInv, [Next]_vars,
           \A i \in DOMAIN events : Bounded(events[i].entity),
           ing.pc \in {"bounds", "summarize", "append"} => Bounded(ing.at[2])
    PROVE  /\ (\A i \in DOMAIN events : Bounded(events[i].entity))'
           /\ (ing.pc \in {"bounds", "summarize", "append"} => Bounded(ing.at[2]))'
<1>0. ing \in IngestProcess
  BY DEF TypeOK, IngestTypeOK
<1>1. ASSUME NEW i \in DOMAIN events' PROVE Bounded(events[i].entity)'
  <2>1. PICK e : e = events'[i].entity
    OBVIOUS
  <2>2. Bounded(e)
    <3>1. CASE IngestNext /\ IngestAppend
      <4>1. PICK ev \in EventRow : AddEvent(ev) /\ ev.entity = ing.at[2]
        BY <3>1, AppendedEvent
      <4>2. Bounded(ing.at[2])
        BY <3>1 DEF IngestAppend
      <4> QED
        BY <1>1, <2>1, <4>1, <4>2, AddEventEffect DEF TypeOK
    <3>2. CASE ~(IngestNext /\ IngestAppend)
      BY <1>1, <2>1, <3>2, EventsStep
    <3> QED
      BY <3>1, <3>2
  <2>3. Bounded(e)'
    BY <2>2, BoundedStable
  <2> QED
    BY <2>1, <2>3 DEF Bounded, OriginOf, LatestOf
<1>2. (ing.pc \in {"bounds", "summarize", "append"} => Bounded(ing.at[2]))'
  <2>1. ASSUME ing.pc \in {"bounds", "summarize", "append"}, ing'.at = ing.at
        PROVE  Bounded(ing.at[2])'
    <3>1. PICK e : e = ing.at[2]
      OBVIOUS
    <3>2. Bounded(e)'
      BY <2>1, <3>1, BoundedStable
    <3> QED
      BY <2>1, <3>1, <3>2 DEF Bounded, OriginOf, LatestOf
  <2>2. CASE UNCHANGED ing
    BY <2>1, <2>2
  <2>3. ASSUME NEW s \in Slots, IngestEntity(s) PROVE Bounded(ing.at[2])'
    <3>1. Bounded(s[2])' /\ ing'.at = s
      BY <2>3, UpsertIsBounded
    <3> QED
      BY <3>1 DEF Bounded, OriginOf, LatestOf
  <2>4. CASE IngestBounds \/ IngestSummarize
    <3>1. ing.pc \in {"bounds", "summarize"} /\ ing'.at = ing.at
      BY <1>0, <2>4 DEF IngestBounds, IngestSummarize, IngestProcess
    <3> QED
      BY <2>1, <3>1
  <2>5. CASE IngestAppend \/ IngestNextCommit
    <3>1. ing'.pc = "scan"
      BY <1>0, <2>5 DEF IngestAppend, IngestNextCommit, CommitIngested, IngestProcess
    <3> QED
      BY <3>1
  <2>6. CASE IngestFinish \/ IngestCrash
    BY <2>6 DEF IngestFinish, IngestCrash, Resting
  <2>7. ASSUME NEW lo \in 0 .. HEAD, NEW hi \in Commits, RunIngest(lo, hi)
        PROVE  ing'.pc = "scan"
    BY <2>7 DEF RunIngest, StartIngest, Resting
  <2> QED
    BY <2>2, <2>3, <2>4, <2>5, <2>6, <2>7
       DEF Next, DeveloperCommits, IngestNext, IngestStep, ExtractNext, ingVars, vars
<1> QED
  BY <1>1, <1>2

\* An origin is only written when no earlier commit did something to the entity: if one
\* had, it would be ingested, its event would be there, and the row would have an origin.
LEMMA OriginStep ==
    ASSUME IInv, OrderInv, BoundInv, [Next]_vars, InOrder,
           NEW e \in DOMAIN entities', NEW d \in Commits', NEW s \in Work(d)', s[2] = e,
           entities'[e].origin_commit # NoCommit
    PROVE  entities'[e].origin_commit <= d
<1>0. TypeOK /\ LoopInv /\ CompletedCommitsRecorded /\ GitTypeOK
  BY DEF IInv, TypeOK
<1>1. /\ Commits \subseteq Nat /\ Commits' \subseteq Nat
      /\ \A c \in Commits : c <= d \/ d \in Commits
  BY DEF Commits
<1>2. d \in Commits => s \in Work(d)
  BY <1>0, HistoryStep, WorkStable
<1>3. CASE entities'[e].origin_commit = OriginOf(e)
  <2>1. e \in DOMAIN entities /\ OriginOf(e) = entities[e].origin_commit
    BY <1>3 DEF OriginOf
  <2>2. entities[e].origin_commit \in Commits
    BY <1>3, <2>1 DEF BoundInv, Backed
  <2> QED
    BY <1>1, <1>2, <1>3, <2>1, <2>2 DEF BoundInv
<1>4. CASE OriginOf(e) = NoCommit /\ entities'[e].origin_commit \in Fresh(e)
  <2>1. /\ Active /\ entities'[e].origin_commit = ing.commit /\ ing.commit \in Commits
    BY <1>4 DEF Fresh
  <2>2. 1 .. ing.commit - 1 \subseteq done
    BY <2>1 DEF OrderInv
  <2>3. SUFFICES ASSUME d \in Commits, d < ing.commit PROVE FALSE
    <3>1. d \in Nat /\ ing.commit \in Nat /\ (ing.commit <= d \/ d \in Commits)
      BY <1>1, <2>1
    <3> QED
      BY <2>1, <2>3, <3>1
  <2>4. d \in done
    BY <1>1, <2>1, <2>2, <2>3 DEF Commits
  <2>5. Recorded(d, s)
    BY <1>0, <1>2, <2>3, <2>4 DEF CompletedCommitsRecorded
  <2>6. Bounded(e)
    BY <2>5 DEF Recorded, BoundInv
  <2> QED
    BY <1>4, <2>6 DEF Bounded
<1> QED
  BY <1>0, <1>3, <1>4, BoundsStep DEF BoundsFrom

\* Every step keeps the bounds in order.
LEMMA BoundInvStep ==
    ASSUME IInv, OrderInv, BoundInv, [Next]_vars
    PROVE  BoundInv'
<1>0. TypeOK /\ LoopInv
  BY DEF IInv
<1>1. ASSUME NEW e \in DOMAIN entities'
      PROVE  /\ Backed(e, entities[e].origin_commit)'
             /\ Backed(e, entities[e].latest_commit)'
  <2>1. ASSUME NEW b, b \in {OriginOf(e), LatestOf(e)} \cup Fresh(e) PROVE Backed(e, b)'
    <3>1. Backed(e, b)
      <4>1. CASE b \in Fresh(e)
        BY <4>1 DEF Backed, Fresh
      <4>2. CASE b = NoCommit
        BY <4>2 DEF Backed
      <4>3. CASE b \in {OriginOf(e), LatestOf(e)} /\ b # NoCommit
        BY <4>3 DEF BoundInv, OriginOf, LatestOf
      <4> QED
        BY <2>1, <4>1, <4>2, <4>3
    <3> QED
      BY <1>0, <3>1, BackedStable
  <2>2. PICK o, l : o = entities'[e].origin_commit /\ l = entities'[e].latest_commit
    OBVIOUS
  <2>3. o \in {OriginOf(e), LatestOf(e)} \cup Fresh(e)
        /\ l \in {OriginOf(e), LatestOf(e)} \cup Fresh(e)
    BY <1>0, <1>1, <2>2, BoundsStep DEF BoundsFrom
  <2>4. Backed(e, o)' /\ Backed(e, l)'
    BY <2>1, <2>3
  <2> QED
    BY <2>2, <2>4 DEF Backed
<1>2. /\ (\A i \in DOMAIN events : Bounded(events[i].entity))'
      /\ (ing.pc \in {"bounds", "summarize", "append"} => Bounded(ing.at[2]))'
  BY <1>0, BoundedStep DEF BoundInv
<1>3. ASSUME InOrder
      PROVE  \A e \in DOMAIN entities', d \in Commits' : \A s \in Work(d)' :
                s[2] = e /\ entities'[e].origin_commit # NoCommit
                    => entities'[e].origin_commit <= d
  BY <1>3, OriginStep
<1> QED
  BY <1>1, <1>2, <1>3 DEF BoundInv

\* At rest, a bound is the commit of an event.
LEMMA BoundsAtRest ==
    ASSUME IInv, BoundInv
    PROVE  BoundsBookendTimeline
<1> SUFFICES ASSUME ~Active, interrupted = {}, NEW e \in DOMAIN entities
             PROVE  LET onTimeline == {events[i].commit : i \in EventsFor(e)}
                    IN  IF onTimeline = {}
                        THEN OriginOf(e) = NoCommit /\ LatestOf(e) = NoCommit
                        ELSE /\ {OriginOf(e), LatestOf(e)} \subseteq onTimeline
                             /\ InOrder => \A c \in onTimeline : OriginOf(e) <= c
  BY DEF BoundsBookendTimeline
<1> DEFINE onTimeline == {events[i].commit : i \in EventsFor(e)}
<1>1. ASSUME NEW b \in {OriginOf(e), LatestOf(e)}, b # NoCommit PROVE b \in onTimeline
  <2>1. Backed(e, b)
    BY <1>1 DEF BoundInv, OriginOf, LatestOf
  <2>2. PICK s \in Work(b) : s[2] = e
    BY <1>1, <2>1 DEF Backed
  <2>3. b \in done
    BY <1>1, <2>1 DEF Backed
  <2>4. Recorded(b, s)
    BY <2>2, <2>3 DEF IInv, CompletedCommitsRecorded
  <2> QED
    BY <2>2, <2>4 DEF Recorded, EventsFor
<1>2. CASE onTimeline = {}
  BY <1>1, <1>2
<1>3. CASE onTimeline # {}
  <2>1. PICK i \in EventsFor(e) : TRUE
    BY <1>3
  <2>2. OriginOf(e) # NoCommit /\ LatestOf(e) # NoCommit
    BY <2>1 DEF BoundInv, Bounded, EventsFor
  <2>3. ASSUME InOrder, NEW j \in EventsFor(e) PROVE OriginOf(e) <= events[j].commit
    <3>1. events[j].commit \in Commits /\ events[j].entity = e
      BY <2>3 DEF IInv, EventsOfHistory, EventsFor
    <3>2. PICK s \in Work(events[j].commit) : s[2] = e
      BY <2>3, <3>1 DEF IInv, EventsExact, EventsFor
    <3> QED
      BY <2>2, <2>3, <3>1, <3>2 DEF BoundInv, OriginOf
  <2>4. {OriginOf(e), LatestOf(e)} \subseteq onTimeline
    BY <1>1, <2>2
  <2>5. InOrder => \A c \in onTimeline : OriginOf(e) <= c
    BY <2>3
  <2> HIDE DEF onTimeline
  <2>6. IF onTimeline = {}
        THEN OriginOf(e) = NoCommit /\ LatestOf(e) = NoCommit
        ELSE /\ {OriginOf(e), LatestOf(e)} \subseteq onTimeline
             /\ InOrder => \A c \in onTimeline : OriginOf(e) <= c
    BY <1>3, <2>4, <2>5
  <2> QED
    BY <2>6 DEF onTimeline
<1> QED
  BY <1>2, <1>3

\* The bounds, and the order they rest on, are kept by every step.
LEMMA BoundAlways == Spec => [](OrderInv /\ BoundInv)
<1>1. Init => OrderInv /\ BoundInv
  BY DEF Init, StoreInit, IngestInit, Resting, OrderInv, Active, TimelineOldestFirst,
         BoundInv, Bounded
<1>2. ASSUME IInv, OrderInv, BoundInv, [Next]_vars PROVE OrderInv' /\ BoundInv'
  <2>1. OrderInv'
    <3>1. CASE InOrder
      BY <1>2, <3>1, OrderStep
    <3>2. CASE ~InOrder
      BY <3>2 DEF OrderInv
    <3> QED
      BY <3>1, <3>2
  <2> QED
    BY <1>2, <2>1, BoundInvStep
<1> QED
  BY <1>1, <1>2, Inductive, PTL DEF Spec

\* At rest the bounds of every row are commits of its timeline, and with ranges in order
\* its origin is the earliest, for any number of crashes, retries and extracts and for
\* every answer of the model.
THEOREM Bookends == Spec => []BoundsBookendTimeline
<1>1. IInv /\ BoundInv => BoundsBookendTimeline
  BY BoundsAtRest
<1> QED
  BY <1>1, BoundAlways, Inductive, PTL
=================================================================================

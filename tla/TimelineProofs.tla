----------------------------- MODULE TimelineProofs -----------------------------
(* Proofs, for all values of the constants, that the timelines built by ingest are  *)
(* complete, exact and soundly flagged, that origins are written once and that edges *)
(* only improve, whatever crashes, retries, overlapping ranges and concurrent        *)
(* extracts do.                                                                      *)
EXTENDS Timeline, SequenceTheorems, TLAPS

USE GitAssumption, StoreAssumption, IngestAssumption, ExtractAssumption,
    TimelineAssumption

-----------------------------------------------------------------------------
(* The repository. *)

\* A tree has a shape or nothing in every slot, also before the root commit.
LEMMA TreeType ==
    ASSUME GitTypeOK, NEW c \in 0 .. Len(history)
    PROVE  TreeAt(c) \in Trees
<1>1. CASE c = NoCommit
  BY <1>1 DEF TreeAt, EmptyTree, Trees
<1>2. CASE c # NoCommit
  <2>1. c \in 1 .. Len(history)
    BY <1>2 DEF NoCommit
  <2>2. history[c] \in CommitRecord
    BY <2>1 DEF GitTypeOK
  <2> QED
    BY <1>2, <2>2 DEF TreeAt, CommitRecord
<1> QED
  BY <1>1, <1>2

\* The newest commit, or the missing parent of the root.
LEMMA HEADType == ASSUME GitTypeOK PROVE HEAD \in Nat /\ HEAD \in 0 .. Len(history)
  BY DEF GitTypeOK, HEAD

\* What the manifests of a commit declare are links; nothing is declared before the root.
LEMMA ManifestsType ==
    ASSUME GitTypeOK, NEW c \in 0 .. Len(history)
    PROVE  ManifestsAt(c) \subseteq Links
<1>1. CASE c = NoCommit
  BY <1>1 DEF ManifestsAt
<1>2. CASE c # NoCommit
  <2>1. c \in 1 .. Len(history)
    BY <1>2 DEF NoCommit
  <2>2. history[c] \in CommitRecord
    BY <2>1 DEF GitTypeOK
  <2> QED
    BY <1>2, <2>2 DEF ManifestsAt, CommitRecord
<1> QED
  BY <1>1, <1>2

\* Whatever declarations win the model index, a signature is one of Signatures.
LEMMA SignatureType ==
    ASSUME NEW t \in Trees, NEW s \in Slots,
           NEW winners, winners \subseteq Declaring(t, ModelOf[s[2]])
    PROVE  SignatureWith(t, s[1], s[2], winners) \in Signatures
<1>1. \A g \in winners : <<g, ModelOf[s[2]]>> \in Slots
  BY DEF Declaring
<1>2. \A g \in winners : t[<<g, ModelOf[s[2]]>>] \in Shapes \cup {Absent}
  BY <1>1 DEF Trees
<1>3. s = <<s[1], s[2]>>
  BY DEF Slots
<1>4. t[<<s[1], s[2]>>] \in Shapes \cup {Absent}
  BY <1>3 DEF Trees
<1> DEFINE fields == {t[<<g, ModelOf[s[2]]>>] : g \in winners}
<1>5. fields \in SUBSET (Shapes \cup {Absent})
  BY <1>2
<1>6. SignatureWith(t, s[1], s[2], winners) = [shape |-> t[<<s[1], s[2]>>], fields |-> fields]
  BY DEF SignatureWith
<1> HIDE DEF fields
<1> QED
  BY <1>4, <1>5, <1>6 DEF Signatures

\* In particular the signature of a declaration in a tree of the history.
LEMMA SignatureAtType ==
    ASSUME NEW t \in Trees, NEW s \in Slots
    PROVE  SignatureAt(t, s[1], s[2]) \in Signatures
<1>1. LastDeclaring(t, ModelOf[s[2]]) \subseteq Declaring(t, ModelOf[s[2]])
  BY DEF LastDeclaring
<1> QED
  BY <1>1, SignatureType DEF SignatureAt

\* The verdict on an entity is a change kind, except where there is nothing to record.
LEMMA StructuralType ==
    ASSUME NEW c, NEW s \in Slots
    PROVE  Structural(c, s[1], s[2]) \in ChangeKinds \cup {"none"}
  BY DEF Structural, Classify, ChangeKinds

\* History is append-only: what a commit did is the same after the next one.
LEMMA HistoryOnlyGrows ==
    ASSUME GitTypeOK, NEW x, history' = Append(history, x),
           NEW c \in Commits
    PROVE  /\ c \in Commits'
           /\ TreeAt(c)' = TreeAt(c)
           /\ ParentTree(c)' = ParentTree(c)
           /\ history'[c] = history[c]
  BY DEF GitTypeOK, Commits, TreeAt, ParentTree, NoCommit

\* So the verdict on what a commit did is the same after the next one.
LEMMA StructuralStable ==
    ASSUME GitTypeOK,
           history' = history \/ (\E x : history' = Append(history, x)),
           NEW c \in Commits, NEW f, NEW e
    PROVE  Structural(c, f, e)' = Structural(c, f, e)
<1>1. /\ TreeAt(c)' = TreeAt(c)
      /\ ParentTree(c)' = ParentTree(c)
      /\ history'[c] = history[c]
  <2>1. CASE history' = history
    BY <2>1 DEF TreeAt, ParentTree
  <2>2. CASE \E x : history' = Append(history, x)
    BY <2>2, HistoryOnlyGrows
  <2> QED
    BY <2>1, <2>2
<1> QED
  BY <1>1 DEF Structural

\* And so are the slots that ingest has to visit for it.
LEMMA WorkStable ==
    ASSUME GitTypeOK,
           history' = history \/ (\E x : history' = Append(history, x)),
           NEW c \in Commits
    PROVE  c \in Commits' /\ Work(c)' = Work(c)
<1>1. c \in Commits' /\ history'[c] = history[c]
  <2>1. CASE history' = history
    BY <2>1 DEF Commits
  <2>2. CASE \E x : history' = Append(history, x)
    BY <2>2, HistoryOnlyGrows
  <2> QED
    BY <2>1, <2>2
<1>2. \A s \in Slots : Structural(c, s[1], s[2])' = Structural(c, s[1], s[2])
  BY StructuralStable
<1> QED
  BY <1>1, <1>2 DEF Work

-----------------------------------------------------------------------------
(* The types. *)

\* The loop of an active run: it works on a commit of its range, todo holds entities of
\* that commit, and what is no longer in todo is on the timeline.
LoopInv ==
    Active =>
        /\ ing.commit \in Commits
        /\ ing.hi \in Commits
        /\ ing.commit <= ing.hi
        /\ ing.todo \subseteq Work(ing.commit)
        /\ \A s \in Work(ing.commit) \ ing.todo : Recorded(ing.commit, s)
        /\ ing.pc # "scan" => ing.at \in ing.todo
        /\ ing.pc = "append" =>
            /\ ing.kind \in Verdicts(Structural(ing.commit, ing.at[1], ing.at[2]))
            /\ ing.breaking =>
                    ing.kind \in BreakingKinds /\ HasInboundEdge(ing.at[2])

\* No event is about a commit that is not in the history.
EventsOfHistory == \A i \in DOMAIN events : events[i].commit \in Commits

\* A flag is only written on a contract change of an entity with an inbound edge.
FlagsBacked ==
    \A i \in DOMAIN events :
        events[i].breaking =>
            events[i].kind \in BreakingKinds /\ HasInboundEdge(events[i].entity)

\* The inductive invariant: what the loop knows while it runs is what makes the
\* completed commits recorded when it moves on.
IInv ==
    /\ TypeOK
    /\ LoopInv
    /\ EventsOfHistory
    /\ CompletedCommitsRecorded
    /\ EventsExact
    /\ FlagsBacked

\* The methods of the store keep its tables typed.
LEMMA UpsertEntityType ==
    ASSUME StoreTypeOK, NEW e \in Entities, NEW signature \in Signatures,
           NEW file \in Files, NEW origin \in Nat, NEW latest \in Nat,
           UpsertEntity(e, signature, file, origin, latest),
           UNCHANGED <<events, edges, sync_state>>
    PROVE  StoreTypeOK'
<1>1. OriginOf(e) \in Nat /\ LatestOf(e) \in Nat
  BY DEF StoreTypeOK, OriginOf, LatestOf, EntityRow, NoCommit
<1>2. Coalesce(OriginOf(e), origin) \in Nat /\ Coalesce(latest, LatestOf(e)) \in Nat
  BY <1>1 DEF Coalesce
<1> QED
  BY <1>2 DEF StoreTypeOK, UpsertEntity, EntityRow

\* Bounds are commits.
LEMMA SetCommitBoundsType ==
    ASSUME StoreTypeOK, NEW e, NEW origin \in Nat, NEW latest \in Nat,
           SetCommitBounds(e, origin, latest), UNCHANGED <<events, edges, sync_state>>
    PROVE  StoreTypeOK'
<1>1. \A x \in DOMAIN entities : entities[x] \in EntityRow
  BY DEF StoreTypeOK
<1>2. \A x \in DOMAIN entities : Coalesce(entities[x].origin_commit, origin) \in Nat
  BY <1>1 DEF EntityRow, Coalesce
<1>3. \A x \in DOMAIN entities :
        [entities[x] EXCEPT !.origin_commit = Coalesce(@, origin), !.latest_commit = latest]
            \in EntityRow
  BY <1>1, <1>2 DEF EntityRow
<1>4. entities' \in [DOMAIN entities -> EntityRow]
  BY <1>1, <1>3 DEF SetCommitBounds
<1> QED
  BY <1>4 DEF StoreTypeOK

\* The events table grows by rows of its type.
LEMMA AddEventType ==
    ASSUME StoreTypeOK, NEW ev \in EventRow, AddEvent(ev),
           UNCHANGED <<entities, edges, sync_state>>
    PROVE  StoreTypeOK'
  BY DEF StoreTypeOK, AddEvent

\* An upserted edge is a row of its type, new or merged.
LEMMA UpsertEdgeType ==
    ASSUME StoreTypeOK, NEW l \in Links, NEW confidence \in Confidences,
           NEW source \in EdgeSources, NEW file \in Files \cup {NoFile},
           UpsertEdge(l, confidence, source, file),
           UNCHANGED <<entities, events, sync_state>>
    PROVE  StoreTypeOK'
  BY DEF StoreTypeOK, UpsertEdge, EdgeRow

\* The loop only visits slots whose verdict is a change kind, and so is every verdict
\* the LLM boundary returns on them.
LEMMA WorkType ==
    ASSUME NEW c, NEW s \in Work(c)
    PROVE  /\ s \in Slots /\ s[1] \in Files /\ s[2] \in Entities
           /\ Structural(c, s[1], s[2]) \in ChangeKinds
           /\ Verdicts(Structural(c, s[1], s[2])) \subseteq ChangeKinds
<1>1. s \in Slots /\ Structural(c, s[1], s[2]) # "none"
  BY DEF Work
<1>2. Structural(c, s[1], s[2]) \in ChangeKinds
  BY <1>1, StructuralType
<1> QED
  BY <1>1, <1>2 DEF Slots, Verdicts

\* The descriptor ingest upserts is a signature.
LEMMA DescriptorType ==
    ASSUME GitTypeOK, NEW c \in Commits, NEW s \in Slots
    PROVE  /\ SignatureAt(TreeAt(c), s[1], s[2]) \in Signatures
           /\ SignatureAt(ParentTree(c), s[1], s[2]) \in Signatures
<1>1. c \in 0 .. Len(history) /\ c - 1 \in 0 .. Len(history)
  BY DEF Commits, GitTypeOK
<1>2. TreeAt(c) \in Trees /\ TreeAt(c - 1) \in Trees
  BY <1>1, TreeType
<1> QED
  BY <1>2, SignatureAtType DEF ParentTree

\* A commit appends one record to the history.
LEMMA GitStepType ==
    ASSUME GitTypeOK, GitNext
    PROVE  /\ GitTypeOK'
           /\ \E x : history' = Append(history, x)
           /\ Commits \subseteq Commits'
<1>1. PICK t \in Trees, changed \in SUBSET Files :
        \E manifests \in ManifestSets, touched \in SUBSET Untouched(TreeAt(HEAD), t, changed) :
            Commit(t, changed, touched, manifests)
  BY DEF GitNext
<1>2. PICK manifests \in ManifestSets, touched \in SUBSET Untouched(TreeAt(HEAD), t, changed) :
        Commit(t, changed, touched, manifests)
  BY <1>1
<1>3. touched \in SUBSET Slots
  BY DEF Untouched
<1> DEFINE x == [tree |-> t, changed |-> changed, touched |-> touched,
                 manifests |-> manifests]
<1>4. x \in CommitRecord
  BY <1>3 DEF CommitRecord
<1>5. history' = Append(history, x)
  BY <1>2 DEF Commit
<1> QED
  BY <1>4, <1>5 DEF GitTypeOK, Commits

\* The idle ingest process is typed.
LEMMA RestingType == Resting \in IngestProcess
  BY DEF Resting, IngestProcess, ChangeKinds, NoCommit

\* One step of ingest keeps the store and the process typed.
LEMMA IngestStepType ==
    ASSUME TypeOK, LoopInv, IngestNext
    PROVE  StoreTypeOK' /\ IngestTypeOK'
<1> USE DEF TypeOK
<1>0. /\ ing \in IngestProcess
      /\ UNCHANGED history
      /\ Commits' = Commits
      /\ Commits \subseteq Nat
  BY DEF IngestTypeOK, IngestNext, Commits
<1>1. ASSUME NEW lo \in 0 .. HEAD, NEW hi \in Commits, RunIngest(lo, hi)
      PROVE  StoreTypeOK' /\ IngestTypeOK'
  <2>1. Work(lo + 1) \in SUBSET Slots
    BY DEF Work
  <2>2. hi \in Nat /\ lo + 1 \in Nat
    BY <1>0, GitTypeOK DEF HEAD, GitTypeOK
  <2>3. ing' \in IngestProcess
    BY <1>1, <2>1, <2>2 DEF RunIngest, StartIngest, Resting, IngestProcess, ChangeKinds, NoCommit
  <2> QED
    BY <1>0, <1>1, <2>3 DEF RunIngest, StartIngest, StoreTypeOK, store, IngestTypeOK
<1>2. ASSUME NEW s \in Slots, IngestEntity(s)
      PROVE  StoreTypeOK' /\ IngestTypeOK'
  <2> DEFINE c == ing.commit
             descriptor == IF TreeAt(c)[s] # Absent THEN TreeAt(c) ELSE ParentTree(c)
  <2>1. c \in Commits /\ c \in Nat /\ s[1] \in Files /\ s[2] \in Entities
    BY <1>0, <1>2 DEF LoopInv, Active, IngestEntity, Slots
  <2>2. SignatureAt(descriptor, s[1], s[2]) \in Signatures
    BY <2>1, DescriptorType
  <2>3. /\ UpsertEntity(s[2], SignatureAt(descriptor, s[1], s[2]), s[1], c, c)
        /\ UNCHANGED <<events, edges, sync_state>>
    BY <1>2 DEF IngestEntity
  <2> HIDE DEF descriptor
  <2>4. StoreTypeOK'
    BY <2>1, <2>2, <2>3, UpsertEntityType
  <2> QED
    BY <1>0, <1>2, <2>4 DEF IngestEntity, IngestTypeOK, IngestProcess
<1>3. CASE IngestBounds
  <2>1. ing.commit \in Nat
    BY <1>0 DEF IngestProcess
  <2>2. StoreTypeOK'
    BY <1>3, <2>1, SetCommitBoundsType DEF IngestBounds
  <2> QED
    BY <1>0, <1>3, <2>2 DEF IngestBounds, IngestTypeOK, IngestProcess
<1>4. CASE IngestSummarize
  <2>1. ing.at \in Work(ing.commit)
    BY <1>4 DEF LoopInv, Active, IngestSummarize
  <2>2. Verdicts(Structural(ing.commit, ing.at[1], ing.at[2])) \subseteq ChangeKinds
    BY <2>1, WorkType
  <2>3. PICK kind \in ChangeKinds :
            ing' = [ing EXCEPT !.pc = "append", !.kind = kind,
                               !.breaking = (kind \in BreakingKinds
                                              /\ HasInboundEdge(ing.at[2]))]
    BY <1>4, <2>2 DEF IngestSummarize
  <2>4. (kind \in BreakingKinds /\ HasInboundEdge(ing.at[2])) \in BOOLEAN
    OBVIOUS
  <2>5. ing' \in IngestProcess
    BY <1>0, <2>3, <2>4 DEF IngestProcess
  <2> QED
    BY <1>0, <1>4, <2>5 DEF IngestSummarize, store, StoreTypeOK, IngestTypeOK
<1>5. CASE IngestAppend
  <2> DEFINE ev == [entity |-> ing.at[2], commit |-> ing.commit, kind |-> ing.kind,
                    breaking |-> ing.breaking, file |-> ing.at[1]]
  <2>1. ing.at \in Work(ing.commit) /\ ing.commit \in Commits
    BY <1>5 DEF LoopInv, Active, IngestAppend
  <2>2. ing.at[1] \in Files /\ ing.at[2] \in Entities
    BY <2>1, WorkType
  <2>3. ev \in EventRow
    BY <1>0, <2>1, <2>2 DEF EventRow, IngestProcess, Commits
  <2>4. StoreTypeOK'
    BY <1>5, <2>3, AddEventType DEF IngestAppend
  <2>5. ing' \in IngestProcess
    BY <1>0, <1>5 DEF IngestAppend, IngestProcess, Resting, ChangeKinds
  <2> QED
    BY <1>0, <1>5, <2>4, <2>5 DEF IngestAppend, IngestTypeOK
<1>6. CASE IngestNextCommit
  <2>1. ing.commit \in Commits
    BY <1>6 DEF LoopInv, Active, IngestNextCommit, CommitIngested
  <2>2. Work(ing.commit + 1) \in SUBSET Slots /\ ing.commit + 1 \in Nat
    BY <1>0 DEF Work, IngestProcess
  <2>3. ing' \in IngestProcess
    <3> DEFINE next == [ing EXCEPT !.commit = ing.commit + 1,
                                   !.todo = Work(ing.commit + 1)]
    <3>1. ing' = next
      BY <1>6 DEF IngestNextCommit
    <3>2. next \in IngestProcess
      BY <1>0, <2>2 DEF IngestProcess
    <3> QED
      BY <3>1, <3>2
  <2> QED
    BY <1>0, <1>6, <2>1, <2>3
       DEF IngestNextCommit, CommitIngested, store, StoreTypeOK, IngestTypeOK
<1>7. CASE IngestFinish
  <2>1. ing.commit \in Commits
    BY <1>7 DEF LoopInv, Active, IngestFinish, CommitIngested
  <2> QED
    BY <1>0, <1>7, <2>1, RestingType
       DEF IngestFinish, CommitIngested, store, StoreTypeOK, IngestTypeOK
<1>8. CASE IngestCrash
  <2>1. ing.commit \in Commits
    BY <1>8 DEF LoopInv, IngestCrash
  <2> QED
    BY <1>0, <1>8, <2>1, RestingType DEF IngestCrash, store, StoreTypeOK, IngestTypeOK
<1> QED
  BY <1>1, <1>2, <1>3, <1>4, <1>5, <1>6, <1>7, <1>8 DEF IngestNext, IngestStep

\* The idle extract process is typed.
LEMMA AtRestType == AtRest \in ExtractProcess
  BY DEF AtRest, ExtractProcess, EmptyTree, Trees, NoCommit

\* One step of extract keeps the store and the process typed.
LEMMA ExtractStepType ==
    ASSUME TypeOK, ExtractNext
    PROVE  StoreTypeOK' /\ ExtractTypeOK'
<1> USE DEF TypeOK
<1>0. ext \in ExtractProcess /\ extracts \in Nat /\ extracted \in Nat
  BY DEF ExtractTypeOK
<1>1. CASE StartExtract
  <2>1. TreeAt(HEAD) \in Trees
    BY TreeType DEF HEAD, GitTypeOK
  <2>2. ext' \in ExtractProcess
    BY <1>1, <2>1, AtRestType, HEADType DEF StartExtract, ExtractProcess, AtRest
  <2> QED
    BY <1>0, <1>1, <2>2 DEF StartExtract, store, StoreTypeOK, ExtractTypeOK
<1>2. ASSUME NEW s \in Slots, ExtractProducer(s)
      PROVE  StoreTypeOK' /\ ExtractTypeOK'
  <2>1. PICK winners \in SUBSET Declaring(ext.tree, ModelOf[s[2]]) :
            UpsertEntity(s[2], SignatureWith(ext.tree, s[1], s[2], winners), s[1],
                         NoCommit, NoCommit)
    BY <1>2 DEF ExtractProducer
  <2>2. ext.tree \in Trees
    BY <1>0 DEF ExtractProcess
  <2>3. SignatureWith(ext.tree, s[1], s[2], winners) \in Signatures
    BY <2>2, SignatureType
  <2>4. s[1] \in Files /\ s[2] \in Entities /\ NoCommit \in Nat
    BY DEF Slots, NoCommit
  <2>5. StoreTypeOK'
    BY <1>2, <2>1, <2>3, <2>4, UpsertEntityType DEF ExtractProducer
  <2> QED
    BY <1>0, <1>2, <2>5 DEF ExtractProducer, ExtractTypeOK, ExtractProcess
<1>3. CASE ExtractManifests
  <2>1. ext' \in ExtractProcess
    BY <1>0, <1>3 DEF ExtractManifests, ExtractProcess
  <2> QED
    BY <1>0, <1>3, <2>1 DEF ExtractManifests, store, StoreTypeOK, ExtractTypeOK
<1>R. ASSUME NEW s \in Services, ReadManifest(s)
      PROVE  StoreTypeOK' /\ ExtractTypeOK'
  <2>1. Manifest(s) \X {NoFile} \in SUBSET (Links \X (Files \cup {NoFile}))
    BY ManifestsType, HEADType DEF Manifest
  <2>2. ext' \in ExtractProcess
    BY <1>0, <1>R, <2>1 DEF ReadManifest, ExtractProcess
  <2> QED
    BY <1>0, <1>R, <2>2 DEF ReadManifest, store, StoreTypeOK, ExtractTypeOK
<1>4. ASSUME NEW l \in Links, SeedManifestEdge(l)
      PROVE  StoreTypeOK' /\ ExtractTypeOK'
  <2>1. "medium" \in Confidences /\ "manifest" \in EdgeSources
    BY DEF Confidences, EdgeSources
  <2>2. StoreTypeOK'
    BY <1>4, <2>1, UpsertEdgeType DEF SeedManifestEdge
  <2> QED
    BY <1>0, <1>4, <2>2 DEF SeedManifestEdge, ExtractTypeOK, ExtractProcess
<1>5. CASE IndexProducers
  <2> DEFINE found == {x \in Links \X Files :
                          \E use \in Uses : use.file = x[2] /\ x[1] \in LinksOf(use)}
  <2>1. found \in SUBSET (Links \X (Files \cup {NoFile}))
    OBVIOUS
  <2>2. ext' = [ext EXCEPT !.pc = "code", !.links = found]
    BY <1>5 DEF IndexProducers
  <2> HIDE DEF found
  <2>3. ext' \in ExtractProcess
    BY <1>0, <2>1, <2>2 DEF ExtractProcess
  <2> QED
    BY <1>0, <1>5, <2>3 DEF IndexProducers, store, StoreTypeOK, ExtractTypeOK
<1>6. ASSUME NEW l \in Links, NEW f \in Files, ResolveCodeEdge(l, f)
      PROVE  StoreTypeOK' /\ ExtractTypeOK'
  <2>1. "high" \in Confidences /\ SourceOf(l[3]) \in EdgeSources
    BY DEF Confidences, EdgeSources, SourceOf
  <2>2. StoreTypeOK'
    BY <1>6, <2>1, UpsertEdgeType DEF ResolveCodeEdge
  <2> QED
    BY <1>0, <1>6, <2>2 DEF ResolveCodeEdge, ExtractTypeOK, ExtractProcess
<1>7. CASE ExtractFinish
  BY <1>0, <1>7, AtRestType
     DEF ExtractFinish, store, StoreTypeOK, ExtractTypeOK, ExtractProcess
<1>8. CASE ExtractCrash
  BY <1>0, <1>8, AtRestType DEF ExtractCrash, store, StoreTypeOK, ExtractTypeOK
<1> QED
  BY <1>1, <1>2, <1>3, <1>R, <1>4, <1>5, <1>6, <1>7, <1>8 DEF ExtractNext, ExtractStep

\* Every step of the system keeps all types.
LEMMA TypeStep ==
    ASSUME TypeOK, LoopInv, [Next]_vars
    PROVE  TypeOK'
<1>1. CASE DeveloperCommits
  <2>1. GitTypeOK' /\ Commits \subseteq Commits'
    BY <1>1, GitStepType DEF DeveloperCommits, TypeOK
  <2> QED
    BY <1>1, <2>1 DEF DeveloperCommits, TypeOK, StoreTypeOK, IngestTypeOK,
                      ExtractTypeOK, store, ingVars, extVars
<1>2. CASE IngestNext
  BY <1>2, IngestStepType DEF IngestNext, TypeOK, GitTypeOK, ExtractTypeOK, extVars
<1>3. CASE ExtractNext
  BY <1>3, ExtractStepType
     DEF ExtractNext, TypeOK, GitTypeOK, IngestTypeOK, ingVars, Commits
<1>4. CASE UNCHANGED vars
  BY <1>4 DEF vars, store, ingVars, extVars, TypeOK, GitTypeOK, StoreTypeOK,
              IngestTypeOK, ExtractTypeOK, Commits
<1> QED
  BY <1>1, <1>2, <1>3, <1>4 DEF Next

-----------------------------------------------------------------------------
(* What steps leave in place. *)

\* add_event keeps every row, leaves the key of the new event on the timeline, and only
\* appends a row whose key was free.
LEMMA AddEventEffect ==
    ASSUME StoreTypeOK, NEW ev \in EventRow, AddEvent(ev)
    PROVE  /\ \A i \in DOMAIN events : i \in DOMAIN events' /\ events'[i] = events[i]
           /\ \E i \in DOMAIN events' :
                /\ events'[i].entity = ev.entity
                /\ events'[i].commit = ev.commit
                /\ events'[i].kind = ev.kind
           /\ \A i, j \in DOMAIN events' \ DOMAIN events :
                i = j /\ events'[i] = ev /\ ~HasEvent(ev.entity, ev.commit, ev.kind)
<1>1. events \in Seq(EventRow)
  BY DEF StoreTypeOK
<1>2. CASE HasEvent(ev.entity, ev.commit, ev.kind)
  <2>1. events' = events
    BY <1>2 DEF AddEvent
  <2> QED
    BY <1>2, <2>1 DEF HasEvent
<1>3. CASE ~HasEvent(ev.entity, ev.commit, ev.kind)
  <2>1. events' = Append(events, ev)
    BY <1>3 DEF AddEvent
  <2>2. /\ Len(events') = Len(events) + 1
        /\ events'[Len(events) + 1] = ev
        /\ \A i \in 1 .. Len(events) : events'[i] = events[i]
        /\ DOMAIN events' = 1 .. Len(events) + 1
        /\ DOMAIN events = 1 .. Len(events)
        /\ Len(events) \in Nat
    BY <1>1, <2>1
  <2>3. DOMAIN events' \ DOMAIN events = {Len(events) + 1}
    BY <2>2
  <2>4. Len(events) + 1 \in DOMAIN events'
    BY <2>2
  <2>5. \A i \in DOMAIN events : i \in DOMAIN events' /\ events'[i] = events[i]
    BY <2>2
  <2> QED
    BY <1>3, <2>2, <2>3, <2>4, <2>5
<1> QED
  BY <1>2, <1>3

\* Every event is still there, at the same rowid.
EventsKept == \A i \in DOMAIN events : i \in DOMAIN events' /\ events'[i] = events[i]

\* The event that ingest appends is about the slot it works on.
LEMMA AppendedEvent ==
    ASSUME TypeOK, LoopInv, IngestAppend
    PROVE  \E ev \in EventRow :
            /\ AddEvent(ev)
            /\ ing.commit \in Commits
            /\ ing.at \in Work(ing.commit)
            /\ ev.entity = ing.at[2]
            /\ ev.commit = ing.commit
            /\ ev.kind \in Verdicts(Structural(ing.commit, ing.at[1], ing.at[2]))
            /\ ev.breaking => ev.kind \in BreakingKinds /\ HasInboundEdge(ev.entity)
<1> DEFINE ev == [entity |-> ing.at[2], commit |-> ing.commit, kind |-> ing.kind,
                  breaking |-> ing.breaking, file |-> ing.at[1]]
<1>1. /\ ing.at \in Work(ing.commit)
      /\ ing.commit \in Commits
      /\ ing.kind \in Verdicts(Structural(ing.commit, ing.at[1], ing.at[2]))
      /\ ing.breaking => ing.kind \in BreakingKinds /\ HasInboundEdge(ing.at[2])
  BY DEF LoopInv, Active, IngestAppend
<1>2. ing.at[1] \in Files /\ ing.at[2] \in Entities
  BY <1>1, WorkType
<1>3. ev \in EventRow
  BY <1>1, <1>2 DEF EventRow, TypeOK, IngestTypeOK, IngestProcess, Commits
<1>4. AddEvent(ev)
  BY DEF IngestAppend
<1> QED
  BY <1>1, <1>3, <1>4

\* No step rewrites history.
LEMMA HistoryStep ==
    ASSUME TypeOK, [Next]_vars
    PROVE  history' = history \/ (\E x : history' = Append(history, x))
<1>1. CASE DeveloperCommits
  BY <1>1, GitStepType DEF DeveloperCommits, TypeOK
<1> QED
  BY <1>1 DEF Next, IngestNext, ExtractNext, vars

\* Only ingest's last step touches the events.
LEMMA EventsStep ==
    ASSUME [Next]_vars, ~(IngestNext /\ IngestAppend)
    PROVE  events' = events
<1>1. CASE DeveloperCommits
  BY <1>1 DEF DeveloperCommits, store
<1>2. CASE IngestNext
  BY <1>2 DEF IngestNext, RunIngest, StartIngest, IngestStep, IngestEntity, IngestBounds,
              IngestSummarize, IngestNextCommit, IngestFinish, IngestCrash, store
<1>3. CASE ExtractNext
  BY <1>3 DEF ExtractNext, StartExtract, ExtractStep, ExtractProducer, ExtractManifests, ReadManifest,
              SeedManifestEdge, IndexProducers, ResolveCodeEdge, ExtractFinish,
              ExtractCrash, store
<1> QED
  BY <1>1, <1>2, <1>3 DEF Next, vars, store

\* The events table is append-only.
LEMMA EventsOnlyGrow ==
    ASSUME TypeOK, LoopInv, [Next]_vars
    PROVE  EventsKept
<1>1. CASE IngestNext /\ IngestAppend
  BY <1>1, AppendedEvent, AddEventEffect DEF EventsKept, TypeOK
<1>2. CASE ~(IngestNext /\ IngestAppend)
  BY <1>2, EventsStep DEF EventsKept
<1> QED
  BY <1>1, <1>2

\* No row of the entities table is ever deleted.
LEMMA RowsOnlyGrow ==
    ASSUME [Next]_vars
    PROVE  DOMAIN entities \subseteq DOMAIN entities'
<1>1. ASSUME NEW e, NEW signature, NEW file, NEW origin, NEW latest,
             UpsertEntity(e, signature, file, origin, latest)
      PROVE  DOMAIN entities \subseteq DOMAIN entities'
  BY <1>1 DEF UpsertEntity
<1>2. CASE IngestBounds
  BY <1>2 DEF IngestBounds, SetCommitBounds
<1>3. CASE DeveloperCommits \/ UNCHANGED vars
  BY <1>3 DEF DeveloperCommits, store, vars
<1>4. CASE IngestNext
  BY <1>1, <1>2, <1>4
     DEF IngestNext, RunIngest, StartIngest, IngestStep, IngestEntity, IngestSummarize,
         IngestAppend, IngestNextCommit, IngestFinish, IngestCrash, store
<1>5. CASE ExtractNext
  BY <1>1, <1>5
     DEF ExtractNext, StartExtract, ExtractStep, ExtractProducer, ExtractManifests, ReadManifest,
         SeedManifestEdge, IndexProducers, ResolveCodeEdge, ExtractFinish, ExtractCrash,
         store
<1> QED
  BY <1>3, <1>4, <1>5 DEF Next

\* No row of the edges table is ever deleted.
LEMMA EdgesOnlyGrow ==
    ASSUME [Next]_vars
    PROVE  DOMAIN edges \subseteq DOMAIN edges'
<1>1. CASE DeveloperCommits
  BY <1>1 DEF DeveloperCommits, store
<1>2. CASE IngestNext
  BY <1>2 DEF IngestNext, RunIngest, StartIngest, IngestStep, IngestEntity, IngestBounds,
              IngestSummarize, IngestAppend, IngestNextCommit, IngestFinish, IngestCrash,
              store
<1>3. CASE ExtractNext
  <2>1. ASSUME NEW l \in Links, SeedManifestEdge(l)
        PROVE  DOMAIN edges' = DOMAIN edges \cup {l}
    BY <2>1 DEF SeedManifestEdge, UpsertEdge
  <2>2. ASSUME NEW l \in Links, NEW f \in Files, ResolveCodeEdge(l, f)
        PROVE  DOMAIN edges' = DOMAIN edges \cup {l}
    BY <2>2 DEF ResolveCodeEdge, UpsertEdge
  <2>3. CASE ~(\E l \in Links : SeedManifestEdge(l))
             /\ ~(\E l \in Links, f \in Files : ResolveCodeEdge(l, f))
    BY <1>3, <2>3 DEF ExtractNext, StartExtract, ExtractStep, ExtractProducer,
                      ExtractManifests, ReadManifest, IndexProducers, ExtractFinish, ExtractCrash, store
  <2> QED
    BY <2>1, <2>2, <2>3
<1> QED
  BY <1>1, <1>2, <1>3 DEF Next, vars, store

\* An entity that has a consumer keeps one.
LEMMA InboundStable ==
    ASSUME [Next]_vars, NEW e, HasInboundEdge(e)
    PROVE  HasInboundEdge(e)'
  BY EdgesOnlyGrow DEF HasInboundEdge

\* What is recorded stays recorded.
LEMMA RecordedStable ==
    ASSUME TypeOK, LoopInv, [Next]_vars, NEW c \in Commits, NEW s, Recorded(c, s)
    PROVE  Recorded(c, s)'
<1>1. Structural(c, s[1], s[2])' = Structural(c, s[1], s[2])
  BY HistoryStep, StructuralStable DEF TypeOK
<1>2. EventsKept
  BY EventsOnlyGrow
<1> QED
  BY <1>1, <1>2 DEF Recorded, EventsKept

-----------------------------------------------------------------------------
(* Completeness: what a completed commit did is on the timeline. *)

\* Appending the event of a slot records the slot.
LEMMA AppendRecords ==
    ASSUME TypeOK, LoopInv, IngestNext, IngestAppend,
           NEW c, NEW s, c = ing.commit, s = ing.at
    PROVE  Recorded(c, s)'
<1>1. PICK ev \in EventRow :
        /\ AddEvent(ev)
        /\ ing.commit \in Commits
        /\ ev.entity = s[2]
        /\ ev.commit = c
        /\ ev.kind \in Verdicts(Structural(c, s[1], s[2]))
  BY AppendedEvent
<1>2. PICK i \in DOMAIN events' :
        /\ events'[i].entity = s[2]
        /\ events'[i].commit = c
        /\ events'[i].kind \in Verdicts(Structural(c, s[1], s[2]))
  BY <1>1, AddEventEffect DEF TypeOK
<1>3. RealLLM \/ events'[i].kind = Structural(c, s[1], s[2])
  BY <1>2 DEF Verdicts
<1>4. Structural(c, s[1], s[2])' = Structural(c, s[1], s[2])
  BY <1>1, StructuralStable DEF IngestNext, TypeOK
<1> QED
  BY <1>2, <1>3, <1>4 DEF Recorded

\* The loop of ingest keeps what it knows.
LEMMA LoopStepOfIngest ==
    ASSUME TypeOK, LoopInv, IngestNext
    PROVE  LoopInv'
<1>0. /\ UNCHANGED history
      /\ Commits' = Commits
      /\ Commits \subseteq Nat
      /\ [Next]_vars
      /\ ing \in IngestProcess
  BY DEF IngestNext, Commits, Next, TypeOK, IngestTypeOK
<1>W. \A c \in Commits : Work(c)' = Work(c)
  BY <1>0, WorkStable DEF TypeOK
<1>1. ASSUME NEW lo \in 0 .. HEAD, NEW hi \in Commits, RunIngest(lo, hi)
      PROVE  LoopInv'
  <2>1. lo + 1 \in Commits /\ lo + 1 <= hi
    BY <1>1, GitTypeOK DEF RunIngest, StartIngest, Commits, HEAD, TypeOK, GitTypeOK
  <2>2. /\ ing'.pc = "scan" /\ ing'.hi = hi /\ ing'.commit = lo + 1
        /\ ing'.todo = Work(lo + 1)
    BY <1>1 DEF RunIngest, StartIngest, Resting
  <2> QED
    BY <1>0, <1>W, <2>1, <2>2 DEF LoopInv
<1>2. ASSUME NEW s \in Slots, IngestEntity(s)
      PROVE  LoopInv'
  <2>1. /\ Active /\ s \in ing.todo
        /\ ing' = [ing EXCEPT !.pc = "bounds", !.at = s]
        /\ UNCHANGED events
    BY <1>2 DEF IngestEntity, Active
  <2>2. /\ ing'.pc = "bounds" /\ ing'.at = s /\ ing'.hi = ing.hi
        /\ ing'.commit = ing.commit /\ ing'.todo = ing.todo
    BY <1>0, <2>1 DEF IngestProcess
  <2> QED
    BY <1>0, <1>W, <2>1, <2>2, RecordedStable DEF LoopInv, Work
<1>3. CASE IngestBounds
  <2>1. /\ Active /\ ing.pc = "bounds"
        /\ ing' = [ing EXCEPT !.pc = "summarize"]
    BY <1>3 DEF IngestBounds, Active
  <2>2. /\ ing'.pc = "summarize" /\ ing'.at = ing.at /\ ing'.hi = ing.hi
        /\ ing'.commit = ing.commit /\ ing'.todo = ing.todo
    BY <1>0, <2>1 DEF IngestProcess
  <2> QED
    BY <1>0, <1>W, <2>1, <2>2, RecordedStable DEF LoopInv, Work
<1>4. CASE IngestSummarize
  <2>1. PICK kind \in Verdicts(Structural(ing.commit, ing.at[1], ing.at[2])) :
            ing' = [ing EXCEPT !.pc = "append", !.kind = kind,
                               !.breaking = (kind \in BreakingKinds
                                              /\ HasInboundEdge(ing.at[2]))]
    BY <1>4 DEF IngestSummarize
  <2>2. Active /\ ing.pc = "summarize" /\ UNCHANGED edges
    BY <1>4 DEF IngestSummarize, Active, store
  <2>3. /\ ing'.pc = "append" /\ ing'.at = ing.at /\ ing'.hi = ing.hi
        /\ ing'.commit = ing.commit /\ ing'.todo = ing.todo /\ ing'.kind = kind
        /\ ing'.breaking = (kind \in BreakingKinds /\ HasInboundEdge(ing.at[2]))
    BY <1>0, <2>1 DEF IngestProcess
  <2>4. ing.commit \in Commits /\ ing.at \in ing.todo
    BY <2>2 DEF LoopInv
  <2>5. Structural(ing.commit, ing.at[1], ing.at[2])' =
            Structural(ing.commit, ing.at[1], ing.at[2])
    <3>1. PICK c \in Commits, s \in {ing.at} : c = ing.commit
      BY <2>4
    <3>2. Structural(c, s[1], s[2])' = Structural(c, s[1], s[2])
      BY <1>0, StructuralStable DEF TypeOK
    <3> QED
      BY <2>3, <3>1, <3>2
  <2>6. HasInboundEdge(ing.at[2])' = HasInboundEdge(ing.at[2])
    BY <2>2, <2>3 DEF HasInboundEdge
  <2>7. ing'.kind \in Verdicts(Structural(ing.commit, ing.at[1], ing.at[2]))'
    BY <2>3, <2>5 DEF Verdicts
  <2>8. (ing.breaking => ing.kind \in BreakingKinds /\ HasInboundEdge(ing.at[2]))'
    BY <2>3, <2>6
  <2> QED
    BY <1>0, <1>W, <2>2, <2>3, <2>4, <2>7, <2>8, RecordedStable DEF LoopInv, Work
<1>5. CASE IngestAppend
  <2>1. Active /\ ing.pc = "append"
    BY <1>5 DEF IngestAppend, Active
  <2>2. /\ ing'.pc = "scan" /\ ing'.hi = ing.hi /\ ing'.commit = ing.commit
        /\ ing'.todo = ing.todo \ {ing.at}
    BY <1>0, <1>5 DEF IngestAppend, IngestProcess
  <2>3. PICK c \in Commits : c = ing.commit
    BY <2>1 DEF LoopInv
  <2>4. \A s : s = ing.at => Recorded(c, s)'
    BY <1>5, <2>3, AppendRecords
  <2>5. \A s \in Work(c) \ ing.todo : Recorded(c, s)'
    BY <1>0, <2>1, <2>3, RecordedStable DEF LoopInv
  <2>6. \A s \in Work(c) \ ing'.todo : Recorded(c, s)'
    BY <2>2, <2>4, <2>5
  <2>7. /\ ing'.todo \subseteq Work(c)
        /\ ing.hi \in Commits /\ c <= ing.hi
    BY <2>1, <2>2, <2>3 DEF LoopInv
  <2>8. Work(c)' = Work(c) /\ ing'.commit = c /\ Commits' = Commits
    BY <1>0, <1>W, <2>2, <2>3
  <2> QED
    BY <2>2, <2>6, <2>7, <2>8 DEF LoopInv
<1>6. CASE IngestNextCommit
  <2>1. /\ ing.pc = "scan" /\ ing.commit < ing.hi
        /\ ing' = [ing EXCEPT !.commit = @ + 1, !.todo = Work(ing.commit + 1)]
    BY <1>6 DEF IngestNextCommit, CommitIngested
  <2>2. /\ ing'.pc = "scan" /\ ing'.hi = ing.hi /\ ing'.commit = ing.commit + 1
        /\ ing'.todo = Work(ing.commit + 1)
    BY <1>0, <2>1 DEF IngestProcess
  <2>3. ing.commit + 1 \in Commits /\ ing.commit + 1 <= ing.hi /\ ing.hi \in Commits
    BY <1>0, <2>1 DEF LoopInv, Active, Commits, TypeOK, GitTypeOK
  <2> QED
    BY <1>0, <1>W, <2>2, <2>3 DEF LoopInv
<1>7. CASE IngestFinish \/ IngestCrash
  BY <1>7 DEF IngestFinish, IngestCrash, Resting, LoopInv, Active
<1> QED
  BY <1>1, <1>2, <1>3, <1>4, <1>5, <1>6, <1>7 DEF IngestNext, IngestStep

\* And so does every other step of the system: the other actors leave it in place.
LEMMA LoopStep ==
    ASSUME TypeOK, LoopInv, [Next]_vars
    PROVE  LoopInv'
<1>1. CASE IngestNext
  BY <1>1, LoopStepOfIngest
<1>2. CASE UNCHANGED ing
  <2>1. CASE Active
    <3>1. PICK c \in Commits, s \in {ing.at} : c = ing.commit
      BY <2>1 DEF LoopInv
    <3>2. Work(c)' = Work(c) /\ c \in Commits'
      BY HistoryStep, WorkStable DEF TypeOK
    <3>3. ing.hi \in Commits'
      BY <2>1, HistoryStep, WorkStable DEF LoopInv, TypeOK
    <3>4. \A x \in Work(c) \ ing.todo : Recorded(c, x)'
      BY <2>1, <3>1, RecordedStable DEF LoopInv
    <3>5. Structural(c, s[1], s[2])' = Structural(c, s[1], s[2])
      BY HistoryStep, StructuralStable DEF TypeOK
    <3>6. HasInboundEdge(s[2]) => HasInboundEdge(s[2])'
      BY InboundStable
    <3> QED
      BY <1>2, <2>1, <3>1, <3>2, <3>3, <3>4, <3>5, <3>6 DEF LoopInv, Active, Verdicts
  <2>2. CASE ~Active
    BY <1>2, <2>2 DEF LoopInv, Active
  <2> QED
    BY <2>1, <2>2
<1> QED
  BY <1>1, <1>2 DEF Next, DeveloperCommits, ExtractNext, vars, ingVars

\* Ingest only appends events of commits that exist.
LEMMA EventsOfHistoryStep ==
    ASSUME TypeOK, LoopInv, EventsOfHistory, [Next]_vars
    PROVE  EventsOfHistory'
<1>1. Commits \subseteq Commits'
  BY HistoryStep, WorkStable DEF TypeOK
<1>2. CASE IngestNext /\ IngestAppend
  BY <1>1, <1>2, AppendedEvent, AddEventEffect DEF EventsOfHistory, TypeOK
<1>3. CASE ~(IngestNext /\ IngestAppend)
  BY <1>1, <1>3, EventsStep DEF EventsOfHistory
<1> QED
  BY <1>2, <1>3

\* When the loop leaves a commit, nothing of it is left to record.
LEMMA CompletedStep ==
    ASSUME TypeOK, LoopInv, CompletedCommitsRecorded, [Next]_vars
    PROVE  CompletedCommitsRecorded'
<1>1. done \subseteq Commits
  BY DEF TypeOK, IngestTypeOK
<1>2. \A c \in done : \A s \in Work(c)' : Recorded(c, s)'
  BY <1>1, HistoryStep, WorkStable, RecordedStable DEF CompletedCommitsRecorded, TypeOK
<1>3. CASE IngestNext /\ CommitIngested
  <2>1. Active /\ ing.todo = {} /\ done' = done \cup {ing.commit}
    BY <1>3 DEF CommitIngested, Active
  <2>2. PICK c \in Commits : c = ing.commit
    BY <2>1 DEF LoopInv
  <2>3. \A s \in Work(c)' : Recorded(c, s)'
    BY <2>1, <2>2, HistoryStep, WorkStable, RecordedStable DEF LoopInv, TypeOK
  <2> QED
    BY <1>2, <2>1, <2>2, <2>3 DEF CompletedCommitsRecorded
<1>4. CASE ~(IngestNext /\ CommitIngested)
  <2>1. done' = done
    BY <1>4 DEF Next, DeveloperCommits, IngestNext, ExtractNext, RunIngest, StartIngest,
                IngestStep, IngestEntity, IngestBounds, IngestSummarize, IngestAppend,
                IngestNextCommit, IngestFinish, IngestCrash, vars, ingVars
  <2> QED
    BY <1>2, <2>1 DEF CompletedCommitsRecorded
<1> QED
  BY <1>3, <1>4
-----------------------------------------------------------------------------
(* Exactness: nothing is on a timeline twice, and nothing that did not happen. *)

\* An event is about something its commit did.
Truthful(i) ==
    \E s \in Work(events[i].commit) :
        /\ s[2] = events[i].entity
        /\ RealLLM \/ events[i].kind = Structural(events[i].commit, s[1], s[2])

\* What an event says of its commit stays true: the commit does not change.
LEMMA TruthStable ==
    ASSUME TypeOK, LoopInv, EventsOfHistory, [Next]_vars,
           NEW i \in DOMAIN events, Truthful(i)
    PROVE  Truthful(i)'
<1>1. i \in DOMAIN events' /\ events'[i] = events[i]
  BY EventsOnlyGrow DEF EventsKept
<1>2. PICK c \in Commits : c = events[i].commit
  BY DEF EventsOfHistory
<1>3. PICK s \in Work(c) :
        /\ s[2] = events[i].entity
        /\ RealLLM \/ events[i].kind = Structural(c, s[1], s[2])
  BY <1>2 DEF Truthful
<1>4. Work(c)' = Work(c) /\ Structural(c, s[1], s[2])' = Structural(c, s[1], s[2])
  BY HistoryStep, WorkStable, StructuralStable DEF TypeOK
<1> QED
  BY <1>1, <1>2, <1>3, <1>4 DEF Truthful

\* The appended event is truthful: the loop only visits what the commit did.
LEMMA AppendIsTruthful ==
    ASSUME TypeOK, LoopInv, IngestNext, IngestAppend,
           NEW i \in DOMAIN events' \ DOMAIN events
    PROVE  Truthful(i)'
<1>1. PICK ev \in EventRow :
        /\ AddEvent(ev)
        /\ ing.commit \in Commits
        /\ ing.at \in Work(ing.commit)
        /\ ev.entity = ing.at[2]
        /\ ev.commit = ing.commit
        /\ ev.kind \in Verdicts(Structural(ing.commit, ing.at[1], ing.at[2]))
  BY AppendedEvent
<1>2. events'[i] = ev
  BY <1>1, AddEventEffect DEF TypeOK
<1>3. PICK c \in Commits, s \in Work(ing.commit) : c = ing.commit /\ s = ing.at
  BY <1>1
<1>4. RealLLM \/ ev.kind = Structural(c, s[1], s[2])
  BY <1>1, <1>3 DEF Verdicts
<1>5. Work(c)' = Work(c) /\ Structural(c, s[1], s[2])' = Structural(c, s[1], s[2])
  BY <1>3, WorkStable, StructuralStable DEF IngestNext, TypeOK
<1> QED
  BY <1>1, <1>2, <1>3, <1>4, <1>5 DEF Truthful

\* The keys of change_events stay unique and its rows stay true.
LEMMA ExactStep ==
    ASSUME TypeOK, LoopInv, EventsOfHistory, EventsExact, [Next]_vars
    PROVE  EventsExact'
<1>1. \A i \in DOMAIN events : Truthful(i)
  BY DEF EventsExact, Truthful
<1>2. \A i \in DOMAIN events : Truthful(i)'
  BY <1>1, TruthStable
<1>3. CASE IngestNext /\ IngestAppend
  <2>1. PICK ev \in EventRow : AddEvent(ev)
    BY <1>3, AppendedEvent
  <2>2. \A i \in DOMAIN events : i \in DOMAIN events' /\ events'[i] = events[i]
    BY <2>1, AddEventEffect DEF TypeOK
  <2>3. \A i, j \in DOMAIN events' \ DOMAIN events :
            i = j /\ events'[i] = ev /\ ~HasEvent(ev.entity, ev.commit, ev.kind)
    BY <2>1, AddEventEffect DEF TypeOK
  <2>4. \A i \in DOMAIN events' : Truthful(i)'
    BY <1>2, <1>3, AppendIsTruthful
  <2>5. ASSUME NEW i \in DOMAIN events', NEW j \in DOMAIN events',
               events'[i].entity = events'[j].entity,
               events'[i].commit = events'[j].commit,
               events'[i].kind = events'[j].kind
        PROVE  i = j
    <3>1. CASE i \in DOMAIN events /\ j \in DOMAIN events
      BY <2>2, <2>5, <3>1 DEF EventsExact
    <3>2. CASE i \notin DOMAIN events /\ j \notin DOMAIN events
      BY <2>3, <3>2
    <3>3. CASE i \in DOMAIN events /\ j \notin DOMAIN events
      BY <2>2, <2>3, <2>5, <3>3 DEF HasEvent
    <3>4. CASE i \notin DOMAIN events /\ j \in DOMAIN events
      BY <2>2, <2>3, <2>5, <3>4 DEF HasEvent
    <3> QED
      BY <3>1, <3>2, <3>3, <3>4
  <2> QED
    BY <2>4, <2>5 DEF EventsExact, Truthful
<1>4. CASE ~(IngestNext /\ IngestAppend)
  <2>1. events' = events
    BY <1>4, EventsStep
  <2> QED
    BY <1>2, <2>1 DEF EventsExact, Truthful
<1> QED
  BY <1>3, <1>4

-----------------------------------------------------------------------------
(* Soundness of the breaking flag. *)

\* The guard is taken before the append, and edges are never deleted in between.
LEMMA BreakingStep ==
    ASSUME TypeOK, LoopInv, FlagsBacked, [Next]_vars
    PROVE  FlagsBacked'
<1>1. CASE IngestNext /\ IngestAppend
  <2>1. PICK ev \in EventRow :
            /\ AddEvent(ev)
            /\ ev.breaking => ev.kind \in BreakingKinds /\ HasInboundEdge(ev.entity)
    BY <1>1, AppendedEvent
  <2>2. \A i \in DOMAIN events : events'[i] = events[i]
    BY <2>1, AddEventEffect DEF TypeOK
  <2>3. \A i \in DOMAIN events' \ DOMAIN events : events'[i] = ev
    BY <2>1, AddEventEffect DEF TypeOK
  <2>4. \A i \in DOMAIN events' :
            events'[i].breaking =>
                events'[i].kind \in BreakingKinds /\ HasInboundEdge(events'[i].entity)
    BY <2>1, <2>2, <2>3 DEF FlagsBacked
  <2> QED
    BY <2>4, InboundStable DEF FlagsBacked
<1>2. CASE ~(IngestNext /\ IngestAppend)
  BY <1>2, EventsStep, InboundStable DEF FlagsBacked
<1> QED
  BY <1>1, <1>2

-----------------------------------------------------------------------------
(* The theorems. *)

\* The empty graph satisfies the inductive invariant.
LEMMA InitIInv == Init => IInv
<1> SUFFICES ASSUME Init PROVE IInv
  OBVIOUS
<1> USE DEF Init, GitInit, StoreInit, IngestInit, ExtractInit
<1>1. GitTypeOK /\ Commits = {}
  BY DEF GitTypeOK, Commits
<1>2. StoreTypeOK
  BY DEF StoreTypeOK, NoCommit
<1>3. IngestTypeOK
  BY RestingType DEF IngestTypeOK
<1>4. ExtractTypeOK
  BY AtRestType DEF ExtractTypeOK, NoCommit
<1>5. DOMAIN events = {}
  OBVIOUS
<1>6. LoopInv
  BY DEF LoopInv, Active, Resting
<1> QED
  BY <1>1, <1>2, <1>3, <1>4, <1>5, <1>6
     DEF IInv, TypeOK, EventsOfHistory, CompletedCommitsRecorded, EventsExact, FlagsBacked

\* IInv is inductive: every step of git, ingest (crashes included) and extract keeps it.
THEOREM Inductive == Spec => []IInv
<1>1. ASSUME IInv, [Next]_vars PROVE IInv'
  BY <1>1, TypeStep, LoopStep, EventsOfHistoryStep, CompletedStep, ExactStep, BreakingStep
     DEF IInv
<1> QED
  BY InitIInv, <1>1, PTL DEF Spec

\* In every run all tables and processes hold values of their types.
THEOREM Typed == Spec => []TypeOK
<1>1. IInv => TypeOK
  BY DEF IInv
<1> QED
  BY <1>1, Inductive, PTL

\* For every repository, every crash, every overlap of ranges and every interleaving
\* with extract: a commit some ingest went through has all its events.
THEOREM Complete == Spec => []CompletedCommitsRecorded
<1>1. IInv => CompletedCommitsRecorded
  BY DEF IInv
<1> QED
  BY <1>1, Inductive, PTL

\* Retries never duplicate an event and no event is about what a commit did not do.
THEOREM Exact == Spec => []EventsExact
<1>1. IInv => EventsExact
  BY DEF IInv
<1> QED
  BY <1>1, Inductive, PTL

-----------------------------------------------------------------------------
(* Write-once origins and edges that only improve. *)

\* What an upsert and set_commit_bounds do to the rows that exist.
LEMMA UpsertKeepsOrigin ==
    ASSUME NEW e \in DOMAIN entities, NEW x, NEW signature, NEW file, NEW origin, NEW latest,
           UpsertEntity(x, signature, file, origin, latest)
    PROVE  /\ e \in DOMAIN entities'
           /\ entities[e].origin_commit # NoCommit
                => entities'[e].origin_commit = entities[e].origin_commit
  BY DEF UpsertEntity, OriginOf, Coalesce

\* So does the update of the bounds.
LEMMA BoundsKeepOrigin ==
    ASSUME StoreTypeOK, NEW e \in DOMAIN entities, NEW x, NEW origin, NEW latest,
           SetCommitBounds(x, origin, latest)
    PROVE  /\ e \in DOMAIN entities'
           /\ entities[e].origin_commit # NoCommit
                => entities'[e].origin_commit = entities[e].origin_commit
<1>1. entities[e] \in EntityRow
  BY DEF StoreTypeOK
<1> QED
  BY <1>1 DEF SetCommitBounds, EntityRow, Coalesce

\* The origin of an entity, once set, is never overwritten: not by a later upsert of
\* extract or of ingest, in whatever order they run.
THEOREM OriginKept == Spec => OriginWriteOnce
<1> DEFINE Kept == \A e \in DOMAIN entities :
                      /\ e \in DOMAIN entities'
                      /\ entities[e].origin_commit # NoCommit
                          => entities'[e].origin_commit = entities[e].origin_commit
<1>1. ASSUME TypeOK, [Next]_vars PROVE Kept
  <2>1. CASE UNCHANGED entities
    BY <2>1
  <2>2. ASSUME NEW s \in Slots, IngestEntity(s) PROVE Kept
    BY <2>2, UpsertKeepsOrigin DEF IngestEntity
  <2>3. CASE IngestBounds
    BY <1>1, <2>3, BoundsKeepOrigin DEF IngestBounds, TypeOK
  <2>4. ASSUME NEW s \in Slots, ExtractProducer(s) PROVE Kept
    BY <2>4, UpsertKeepsOrigin DEF ExtractProducer
  <2>5. CASE DeveloperCommits \/ UNCHANGED vars
    BY <2>1, <2>5 DEF DeveloperCommits, store, vars
  <2>6. CASE IngestNext
    BY <2>1, <2>2, <2>3, <2>6
       DEF IngestNext, RunIngest, StartIngest, IngestStep, IngestSummarize, IngestAppend,
           IngestNextCommit, IngestFinish, IngestCrash, store
  <2>7. CASE ExtractNext
    BY <2>1, <2>4, <2>7
       DEF ExtractNext, StartExtract, ExtractStep, ExtractManifests, ReadManifest, SeedManifestEdge,
           IndexProducers, ResolveCodeEdge, ExtractFinish, ExtractCrash, store
  <2> QED
    BY <1>1, <2>5, <2>6, <2>7 DEF Next
<1> QED
  BY <1>1, Typed, PTL DEF Spec, OriginWriteOnce

\* What an upsert does to the edges that exist, when a row of high confidence is only
\* written with a code location.
LEMMA UpsertImproves ==
    ASSUME NEW l \in DOMAIN edges, NEW k, NEW confidence, NEW source, NEW file,
           UpsertEdge(k, confidence, source, file),
           file # NoFile => confidence = "high"
    PROVE  /\ l \in DOMAIN edges'
           /\ edges[l].confidence = "high" => edges'[l].confidence = "high"
           /\ edges[l].from_file # NoFile => edges'[l].from_file # NoFile
  BY DEF UpsertEdge

\* No step worsens an edge.
BetterEdges ==
    \A l \in DOMAIN edges :
        /\ l \in DOMAIN edges'
        /\ edges[l].confidence = "high" => edges'[l].confidence = "high"
        /\ edges[l].from_file # NoFile => edges'[l].from_file # NoFile

LEMMA EdgesBetter ==
    ASSUME [Next]_vars
    PROVE  BetterEdges
<1>1. CASE UNCHANGED edges
  BY <1>1 DEF BetterEdges
<1>2. ASSUME NEW l \in Links, SeedManifestEdge(l) PROVE BetterEdges
  BY <1>2, UpsertImproves DEF SeedManifestEdge, BetterEdges
<1>3. ASSUME NEW l \in Links, NEW f \in Files, ResolveCodeEdge(l, f) PROVE BetterEdges
  BY <1>3, UpsertImproves DEF ResolveCodeEdge, BetterEdges
<1>4. CASE DeveloperCommits \/ UNCHANGED vars
  BY <1>1, <1>4 DEF DeveloperCommits, store, vars
<1>5. CASE IngestNext
  BY <1>1, <1>5
     DEF IngestNext, RunIngest, StartIngest, IngestStep, IngestEntity, IngestBounds,
         IngestSummarize, IngestAppend, IngestNextCommit, IngestFinish, IngestCrash, store
<1>6. CASE ExtractNext
  BY <1>1, <1>2, <1>3, <1>6
     DEF ExtractNext, StartExtract, ExtractStep, ExtractProducer, ExtractManifests, ReadManifest,
         IndexProducers, ExtractFinish, ExtractCrash, store
<1> QED
  BY <1>4, <1>5, <1>6 DEF Next

\* A row of the edges table never disappears, and never loses its confidence or its
\* location again, however often manifests and code are read.
THEOREM EdgesImprove == Spec => EdgesOnlyImprove
<1>1. [Next]_vars => BetterEdges
  BY EdgesBetter
<1> QED
  BY <1>1, PTL DEF Spec, EdgesOnlyImprove, BetterEdges
=================================================================================

----------------------------- MODULE RefinementProofs ----------------------------
(* Proof that the detailed model implements the abstract ones: extract and ingest an *)
(* append-only log of what commits did, and the whole loop an at-least-once feed of  *)
(* that log to the services.                                                         *)
EXTENDS DeliveryProofs

-----------------------------------------------------------------------------
(* The refinement mapping. *)

\* What each commit did is what ingest may record of it.
Happened == [c \in Commits |-> Changes(c)]

\* What the services are to be told of each commit.
Matters == [c \in Commits |-> Concerns(c)]

\* There is one set of changes per commit of the history.
LEMMA HappenedLength ==
    ASSUME GitTypeOK
    PROVE  Len(Happened) = Len(history) /\ DOMAIN Happened = Commits
<1>1. Len(history) \in Nat
  BY DEF GitTypeOK
<1> DEFINE S == {Changes(c) : c \in Commits}
<1>2. Happened \in [1 .. Len(history) -> S]
  BY DEF Happened, Commits
<1>3. Happened \in Seq(S)
  BY <1>1, <1>2, SeqDef
<1>4. DOMAIN Happened = 1 .. Len(Happened) /\ Len(Happened) \in Nat
  BY <1>3, LenProperties
<1> QED
  BY <1>1, <1>2, <1>4 DEF Commits

\* An abstract log entry.
LogRow == [commit : Nat, entry : Entities \X ChangeKinds]

\* Every event is an entry of the log, at the same place.
LEMMA LogType ==
    ASSUME NEW rows \in Seq(EventRow)
    PROVE  LogOf(rows) \in Seq(LogRow) /\ Len(LogOf(rows)) = Len(rows)
<1>1. \A i \in 1 .. Len(rows) : rows[i] \in EventRow
  BY ElementOfSeq
<1>2. \A i \in 1 .. Len(rows) :
        [commit |-> rows[i].commit, entry |-> <<rows[i].entity, rows[i].kind>>] \in LogRow
  BY <1>1 DEF EventRow, LogRow
<1>3. Len(rows) \in Nat /\ DOMAIN rows = 1 .. Len(rows)
  BY LenProperties
<1>4. LogOf(rows) \in [1 .. Len(rows) -> LogRow]
  BY <1>2, <1>3 DEF LogOf
<1>5. LogOf(rows) \in Seq(LogRow)
  BY <1>3, <1>4, SeqDef
<1>6. DOMAIN LogOf(rows) = 1 .. Len(LogOf(rows)) /\ Len(LogOf(rows)) \in Nat
  BY <1>5, LenProperties
<1> QED
  BY <1>3, <1>4, <1>5, <1>6

\* Appending an event appends its entry.
LEMMA LogOfAppend ==
    ASSUME NEW rows \in Seq(EventRow), NEW ev \in EventRow
    PROVE  LogOf(Append(rows, ev)) =
             Append(LogOf(rows), [commit |-> ev.commit, entry |-> <<ev.entity, ev.kind>>])
<1> DEFINE row == [commit |-> ev.commit, entry |-> <<ev.entity, ev.kind>>]
           longer == Append(rows, ev)
<1>1. row \in LogRow
  BY DEF EventRow, LogRow
<1>2. longer \in Seq(EventRow) /\ Len(longer) = Len(rows) + 1 /\ Len(rows) \in Nat
  BY LenProperties
<1>3. \A i \in 1 .. Len(longer) :
        longer[i] = IF i <= Len(rows) THEN rows[i] ELSE ev
  BY <1>2
<1>4. LogOf(longer) \in Seq(LogRow) /\ Len(LogOf(longer)) = Len(rows) + 1
  BY <1>2, LogType
<1>5. LogOf(rows) \in Seq(LogRow) /\ Len(LogOf(rows)) = Len(rows)
  BY LogType
<1>6. Append(LogOf(rows), row) \in Seq(LogRow) /\ Len(Append(LogOf(rows), row)) = Len(rows) + 1
  BY <1>1, <1>5
<1>7. ASSUME NEW i \in 1 .. Len(rows) + 1
      PROVE  LogOf(longer)[i] = Append(LogOf(rows), row)[i]
  <2>1. i \in DOMAIN longer
    BY <1>2, LenProperties
  <2>2. LogOf(longer)[i] = [commit |-> longer[i].commit,
                            entry |-> <<longer[i].entity, longer[i].kind>>]
    BY <2>1 DEF LogOf
  <2>3. CASE i <= Len(rows)
    <3>1. i \in DOMAIN rows /\ longer[i] = rows[i]
      BY <1>2, <1>3, <2>3, LenProperties
    <3>2. LogOf(rows)[i] = LogOf(longer)[i]
      BY <2>2, <3>1 DEF LogOf
    <3>3. Append(LogOf(rows), row)[i] = LogOf(rows)[i]
      BY <1>1, <1>5, <1>2, <2>3
    <3> QED
      BY <3>2, <3>3
  <2>4. CASE ~(i <= Len(rows))
    <3>1. i = Len(rows) + 1 /\ longer[i] = ev
      BY <1>2, <1>3, <2>4
    <3>2. Append(LogOf(rows), row)[i] = row
      BY <1>1, <1>5, <3>1
    <3> QED
      BY <2>2, <3>1, <3>2
  <2> QED
    BY <2>3, <2>4
<1> QED
  BY <1>4, <1>6, <1>7, SeqEqual

-----------------------------------------------------------------------------
(* Extract and ingest implement the log of changes. *)

\* What commits did is settled when they are made.
LEMMA ChangesStable ==
    ASSUME TypeOK, [Next]_vars, NEW c \in Commits
    PROVE  c \in Commits' /\ Changes(c)' = Changes(c)
<1>1. c \in Commits' /\ Work(c)' = Work(c)
  BY HistoryStep, WorkStable DEF TypeOK
<1>2. \A s : Structural(c, s[1], s[2])' = Structural(c, s[1], s[2])
  BY HistoryStep, StructuralStable DEF TypeOK
<1> QED
  BY <1>1, <1>2 DEF Changes, Verdicts

\* A commit adds one set of changes at the end.
LEMMA CommitHappens ==
    ASSUME TypeOK, TypeOK', DeveloperCommits
    PROVE  L!Happen
<1>1. [Next]_vars
  BY DEF Next
<1>2. PICK x : history' = Append(history, x)
  BY GitStepType DEF DeveloperCommits, TypeOK
<1>3. Len(history') = Len(history) + 1
  BY <1>2 DEF TypeOK, GitTypeOK
<1>4. Len(Happened) = Len(history) /\ DOMAIN Happened = Commits
  BY HappenedLength DEF TypeOK
<1>5. (Len(Happened) = Len(history))'
  BY HappenedLength, PTL DEF TypeOK
<1> QED
  BY <1>1, <1>3, <1>4, <1>5, ChangesStable
     DEF L!Happen, Happened, DeveloperCommits, store, ingVars

\* An entry is in the log when its key is on a timeline.
LEMMA LoggedIsHasEvent ==
    ASSUME NEW c, NEW e, NEW k
    PROVE  L!Logged(c, <<e, k>>) <=> HasEvent(e, c, k)
<1>1. DOMAIN LogOf(events) = DOMAIN events
  BY DEF LogOf
<1>2. \A i \in DOMAIN events :
        LogOf(events)[i] = [commit |-> events[i].commit,
                            entry |-> <<events[i].entity, events[i].kind>>]
  BY DEF LogOf
<1>3. ASSUME NEW a, NEW x, NEW y
      PROVE  [commit |-> a, entry |-> <<x, y>>] = [commit |-> c, entry |-> <<e, k>>]
                <=> x = e /\ a = c /\ y = k
  <2>1. [commit |-> a, entry |-> <<x, y>>].commit = a /\ [commit |-> a, entry |-> <<x, y>>].entry = <<x, y>>
    OBVIOUS
  <2>2. [commit |-> c, entry |-> <<e, k>>].commit = c /\ [commit |-> c, entry |-> <<e, k>>].entry = <<e, k>>
    OBVIOUS
  <2> QED
    BY <2>1, <2>2
<1> QED
  BY <1>1, <1>2, <1>3 DEF L!Logged, HasEvent

\* The last step of the loop for an entity adds a change its commit made, once, or
\* nothing at all.
LEMMA AppendIsRecord ==
    ASSUME IInv, IngestNext, IngestAppend
    PROVE  \/ UNCHANGED events
           \/ \E c \in Commits : \E change \in Changes(c) : \E entry \in change :
                /\ ~L!Logged(c, entry)
                /\ ~RealLLM => c \notin done
                /\ LogOf(events') = Append(LogOf(events), [commit |-> c, entry |-> entry])
<1>0. TypeOK /\ LoopInv /\ CompletedCommitsRecorded
  BY DEF IInv
<1>1. PICK ev \in EventRow :
        /\ AddEvent(ev)
        /\ ing.commit \in Commits
        /\ ing.at \in Work(ing.commit)
        /\ ev.entity = ing.at[2]
        /\ ev.commit = ing.commit
        /\ ev.kind \in Verdicts(Structural(ing.commit, ing.at[1], ing.at[2]))
  BY <1>0, AppendedEvent
<1>2. CASE HasEvent(ev.entity, ev.commit, ev.kind)
  BY <1>1, <1>2 DEF AddEvent
<1>3. CASE ~HasEvent(ev.entity, ev.commit, ev.kind)
  <2> DEFINE c == ing.commit
             s == ing.at
             change == {s[2]} \X Verdicts(Structural(c, s[1], s[2]))
             entry == <<ev.entity, ev.kind>>
  <2>1. change \in Changes(c) /\ entry \in change
    BY <1>1 DEF Changes
  <2>2. ~L!Logged(c, entry)
    BY <1>1, <1>3, LoggedIsHasEvent
  <2>3. ASSUME ~RealLLM, c \in done PROVE FALSE
    <3>1. Recorded(c, s)
      BY <1>0, <1>1, <2>3 DEF CompletedCommitsRecorded
    <3> QED
      BY <1>1, <1>3, <2>3, <3>1 DEF Recorded, HasEvent, Verdicts
  <2>4. events' = Append(events, ev) /\ events \in Seq(EventRow)
    BY <1>0, <1>1, <1>3 DEF AddEvent, TypeOK, StoreTypeOK
  <2>5. LogOf(events') = Append(LogOf(events), [commit |-> c, entry |-> entry])
    BY <1>1, <2>4, LogOfAppend
  <2> HIDE DEF change, entry
  <2> QED
    BY <1>1, <2>1, <2>2, <2>3, <2>5
<1> QED
  BY <1>2, <1>3

\* The loop leaves a commit when each of its changes is in the log, in one of its forms.
LEMMA LeavingIsClose ==
    ASSUME IInv, IngestNext, CommitIngested
    PROVE  \E c \in Commits :
             /\ done' = done \cup {c}
             /\ \A change \in Changes(c) : \E entry \in change : L!Logged(c, entry)
<1>0. TypeOK /\ LoopInv
  BY DEF IInv
<1>1. PICK c \in Commits : c = ing.commit
  BY <1>0 DEF LoopInv, Active, CommitIngested
<1>2. \A s \in Work(c) : Recorded(c, s)
  BY <1>0, <1>1 DEF LoopInv, Active, CommitIngested
<1>3. ASSUME NEW s \in Work(c)
      PROVE  \E entry \in {s[2]} \X Verdicts(Structural(c, s[1], s[2])) : L!Logged(c, entry)
  <2>1. PICK i \in DOMAIN events :
            /\ events[i].entity = s[2]
            /\ events[i].commit = c
            /\ RealLLM \/ events[i].kind = Structural(c, s[1], s[2])
    BY <1>2 DEF Recorded
  <2>2. events[i].kind \in ChangeKinds
    <3>1. events[i] \in EventRow
      BY <1>0 DEF TypeOK, StoreTypeOK
    <3> QED
      BY <3>1 DEF EventRow
  <2>3. events[i].kind \in Verdicts(Structural(c, s[1], s[2]))
    BY <2>1, <2>2 DEF Verdicts
  <2>4. L!Logged(c, <<s[2], events[i].kind>>)
    BY <2>1, LoggedIsHasEvent DEF HasEvent
  <2> QED
    BY <2>3, <2>4
<1>4. \A change \in Changes(c) : \E entry \in change : L!Logged(c, entry)
  BY <1>3 DEF Changes
<1> QED
  BY <1>1, <1>4 DEF CommitIngested

\* Every step of the detailed model is a step of the log, or none.
LEMMA StepOfLog ==
    ASSUME IInv, IInv', [Next]_vars
    PROVE  L!LogNext \/ UNCHANGED L!logVars
<1>0. TypeOK /\ TypeOK'
  BY DEF IInv
<1>H. Happened = [c \in Commits |-> Changes(c)] /\ DOMAIN Happened = Commits
  BY DEF Happened
<1>1. CASE DeveloperCommits
  BY <1>0, <1>1, CommitHappens DEF L!LogNext
<1>2. ASSUME UNCHANGED history PROVE Happened' = Happened
  <2>1. Commits' = Commits
    BY <1>2 DEF Commits
  <2>2. \A c \in Commits : Changes(c)' = Changes(c)
    BY <1>0, ChangesStable
  <2> QED
    BY <2>1, <2>2 DEF Happened
<1>3. CASE IngestNext /\ IngestAppend
  <2>1. UNCHANGED <<history, done>>
    BY <1>3 DEF IngestNext, IngestAppend
  <2>2. CASE UNCHANGED events
    BY <1>2, <2>1, <2>2 DEF L!logVars, Happened
  <2>3. CASE \E c \in Commits : \E change \in Changes(c) : \E entry \in change :
                /\ ~L!Logged(c, entry)
                /\ ~RealLLM => c \notin done
                /\ LogOf(events') = Append(LogOf(events), [commit |-> c, entry |-> entry])
    BY <1>2, <2>1, <2>3 DEF L!LogNext, L!Record, Happened
  <2> QED
    BY <1>3, <2>2, <2>3, AppendIsRecord DEF IInv
<1>4. CASE IngestNext /\ CommitIngested /\ UNCHANGED store
  <2>1. UNCHANGED <<history, events>>
    BY <1>4 DEF IngestNext, store
  <2>2. PICK c \in Commits :
             /\ done' = done \cup {c}
             /\ \A change \in Changes(c) : \E entry \in change : L!Logged(c, entry)
    BY <1>4, LeavingIsClose
  <2> QED
    BY <1>2, <2>1, <2>2 DEF L!LogNext, L!Close, Happened
<1>5. CASE UNCHANGED <<history, events, done>>
  BY <1>2, <1>5 DEF L!logVars, Happened
<1>6. CASE IngestNext /\ ~IngestAppend
  <2>1. events' = events /\ history' = history
    BY <1>6, EventsStep DEF IngestNext
  <2>2. done' = done \/ (CommitIngested /\ UNCHANGED store)
    BY <1>6 DEF IngestNext, RunIngest, StartIngest, IngestStep, IngestEntity, IngestBounds,
                IngestSummarize, IngestNextCommit, IngestFinish, IngestCrash
  <2> QED
    BY <1>4, <1>5, <1>6, <2>1, <2>2
<1>7. CASE (ExtractNext \/ UNCHANGED vars) /\ ~(IngestNext /\ IngestAppend)
  <2>1. UNCHANGED <<history, done>>
    BY <1>7 DEF ExtractNext, vars, ingVars
  <2>2. events' = events
    BY <1>7, EventsStep
  <2> QED
    BY <1>5, <2>1, <2>2
<1> QED
  BY <1>1, <1>3, <1>6, <1>7 DEF Next

\* The empty graph is the empty log.
LEMMA InitIsLogInit == Init => L!LogInit
<1> SUFFICES ASSUME Init PROVE L!LogInit
  OBVIOUS
<1>1. GitTypeOK /\ Commits = {} /\ events = << >> /\ done = {}
  BY InitIInv DEF Init, GitInit, StoreInit, IngestInit, Commits, IInv, TypeOK
<1>2. Len(Happened) = 0 /\ Happened \in Seq({})
  <2>1. Happened \in [1 .. 0 -> {}]
    BY <1>1 DEF Happened
  <2>2. Happened \in Seq({})
    BY <2>1, SeqDef
  <2> QED
    BY <1>1, <2>2, HappenedLength DEF Init, GitInit
<1>3. Happened = << >>
  BY <1>2, EmptySeq
<1>4. LogOf(events) = << >>
  <2>1. LogOf(<< >>) \in Seq(LogRow) /\ Len(LogOf(<< >>)) = 0
    BY LogType, EmptySeq
  <2> QED
    BY <1>1, <2>1, EmptySeq
<1> QED
  BY <1>1, <1>3, <1>4 DEF L!LogInit, Happened

\* For every repository, with or without a model, with crashes, overlapping ranges,
\* concurrent extracts and commits arriving: extract and ingest together implement the
\* append-only log of changes.
THEOREM LogImplemented == Spec => ImplementsChangeLog
<1>1. Init => L!LogInit
  BY InitIsLogInit
<1>2. ASSUME IInv, IInv', [Next]_vars PROVE [L!LogNext]_(L!logVars)
  BY <1>2, StepOfLog
<1> QED
  BY <1>1, <1>2, Inductive, PTL DEF Spec, ImplementsChangeLog, L!LogSpec

-----------------------------------------------------------------------------
(* The whole loop implements the feed. *)

\* Only events that are there are collected and shown.
ShownExist ==
    /\ \A s \in Services : delivered[s] \subseteq DOMAIN events
    /\ \A p \in Sessions : sync[p].found \subseteq DOMAIN events

FInv == DInv /\ ShownExist

\* What was collected or shown stays on its timeline: events keep their rowids.
LEMMA ShownStep ==
    ASSUME FInv, [DeliveryNext]_allVars
    PROVE  ShownExist'
<1>0. SyncTypeOK /\ ShownExist /\ TypeOK /\ LoopInv
  BY DEF FInv, DInv, GraphInv, IInv
<1>1. CASE [Next]_vars /\ UNCHANGED syncVars
  BY <1>0, <1>1, EventsOnlyGrow DEF EventsKept, ShownExist, syncVars
<1>2. CASE SyncNext
  <2>1. PICK p \in Sessions : (\E s \in Services : RunSync(p, s)) \/ SyncStep(p) \/ SyncCrash(p)
    BY <1>2 DEF SyncNext
  <2>2. ASSUME events' = events, NEW x, sync' = [sync EXCEPT ![p] = x],
               x.found \subseteq DOMAIN events, delivered' = delivered
        PROVE  ShownExist'
    BY <1>0, <2>2 DEF ShownExist, SyncTypeOK
  <2>3. ASSUME NEW s \in Services, RunSync(p, s) PROVE ShownExist'
    <3> DEFINE x == [NotSyncing EXCEPT !.pc = "marker", !.service = s, !.head = HEAD]
    <3>1. x.found = {}
      BY DEF NotSyncing
    <3>2. sync' = [sync EXCEPT ![p] = x] /\ events' = events /\ delivered' = delivered
      BY <2>3 DEF RunSync, StartSync, BeginSync, store
    <3> QED
      BY <2>2, <3>1, <3>2
  <2>4. CASE SyncMarker(p) \/ SyncLog(p) \/ SyncEdges(p)
    <3>1. sync[p].found \subseteq DOMAIN events /\ sync[p] \in SyncProcess
      BY <1>0 DEF ShownExist, SyncTypeOK
    <3>2. \E x : sync' = [sync EXCEPT ![p] = x] /\ x.found = sync[p].found
      <4>1. \A since : [sync[p] EXCEPT !.pc = "log", !.since = since].found = sync[p].found
        BY <3>1 DEF SyncProcess
      <4>2. \A until : [sync[p] EXCEPT !.pc = "edges", !.until = until].found = sync[p].found
        BY <3>1 DEF SyncProcess
      <4>3. \A links : [sync[p] EXCEPT !.pc = "collect", !.links = links].found
                          = sync[p].found
        BY <3>1 DEF SyncProcess
      <4> QED
        BY <2>4, <4>1, <4>2, <4>3 DEF SyncMarker, SyncLog, SyncEdges
    <3>3. events' = events /\ delivered' = delivered
      BY <2>4 DEF SyncMarker, SyncLog, SyncEdges, store
    <3> QED
      BY <2>2, <3>1, <3>2, <3>3
  <2>5. ASSUME NEW l \in Links, SyncCollect(p, l) PROVE ShownExist'
    <3> DEFINE x == [sync[p] EXCEPT !.links = sync[p].links \ {l},
                                    !.found = sync[p].found \cup Surfaced(p, l[2])]
    <3>1. sync[p].found \subseteq DOMAIN events /\ sync[p] \in SyncProcess
      BY <1>0 DEF ShownExist, SyncTypeOK
    <3>2. Surfaced(p, l[2]) \subseteq DOMAIN events
      BY DEF Surfaced, EventsFor
    <3>3. x.found \subseteq DOMAIN events
      BY <3>1, <3>2 DEF SyncProcess
    <3>4. sync' = [sync EXCEPT ![p] = x] /\ events' = events /\ delivered' = delivered
      BY <2>5 DEF SyncCollect, store
    <3> QED
      BY <2>2, <3>3, <3>4
  <2>6. CASE SyncWrite(p)
    <3>1. /\ sync' = [sync EXCEPT ![p].pc = "mark"] /\ events' = events
          /\ delivered' = [delivered EXCEPT ![sync[p].service] = @ \cup sync[p].found]
      BY <2>6 DEF SyncWrite, store
    <3>2. \A q \in Sessions : sync'[q].found = sync[q].found
      BY <1>0, <3>1 DEF SyncTypeOK, SyncProcess
    <3> QED
      BY <1>0, <3>1, <3>2 DEF ShownExist, SyncTypeOK
  <2>7. CASE SyncMark(p) \/ SyncCrash(p)
    <3>1. NotSyncing.found = {}
      BY DEF NotSyncing
    <3> QED
      BY <2>2, <2>7, <3>1 DEF SyncMark, SyncCrash, store
  <2> QED
    BY <2>1, <2>3, <2>4, <2>5, <2>6, <2>7 DEF SyncStep
<1> QED
  BY <1>1, <1>2 DEF DeliveryNext, allVars

\* The whole invariant of the loop.
LEMMA FInvStep ==
    ASSUME FInv, ExtractFirst, ~RealLLM, SyncWhenIngested, [DeliveryNext]_allVars
    PROVE  FInv'
<1>1. CASE [Next]_vars /\ UNCHANGED syncVars
  BY <1>1, GraphStepKeepsSessions, ShownStep DEF FInv
<1>2. CASE SyncNext
  BY <1>2, ShownStep, StartStep, MarkerStep, LogStep, EdgesStep, CollectStep, WriteStep,
     MarkStep, CrashStep DEF FInv, SyncNext, SyncStep
<1> QED
  BY <1>1, <1>2 DEF DeliveryNext, allVars

\* It holds at first.
LEMMA InitFInv == DeliveryInit => FInv
<1> SUFFICES ASSUME DeliveryInit PROVE FInv
  OBVIOUS
<1>1. /\ delivered = [s \in Services |-> {}]
      /\ sync = [p \in Sessions |-> NotSyncing]
  BY DEF DeliveryInit, SyncInit
<1>2. NotSyncing.found = {}
  BY DEF NotSyncing
<1> QED
  BY <1>1, <1>2, InitDInv DEF FInv, ShownExist

\* With extract first, rule-based verdicts and sync after ingest, the loop never leaves
\* its invariant.
LEMMA InductiveF ==
    ASSUME ExtractFirst, ~RealLLM, SyncWhenIngested
    PROVE  DeliverySpec => []FInv
<1>1. ASSUME FInv, [DeliveryNext]_allVars PROVE FInv'
  BY <1>1, FInvStep
<1> QED
  BY InitFInv, <1>1, PTL DEF DeliverySpec

\* If nothing has happened, there is no new commit.
LEMMA SameHappened ==
    ASSUME IInv, IInv', [Next]_vars, Happened' = Happened
    PROVE  UNCHANGED history
<1>1. Len(Happened) = Len(history)
  BY HappenedLength DEF IInv, TypeOK
<1>2. (Len(Happened) = Len(history))'
  BY HappenedLength, PTL DEF IInv, TypeOK
<1>3. Len(history') = Len(history) /\ Len(history) \in Nat
  BY <1>1, <1>2 DEF IInv, TypeOK, GitTypeOK
<1>4. ASSUME NEW x, history' = Append(history, x) PROVE FALSE
  BY <1>3, <1>4 DEF IInv, TypeOK, GitTypeOK
<1> QED
  BY <1>4, HistoryStep DEF IInv

\* A step without a commit leaves what matters as it is, and one that commits can only make
\* less of the older commits matter.
LEMMA ConcernStep ==
    ASSUME IInv, [Next]_vars
    PROVE  /\ DOMAIN Matters' = Commits' /\ Commits \subseteq Commits'
           /\ \A c \in Commits : Matters'[c] \subseteq Matters[c]
           /\ UNCHANGED history => Matters' = Matters
<1>1. Commits \subseteq Commits'
  BY HistoryStep, WorkStable DEF IInv, TypeOK
<1>2. ASSUME NEW c \in Commits PROVE Concerns(c)' \subseteq Concerns(c)
  <2>1. c \in 0 .. HEAD
    BY DEF Commits, HEAD
  <2>2. \A l : DeclaredSince(l, c)' => DeclaredSince(l, c)
    BY <2>1, DeclaredStep DEF IInv
  <2> QED
    BY <2>2 DEF Concerns, Declares
<1>3. ASSUME UNCHANGED history PROVE Matters' = Matters
  BY <1>3 DEF Matters, Concerns, Declares, DeclaredSince, ManifestsAt, HEAD, Commits
<1>4. \A c \in Commits : Matters'[c] \subseteq Matters[c]
  BY <1>1, <1>2 DEF Matters
<1> QED
  BY <1>1, <1>3, <1>4 DEF Matters

\* The log of the feed is the log of the timelines.
LEMMA SameLog == L!LogNext \/ UNCHANGED L!logVars => F!LogNext \/ UNCHANGED F!logVars
  BY DEF L!LogNext, L!Happen, L!Record, L!Close, L!Logged, L!logVars,
         F!LogNext, F!Happen, F!Record, F!Close, F!Logged, F!logVars

\* A session that does not write or mark leaves log, shown and cursor as they are.
LEMMA SilentStep ==
    ASSUME SyncNext, UNCHANGED <<store, delivered>>
    PROVE  UNCHANGED F!feedVars
<1>1. UNCHANGED <<history, events, done, sync_state, delivered>>
  BY DEF SyncNext, store, ingVars
<1>2. Commits' = Commits /\ \A c : Changes(c)' = Changes(c) /\ Concerns(c)' = Concerns(c)
  BY <1>1 DEF Commits, Changes, Work, Structural, TreeAt, ParentTree, Verdicts,
              Concerns, Declares, DeclaredSince, ManifestsAt, HEAD
<1> QED
  BY <1>1, <1>2 DEF F!feedVars, F!logVars

\* Writing the digest shows entries that are there.
LEMMA WriteIsShow ==
    ASSUME FInv, SyncNext, NEW p \in Sessions, SyncWrite(p)
    PROVE  \E s \in Services : F!Show(s)
<1> DEFINE s == sync[p].service
<1>1. /\ delivered' = [delivered EXCEPT ![s] = @ \cup sync[p].found]
      /\ UNCHANGED store /\ sync[p].pc = "collect"
  BY DEF SyncWrite
<1>2. s \in Services /\ delivered \in [Services -> SUBSET Nat]
  BY <1>1 DEF FInv, DInv, SyncTypeOK, SessionInv
<1>3. UNCHANGED <<history, events, done, sync_state>>
  BY <1>1 DEF SyncNext, store, ingVars
<1>4. Commits' = Commits /\ \A c : Changes(c)' = Changes(c) /\ Concerns(c)' = Concerns(c)
  BY <1>3 DEF Commits, Changes, Work, Structural, TreeAt, ParentTree, Verdicts,
              Concerns, Declares, DeclaredSince, ManifestsAt, HEAD
<1>5. DOMAIN LogOf(events) = DOMAIN events
  BY DEF LogOf
<1>6. delivered[s] \subseteq DOMAIN events /\ sync[p].found \subseteq DOMAIN events
  BY <1>2 DEF FInv, ShownExist
<1>7. /\ delivered'[s] = delivered[s] \cup sync[p].found
      /\ \A other \in Services \ {s} : delivered'[other] = delivered[other]
      /\ DOMAIN delivered' = Services
  BY <1>1, <1>2
<1>8. UNCHANGED F!logVars
  BY <1>3, <1>4 DEF F!logVars
<1>9. F!Show(s)
  BY <1>3, <1>4, <1>5, <1>6, <1>7, <1>8 DEF F!Show
<1> QED
  BY <1>2, <1>9

\* Moving the marker only promises what was closed and shown.
LEMMA MarkIsAdvance ==
    ASSUME FInv, SyncNext, NEW p \in Sessions, SyncMark(p)
    PROVE  \E s \in Services : \E c \in 0 .. Len(history) : F!Advance(s, c)
<1> DEFINE s == sync[p].service
           c == sync[p].head
<1>1. /\ sync[p].pc = "mark" /\ sync_state' = [sync_state EXCEPT ![s] = c]
      /\ UNCHANGED <<entities, events, edges, syncs, delivered>>
  BY DEF SyncMark, SetLastSynced
<1>2. /\ SessionInv(p) /\ sync \in [Sessions -> SyncProcess]
      /\ done \subseteq Commits /\ Len(history) \in Nat
  BY DEF FInv, DInv, SyncTypeOK, GraphInv, IInv, TypeOK, IngestTypeOK, GitTypeOK
<1>3. /\ s \in Services /\ c \in Nat /\ c # NoCommit
      /\ 1 .. c \subseteq done /\ Delivered(s, c)
  BY <1>1, <1>2 DEF SessionInv, SyncProcess, Ingested
<1>4. c \in 0 .. Len(history)
  <2>1. c \in 1 .. c
    BY <1>3 DEF NoCommit
  <2> QED
    BY <1>2, <1>3, <2>1 DEF Commits
<1>5. \A i \in DOMAIN LogOf(events) :
        (/\ LogOf(events)[i].commit <= c
         /\ <<s, LogOf(events)[i].entry>> \in Matters[LogOf(events)[i].commit])
            => i \in delivered[s]
  <2> SUFFICES ASSUME NEW i \in DOMAIN events, LogOf(events)[i].commit <= c,
                      <<s, LogOf(events)[i].entry>> \in Matters[LogOf(events)[i].commit]
               PROVE  i \in delivered[s]
    BY DEF LogOf
  <2>1. LogOf(events)[i] = [commit |-> events[i].commit,
                            entry |-> <<events[i].entity, events[i].kind>>]
    BY DEF LogOf
  <2>2. events[i].commit \in Commits
    BY DEF FInv, DInv, GraphInv, IInv, EventsOfHistory
  <2>3. <<s, <<events[i].entity, events[i].kind>>>> \in Concerns(events[i].commit)
    BY <2>1, <2>2 DEF Matters
  <2>4. events[i].commit <= c /\ i \in Actionable(s)
    BY <2>1, <2>3 DEF Concerns, Actionable
  <2> QED
    BY <1>3, <2>4 DEF Delivered
<1>6. UNCHANGED <<history, events, done>>
  BY <1>1 DEF SyncNext, ingVars
<1>7. Commits' = Commits /\ \A x : Changes(x)' = Changes(x) /\ Concerns(x)' = Concerns(x)
  BY <1>6 DEF Commits, Changes, Work, Structural, TreeAt, ParentTree, Verdicts,
              Concerns, Declares, DeclaredSince, ManifestsAt, HEAD
<1>8. UNCHANGED F!logVars
  BY <1>6, <1>7 DEF F!logVars
<1>9. F!Advance(s, c)
  BY <1>1, <1>3, <1>5, <1>7, <1>8 DEF F!Advance, Matters
<1> HIDE DEF s, c
<1> QED
  BY <1>3, <1>4, <1>9

\* Every step of the loop is a step of the feed, or none.
LEMMA StepOfFeed ==
    ASSUME FInv, FInv', [DeliveryNext]_allVars
    PROVE  F!FeedNext \/ UNCHANGED F!feedVars
<1>1. CASE [Next]_vars /\ UNCHANGED syncVars
  <2>1. L!LogNext \/ UNCHANGED L!logVars
    BY <1>1, StepOfLog DEF FInv, DInv, GraphInv
  <2>2. UNCHANGED <<delivered, sync_state>>
    BY <1>1, MarkersKept DEF syncVars
  <2>3. /\ DOMAIN Happened = Commits /\ (DOMAIN Happened = Commits)' /\ DOMAIN Matters = Commits
        /\ Happened' = Happened => UNCHANGED history
    BY <1>1, SameHappened DEF Happened, Matters, FInv, DInv, GraphInv
  <2>4. F!Concern /\ (UNCHANGED F!logVars => Matters' = Matters)
    BY <1>1, <2>3, ConcernStep
       DEF FInv, DInv, GraphInv, F!Concern, F!logVars, Matters, Happened
  <2> QED
    BY <2>1, <2>2, <2>4, SameLog DEF F!FeedNext, F!feedVars, Matters
<1>2. CASE SyncNext
  <2>1. PICK p \in Sessions : (\E s \in Services : RunSync(p, s)) \/ SyncStep(p) \/ SyncCrash(p)
    BY <1>2 DEF SyncNext
  <2>2. CASE SyncWrite(p)
    BY <1>2, <2>2, WriteIsShow DEF F!FeedNext
  <2>3. CASE SyncMark(p)
    <3>1. Len(Happened) = Len(history)
      BY HappenedLength DEF FInv, DInv, GraphInv, IInv, TypeOK
    <3> QED
      BY <1>2, <2>3, <3>1, MarkIsAdvance DEF F!FeedNext, Happened
  <2>4. CASE ~SyncWrite(p) /\ ~SyncMark(p)
    <3>1. UNCHANGED <<store, delivered>>
      BY <2>1, <2>4 DEF RunSync, StartSync, BeginSync, SyncStep, SyncMarker, SyncLog, SyncEdges,
                        SyncCollect, SyncCrash
    <3> QED
      BY <1>2, <3>1, SilentStep
  <2> QED
    BY <2>2, <2>3, <2>4
<1> QED
  BY <1>1, <1>2 DEF DeliveryNext, allVars

\* For any number of services, sessions, commits, crashes and overlaps: with extract
\* first, rule-based verdicts and HEAD ingested when a sync reads it, the loop is an
\* at-least-once feed of the change log to the services.
THEOREM FeedImplemented ==
    ASSUME ExtractFirst, ~RealLLM, SyncWhenIngested
    PROVE  DeliverySpec => ImplementsFeed
<1>1. ASSUME DeliveryInit PROVE F!FeedInit
  <2>1. L!LogInit => F!LogInit
    BY DEF L!LogInit, F!LogInit
  <2>2. Matters = << >>
    <3>1. Commits = {}
      BY <1>1 DEF DeliveryInit, Init, GitInit, Commits
    <3>2. Matters \in [1 .. 0 -> {}] /\ DOMAIN Matters = {}
      BY <3>1 DEF Matters
    <3>3. Matters \in Seq({})
      BY <3>2, SeqDef
    <3>4. Len(Matters) = 0
      BY <3>2, <3>3, LenProperties
    <3> QED
      BY <3>3, <3>4, EmptySeq
  <2> QED
    BY <1>1, <2>1, <2>2, InitIsLogInit
       DEF DeliveryInit, Init, StoreInit, SyncInit, F!FeedInit, NoCommit, Matters
<1>2. ASSUME FInv, FInv', [DeliveryNext]_allVars PROVE [F!FeedNext]_(F!feedVars)
  BY <1>2, StepOfFeed
<1> QED
  BY <1>1, <1>2, InductiveF, PTL DEF DeliverySpec, ImplementsFeed, F!FeedSpec

-----------------------------------------------------------------------------
(* What it is for. *)

\* In every run of the loop all tables and processes hold values of their types.
THEOREM DeliveryTyped ==
    ASSUME ExtractFirst, ~RealLLM, SyncWhenIngested
    PROVE  DeliverySpec => []DeliveryTypeOK
<1>1. FInv => DeliveryTypeOK
  BY DEF FInv, DInv, GraphInv, IInv, SyncTypeOK, DeliveryTypeOK
<1> QED
  BY <1>1, InductiveF, PTL

\* From the commit to the consumer: what a commit up to a service's marker did to a
\* contract its manifest declares was told to it.  Ingest left no change of the commit
\* out, sync none of the timeline.
THEOREM CaughtUpAlways ==
    ASSUME ExtractFirst, ~RealLLM, SyncWhenIngested
    PROVE  DeliverySpec => []ConsumersCaughtUp
<1>1. ASSUME FInv PROVE ConsumersCaughtUp
  <2>1. /\ MarkerInv /\ CompletedCommitsRecorded /\ done \subseteq Commits
        /\ sync_state \in [Services -> Nat]
    BY <1>1 DEF FInv, DInv, GraphInv, IInv, TypeOK, IngestTypeOK, StoreTypeOK
  <2>2. ASSUME NEW r \in Services, NEW c \in 1 .. sync_state[r], NEW change \in Changes(c),
               \A entry \in change : <<r, entry>> \in Concerns(c)
        PROVE  \E i \in delivered[r] :
                  LogOf(events)[i].commit = c /\ LogOf(events)[i].entry \in change
    <3>1. c \in done /\ c \in Commits /\ c <= sync_state[r]
      BY <2>1 DEF MarkerInv, Ingested
    <3>2. PICK s \in Work(c) : change = {s[2]} \X Verdicts(Structural(c, s[1], s[2]))
      BY <2>2 DEF Changes
    <3>3. PICK i \in DOMAIN events :
            /\ events[i].entity = s[2]
            /\ events[i].commit = c
            /\ RealLLM \/ events[i].kind = Structural(c, s[1], s[2])
      BY <2>1, <3>1, <3>2 DEF CompletedCommitsRecorded, Recorded
    <3>4. <<s[2], events[i].kind>> \in change
      BY <3>2, <3>3 DEF Verdicts
    <3>5. i \in Actionable(r)
      BY <2>2, <3>3, <3>4 DEF Concerns, Actionable
    <3>6. i \in delivered[r]
      BY <2>1, <3>1, <3>3, <3>5 DEF MarkerInv, Delivered
    <3>7. LogOf(events)[i] = [commit |-> events[i].commit,
                              entry |-> <<events[i].entity, events[i].kind>>]
      BY DEF LogOf
    <3> QED
      BY <3>3, <3>4, <3>6, <3>7
  <2>3. \A r \in Services : \A c \in 1 .. sync_state[r] : c \in Commits
    BY <2>1 DEF MarkerInv, Ingested
  <2> QED
    BY <2>2, <2>3 DEF ConsumersCaughtUp, F!CaughtUp
<1> QED
  BY <1>1, InductiveF, PTL
=================================================================================

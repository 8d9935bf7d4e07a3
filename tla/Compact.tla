--------------------------------- MODULE Compact --------------------------------
(* orgctx compact on one entity: choose what of its timeline earns a line of the    *)
(* state_summary, fold or drop the rest, and shorten the result when it exceeds the *)
(* token cap.  The timeline grows and a first consumer may appear at any time, also *)
(* between the reads of a compaction.  A text is abstracted to the events it tells  *)
(* about and its exact length; a model's own rewriting (llm._real_recompact) is not *)
(* modelled, only the rule-based one.                                               *)
EXTENDS Naturals, SequencesExt, Vocabulary

CONSTANTS
    PromoteKinds, FoldKinds, DropKinds,     \* policy.yaml, as load_policy reads it
    PromoteAddedIfInbound,
    RequireNoInboundToDrop,
    TokenCap,
    KeepOnOverflow,
    SummaryLengths,     \* lengths in characters of the one-line event summaries
    MaxEvents           \* bound on the length of the timeline

ASSUME CompactAssumption ==
    /\ PromoteKinds \cup FoldKinds \cup DropKinds \subseteq ChangeKinds
    /\ PromoteAddedIfInbound \in BOOLEAN
    /\ RequireNoInboundToDrop \in BOOLEAN
    /\ TokenCap \in Nat
    /\ KeepOnOverflow \subseteq {"origin", "latest", "unresolved_breaking"}
    /\ SummaryLengths \subseteq Nat \ {0}
    /\ MaxEvents \in Nat

VARIABLES
    timeline,   \* events_for the entity
    inbound,    \* has_inbound_edge of the entity
    summary,    \* the lines of its state_summary
    job,        \* the compaction under way
    basis       \* observer: how many events, and which inbound, summary was built from

vars == <<timeline, inbound, summary, job, basis>>

Event == [kind : ChangeKinds, breaking : BOOLEAN, length : SummaryLengths]
Line == [shows : SUBSET Nat, length : Nat]
NoJob == [pc |-> "idle", seen |-> 0, inbound |-> FALSE]

-----------------------------------------------------------------------------
(* Lines and their cost. *)

\* count_tokens without tiktoken: four characters to a token, one at least.
Tokens(length) == IF length = 0 THEN 0 ELSE IF length < 4 THEN 1 ELSE length \div 4

KindLength ==
    [added |-> 5, removed |-> 7, modified |-> 8, internal |-> 8,
     behavior_note |-> 13, signature_change |-> 16]

\* _line: "[sha7] kind: summary", with a flag of 11 characters when breaking.
LineOf(events, i) ==
    [shows |-> {i},
     length |-> 12 + KindLength[events[i].kind] + events[i].length
                   + (IF events[i].breaking THEN 11 ELSE 0)]

\* "changes: [sha7] summary; [sha7] summary"
FoldedLine(events, S) ==
    [shows |-> S,
     length |-> 9 + SumFunction([i \in S |-> 10 + events[i].length])
                  + 2 * (Cardinality(S) - 1)]

LinesTokens(lines) == SumFunction([j \in DOMAIN lines |-> Tokens(lines[j].length)])

\* The lines joined by newlines.
TextTokens(lines) ==
    IF lines = <<>> THEN 0
    ELSE Tokens(SumFunction([j \in DOMAIN lines |-> lines[j].length]) + Len(lines) - 1)

-----------------------------------------------------------------------------
(* compact_entity on the events it read, has being has_inbound_edge. *)

PromotedLatestOfKind(events, has) ==
    {i \in DOMAIN events :
        /\ events[i].kind \in PromoteKinds
        /\ \A j \in i + 1 .. Len(events) : events[j].kind # events[i].kind}

Promoted(events, has) ==
    {i \in DOMAIN events :
        \/ events[i].kind \in PromoteKinds
        \/ events[i].kind = "added" /\ PromoteAddedIfInbound /\ has}

FoldedAlways(events, has) ==
    {i \in DOMAIN events \ Promoted(events, has) :
        events[i].kind \in FoldKinds \cup DropKinds}

Folded(events, has) ==
    {i \in DOMAIN events \ Promoted(events, has) :
        \/ events[i].kind \in FoldKinds
        \/ events[i].kind \in DropKinds /\ RequireNoInboundToDrop /\ has}

\* The numbers of S, smallest first.
InOrder(S) ==
    CHOOSE s \in SetToSeqs(S) : \A j, k \in 1 .. Cardinality(S) : j < k => s[j] < s[k]
LinesOf(events, S) ==
    LET order == InOrder(S)
    IN  [j \in 1 .. Cardinality(S) |-> LineOf(events, order[j])]

PlainLines(events, has) ==
    LinesOf(events, Promoted(events, has))
    \o (IF Folded(events, has) = {} THEN <<>>
        ELSE <<FoldedLine(events, Folded(events, has))>>)

Breaking(events, has) == {i \in Promoted(events, has) : events[i].breaking}

\* _recompact: the lines that must survive, in the order in which they are put first.
MustKeep(events, has) ==
    LET promoted == LinesOf(events, Promoted(events, has))
        kept(name, lines) == IF name \in KeepOnOverflow THEN lines ELSE <<>>
    IN  IF promoted = <<>> THEN <<>>
        ELSE kept("origin", <<promoted[1]>>)
             \o kept("unresolved_breaking", LinesOf(events, Breaking(events, has)))
             \o kept("latest", <<promoted[Len(promoted)]>>)

NotDeduplicated(lines) == lines
FirstSeen(lines) == {j \in DOMAIN lines : \A k \in 1 .. j - 1 : lines[k] # lines[j]}
Deduplicated(lines) ==
    LET order == InOrder(FirstSeen(lines))
    IN  [j \in 1 .. Cardinality(FirstSeen(lines)) |-> lines[order[j]]]

PlainLinesFirst(events, has) ==
    Deduplicated(PlainLines(events, has) \o MustKeep(events, has))
Prioritised(events, has) ==
    Deduplicated(MustKeep(events, has) \o PlainLines(events, has))

PrefixPastCap(lines) ==
    LET fits == {j \in 0 .. Len(lines) - 1 : LinesTokens(SubSeq(lines, 1, j)) <= TokenCap}
    IN  SubSeq(lines, 1, 1 + CHOOSE j \in fits : \A k \in fits : k <= j)

\* _mock_recompact: lines are taken until the next would exceed the cap; the first
\* one is taken whatever it costs.
PrefixWithinCap(lines) ==
    LET fits == {j \in 1 .. Len(lines) :
                    j = 1 \/ LinesTokens(SubSeq(lines, 1, j)) <= TokenCap}
    IN  SubSeq(lines, 1, CHOOSE j \in fits : \A k \in fits : k <= j)

Compacted(events, has) ==
    IF TextTokens(PlainLines(events, has)) > TokenCap
    THEN PrefixWithinCap(Prioritised(events, has))
    ELSE PlainLines(events, has)

-----------------------------------------------------------------------------
Init ==
    /\ timeline = <<>>
    /\ inbound = FALSE
    /\ summary = <<>>
    /\ job = NoJob
    /\ basis = [seen |-> 0, inbound |-> FALSE]

\* What ingest appends meanwhile: breaking only for a contract change of a consumed
\* entity.
IngestAppends(ev) ==
    /\ Len(timeline) < MaxEvents
    /\ ev.breaking => ev.kind \in BreakingKinds /\ inbound
    /\ timeline' = Append(timeline, ev)
    /\ UNCHANGED <<inbound, summary, job, basis>>

\* What extract does meanwhile.
ConsumerAppears ==
    /\ ~inbound
    /\ inbound' = TRUE
    /\ UNCHANGED <<timeline, summary, job, basis>>

ReadEventsPastEnd ==
    /\ job.pc = "idle"
    /\ job' = [NoJob EXCEPT !.pc = "inbound", !.seen = Len(timeline) + 1]
    /\ UNCHANGED <<timeline, inbound, summary, basis>>

ReadEvents ==
    /\ job.pc = "idle"
    /\ job' = [NoJob EXCEPT !.pc = "inbound", !.seen = Len(timeline)]
    /\ UNCHANGED <<timeline, inbound, summary, basis>>

ReadInbound ==
    /\ job.pc = "inbound"
    /\ job' = [job EXCEPT !.pc = "store", !.inbound = inbound]
    /\ UNCHANGED <<timeline, inbound, summary, basis>>

\* set_state_summary
StoreSummary ==
    /\ job.pc = "store"
    /\ summary' = Compacted(SubSeq(timeline, 1, job.seen), job.inbound)
    /\ basis' = [seen |-> job.seen, inbound |-> job.inbound]
    /\ job' = NoJob
    /\ UNCHANGED <<timeline, inbound>>

CompactCrash ==
    /\ job.pc # "idle"
    /\ job' = NoJob
    /\ UNCHANGED <<timeline, inbound, summary, basis>>

Next ==
    \/ \E ev \in Event : IngestAppends(ev)
    \/ ConsumerAppears
    \/ ReadEvents
    \/ ReadInbound
    \/ StoreSummary
    \/ CompactCrash

Spec == Init /\ [][Next]_vars

-----------------------------------------------------------------------------
(* Properties. *)

TypeOK ==
    /\ timeline \in Seq(Event)
    /\ inbound \in BOOLEAN
    /\ summary \in Seq(Line)
    /\ job \in [pc : {"idle", "inbound", "store"}, seen : 0 .. Len(timeline),
                inbound : BOOLEAN]
    /\ basis \in [seen : 0 .. Len(timeline), inbound : BOOLEAN]

\* What the stored summary was built from.
Read == SubSeq(timeline, 1, basis.seen)

Shown == UNION {summary[j].shows : j \in DOMAIN summary}

\* Every breaking change the compaction read is in the summary, with the whole cap or
\* without it, as long as the lines that must be kept fit together (compact.py: they are
\* front-loaded "so the cap can never silently drop a breaking change").
BreakingKeptWhenRoom ==
    LinesTokens(Deduplicated(MustKeep(Read, basis.inbound))) <= TokenCap
        => Breaking(Read, basis.inbound) \subseteq Shown

\* Every breaking change the compaction read is in the summary, as compact.py says.
CapNeverDropsBreaking == Breaking(Read, basis.inbound) \subseteq Shown

\* Without overflow nothing that earned a line or a fold is missing, nothing is told
\* twice and the promoted lines are oldest first; with it nothing is invented.
SummaryTellsTimeline ==
    LET told == Promoted(Read, basis.inbound) \cup Folded(Read, basis.inbound)
    IN  /\ Shown \subseteq told
        /\ \A j, k \in DOMAIN summary :
            j # k => summary[j].shows \cap summary[k].shows = {}
        /\ TextTokens(PlainLines(Read, basis.inbound)) <= TokenCap =>
            /\ Shown = told
            /\ \A j, k \in 1 .. Cardinality(Promoted(Read, basis.inbound)) :
                j < k => \A a \in summary[j].shows, b \in summary[k].shows : a < b

\* The cap is exceeded by less than one token a line (the division of each line's
\* length rounds down and newlines are not counted), unless a single line is over it.
SummaryNearCap ==
    Len(summary) > 1 => TextTokens(summary) <= TokenCap + Len(summary) - 1

\* Internal churn on an entity nobody consumes leaves no trace, and an entity with
\* nothing but such churn has an empty summary (compact.py: "leave no trace in the
\* summary").
ChurnLeavesNoTrace ==
    ~inbound => \A i \in Shown : timeline[i].kind # "internal"

\* A contract change that has a line keeps it through every later compaction that
\* stays under the cap (compact.py: "contract facts a downstream reader must never lose").
ContractFactsPersist ==
    [][TextTokens(PlainLines(Read', basis'.inbound)) <= TokenCap =>
        \A i \in Shown : timeline[i].kind \in PromoteKinds => i \in Shown']_vars
=================================================================================

--------------------------------- MODULE Ingest ---------------------------------
(* orgctx ingest: walk a range of commits oldest first, diff the entity tables of   *)
(* each changed file against the parent revision, and append one change event per   *)
(* entity that differs.  Every database call is a step of its own, so the process   *)
(* may be killed, or a git or LLM call may raise, between any two of them.          *)
EXTENDS GraphStore

CONSTANTS
    RealLLM,        \* TRUE: a model answers; FALSE: the rule-based mock
    MaxRuns         \* bound on the number of ingest invocations

ASSUME IngestAssumption == RealLLM \in BOOLEAN /\ MaxRuns \in Nat

VARIABLES
    ing,            \* the ingest process
    runs,           \* how many times it was started
    done,           \* observer: commits that some run went through to the end
    interrupted     \* observer: commits a run was working on when it died

ingVars == <<ing, runs, done, interrupted>>

NoSlot == <<NoFile, NoEntity>>
Resting == [pc |-> "idle", hi |-> NoCommit, commit |-> NoCommit, todo |-> {},
            at |-> NoSlot, kind |-> "internal", breaking |-> FALSE]

IngestProcess ==
    [pc : {"idle", "scan", "bounds", "summarize", "append"}, hi : Nat, commit : Nat,
     todo : SUBSET Slots, at : Slots \cup {NoSlot}, kind : ChangeKinds,
     breaking : BOOLEAN]

IngestTypeOK ==
    /\ ing \in IngestProcess
    /\ runs \in Nat
    /\ done \subseteq Commits
    /\ interrupted \subseteq Commits

IngestInit ==
    /\ ing = Resting
    /\ runs = 0
    /\ done = {}
    /\ interrupted = {}

-----------------------------------------------------------------------------
(* What a commit did to the entities of its changed files. *)

\* ingest._classify
Classify(kind) == IF kind = "schema_field" THEN "modified" ELSE "signature_change"

\* The structural verdict on entity e of file f at commit c; "none" when the loop
\* goes on to the next entity.
Structural(c, f, e) ==
    LET old == ParentTree(c)
        new == TreeAt(c)
        kept == old[<<f, e>>] # Absent /\ new[<<f, e>>] # Absent
        same == SignatureAt(old, f, e) = SignatureAt(new, f, e)
    IN  CASE old[<<f, e>>] = Absent /\ new[<<f, e>>] # Absent -> "added"
          [] old[<<f, e>>] # Absent /\ new[<<f, e>>] = Absent -> "removed"
          [] kept /\ ~same -> Classify(KindOf[e])
          [] kept /\ same /\ <<f, e>> \in history[c].touched -> "internal"
          [] OTHER -> "none"

WorkOfNewTable(c) ==
    {s \in Slots : s[1] \in history[c].changed
                    /\ Structural(c, s[1], s[2]) \notin {"none", "removed"}}

\* The passes through the body of the loop that _process_commit makes for c.
Work(c) ==
    {s \in Slots : s[1] \in history[c].changed /\ Structural(c, s[1], s[2]) # "none"}

\* llm.summarize_change: the mock passes the structural verdict through; the reply of
\* a model is accepted whatever change kind it names.
Verdicts(structural) == IF RealLLM THEN ChangeKinds ELSE {structural}

-----------------------------------------------------------------------------
(* The process. *)

Active == ing.pc # "idle"

StartIngestBeyondOldest(lo, hi) ==
    /\ ~Active
    /\ runs < MaxRuns
    /\ lo + 1 < hi
    /\ ing' = [Resting EXCEPT !.pc = "scan", !.hi = hi, !.commit = lo + 2,
                              !.todo = Work(lo + 2)]
    /\ runs' = runs + 1
    /\ UNCHANGED <<store, done, interrupted>>

\* list_commits: the range lo..hi, resolved once, oldest first.
StartIngest(lo, hi) ==
    /\ ~Active
    /\ runs < MaxRuns
    /\ lo < hi
    /\ ing' = [Resting EXCEPT !.pc = "scan", !.hi = hi, !.commit = lo + 1,
                              !.todo = Work(lo + 1)]
    /\ runs' = runs + 1
    /\ UNCHANGED <<store, done, interrupted>>

\* The next entity: files in path order, the entities of a file in any order.  Its row
\* is upserted with the descriptor of the new revision, or of the old one if removed,
\* and this commit as both bounds.
IngestEntity(s) ==
    /\ ing.pc = "scan"
    /\ s \in ing.todo
    /\ \A other \in ing.todo : s[1] <= other[1]
    /\ LET c == ing.commit
           descriptor == IF TreeAt(c)[s] # Absent THEN TreeAt(c) ELSE ParentTree(c)
       IN  UpsertEntity(s[2], SignatureAt(descriptor, s[1], s[2]), s[1], c, c)
    /\ ing' = [ing EXCEPT !.pc = "bounds", !.at = s]
    /\ UNCHANGED <<events, edges, sync_state, runs, done, interrupted>>

IngestBounds ==
    /\ ing.pc = "bounds"
    /\ SetCommitBounds(ing.at[2], ing.commit, ing.commit)
    /\ ing' = [ing EXCEPT !.pc = "summarize"]
    /\ UNCHANGED <<events, edges, sync_state, runs, done, interrupted>>

\* The verdict, and the guard that only lets a contract change on a consumed entity
\* be breaking.
IngestSummarizeUnguarded ==
    /\ ing.pc = "summarize"
    /\ \E kind \in Verdicts(Structural(ing.commit, ing.at[1], ing.at[2])) :
        ing' = [ing EXCEPT !.pc = "append", !.kind = kind,
                           !.breaking = (kind \in BreakingKinds)]
    /\ UNCHANGED <<store, runs, done, interrupted>>

IngestSummarizeAnyKind ==
    /\ ing.pc = "summarize"
    /\ \E kind \in Verdicts(Structural(ing.commit, ing.at[1], ing.at[2])) :
        ing' = [ing EXCEPT !.pc = "append", !.kind = kind,
                           !.breaking = HasInboundEdge(ing.at[2])]
    /\ UNCHANGED <<store, runs, done, interrupted>>

IngestSummarize ==
    /\ ing.pc = "summarize"
    /\ \E kind \in Verdicts(Structural(ing.commit, ing.at[1], ing.at[2])) :
        ing' = [ing EXCEPT !.pc = "append", !.kind = kind,
                           !.breaking = (kind \in BreakingKinds
                                          /\ HasInboundEdge(ing.at[2]))]
    /\ UNCHANGED <<store, runs, done, interrupted>>

IngestAppend ==
    /\ ing.pc = "append"
    /\ AddEvent([entity |-> ing.at[2], commit |-> ing.commit, kind |-> ing.kind,
                 breaking |-> ing.breaking, file |-> ing.at[1]])
    /\ ing' = [ing EXCEPT !.pc = "scan", !.todo = @ \ {ing.at}, !.at = NoSlot,
                          !.kind = Resting.kind, !.breaking = FALSE]
    /\ UNCHANGED <<entities, edges, sync_state, runs, done, interrupted>>

CommitIngested ==
    /\ ing.pc = "scan"
    /\ ing.todo = {}
    /\ done' = done \cup {ing.commit}
    /\ interrupted' = interrupted \ {ing.commit}

IngestNextCommit ==
    /\ CommitIngested
    /\ ing.commit < ing.hi
    /\ ing' = [ing EXCEPT !.commit = @ + 1, !.todo = Work(ing.commit + 1)]
    /\ UNCHANGED <<store, runs>>

IngestFinish ==
    /\ CommitIngested
    /\ ing.commit = ing.hi
    /\ ing' = Resting
    /\ UNCHANGED <<store, runs>>

\* The process dies: killed, or an exception of git, the LLM or a parser goes uncaught.
IngestCrash ==
    /\ Active
    /\ ing' = Resting
    /\ interrupted' = interrupted \cup {ing.commit}
    /\ UNCHANGED <<store, runs, done>>

IngestStep ==
    \/ \E s \in Slots : IngestEntity(s)
    \/ IngestBounds
    \/ IngestSummarize
    \/ IngestAppend
    \/ IngestNextCommit
    \/ IngestFinish
=================================================================================

-------------------------------- MODULE Operation -------------------------------
(* The loop as README and plan.md wire it.  Somebody sets orgctx up in a repository: *)
(* extract, then ingest of the whole history, each repeated until it exits without   *)
(* an error.  From the extract on, a post-commit hook ingests HEAD~1..HEAD, and a     *)
(* session of an agent starts with sync, whatever has been ingested by then.  Nothing *)
(* looks for what is missing: a hook or a session that is killed is not repeated.    *)
EXTENDS Delivery

CONSTANT MaxCrashes     \* bound on how many processes are killed

ASSUME OperationAssumption == MaxCrashes \in Nat

VARIABLES
    setup,      \* how far setting up is: the command to run next, or that runs
    hook,       \* TRUE: the hook of the last commit has not started its ingest
    crashes,    \* how many processes were killed
    behind,     \* observer: what was not ingested when the sync of a session read HEAD
    skipped     \* observer: <<service, commit>>, a sync that read HEAD before the commit
                \* was ingested has set the marker of the service

wiring == <<setup, hook, crashes>>
lag == <<behind, skipped>>
opVars == <<allVars, wiring, lag>>

OperationInit ==
    /\ DeliveryInit
    /\ setup = "extract"
    /\ hook = FALSE
    /\ crashes = 0
    /\ behind = [p \in Sessions |-> {}]
    /\ skipped = {}

-----------------------------------------------------------------------------
(* Setting up. *)

\* orgctx extract <repo>
SetupExtracts ==
    /\ setup = "extract"
    /\ HEAD # NoCommit
    /\ StartExtract
    /\ UNCHANGED <<history, ingVars, syncVars, wiring, lag>>

ExtractGoesOn ==
    /\ ExtractStep
    /\ setup' = IF ExtractFinish THEN "ingest" ELSE setup
    /\ UNCHANGED <<history, ingVars, syncVars, hook, crashes, lag>>

\* orgctx ingest <repo> HEAD
SetupIngests ==
    /\ setup = "ingest"
    /\ StartIngest(NoCommit, HEAD)
    /\ setup' = "ingesting"
    /\ UNCHANGED <<history, extVars, syncVars, hook, crashes, lag>>

IngestGoesOn ==
    /\ IngestStep
    /\ setup' = IF IngestFinish /\ setup = "ingesting" THEN "done" ELSE setup
    /\ UNCHANGED <<history, extVars, syncVars, hook, crashes, lag>>

-----------------------------------------------------------------------------
(* Working. *)

\* git runs the post-commit hook before it returns, so that the next commit is made after
\* the hook has resolved HEAD~1..HEAD.
CommitWithHook ==
    /\ ~hook
    /\ DeveloperCommits
    /\ hook' = (setup # "extract")
    /\ UNCHANGED <<syncVars, setup, crashes, lag>>

\* orgctx ingest <repo> HEAD~1..HEAD
HookIngests ==
    /\ hook
    /\ StartIngest(HEAD - 1, HEAD)
    /\ hook' = FALSE
    /\ UNCHANGED <<history, extVars, syncVars, setup, crashes, lag>>

\* orgctx sync <repo>, at the start of a session
SessionStarts(p, s) ==
    /\ BeginSync(p, s)
    /\ behind' = [behind EXCEPT ![p] = Commits \ done]
    /\ UNCHANGED <<history, ingVars, extVars, syncs, wiring, skipped>>

SyncGoesOn(p) ==
    /\ SyncStep(p)
    /\ IF SyncMark(p)
       THEN /\ skipped' = skipped \cup ({sync[p].service} \X behind[p])
            /\ behind' = [behind EXCEPT ![p] = {}]
       ELSE UNCHANGED lag
    /\ UNCHANGED <<history, ingVars, extVars, wiring>>

Killed ==
    /\ crashes < MaxCrashes
    /\ \/ /\ IngestCrash
          /\ setup' = IF setup = "ingesting" THEN "ingest" ELSE setup
          /\ UNCHANGED <<history, extVars, syncVars, behind>>
       \/ ExtractCrash /\ UNCHANGED <<history, ingVars, syncVars, setup, behind>>
       \/ \E p \in Sessions :
            /\ SyncCrash(p)
            /\ behind' = [behind EXCEPT ![p] = {}]
            /\ UNCHANGED <<history, ingVars, extVars, setup>>
    /\ crashes' = crashes + 1
    /\ UNCHANGED <<hook, skipped>>

OperationNext ==
    \/ SetupExtracts
    \/ ExtractGoesOn
    \/ SetupIngests
    \/ IngestGoesOn
    \/ CommitWithHook
    \/ HookIngests
    \/ \E p \in Sessions, s \in Services : SessionStarts(p, s)
    \/ \E p \in Sessions : SyncGoesOn(p)
    \/ Killed

\* A process that runs gets on; setting up is repeated until it is done; a hook is started;
\* and every service has another session some day.  Nothing makes developers commit or
\* processes die.
Fairness ==
    /\ WF_opVars(SetupExtracts)
    /\ WF_opVars(ExtractGoesOn)
    /\ WF_opVars(SetupIngests)
    /\ WF_opVars(IngestGoesOn)
    /\ WF_opVars(HookIngests)
    /\ \A s \in Services : SF_opVars(\E p \in Sessions : SessionStarts(p, s))
    /\ \A p \in Sessions : WF_opVars(SyncGoesOn(p))

OperationSpec == OperationInit /\ [][OperationNext]_opVars /\ Fairness

-----------------------------------------------------------------------------
(* Progress. *)

\* Once orgctx is set up, the only commits that no run goes through are those whose hook
\* was killed: the ones made before, and while, the history is ingested are ingested, too,
\* though setting up is killed half way and begun again (db.add_event: "re-ingesting a
\* commit range is safe").
Unrepaired(c) == setup = "done" /\ c \in interrupted
EveryCommitIngested ==
    \A c \in 1 .. MaxCommits : (c \in Commits) ~> (c \in done \/ Unrepaired(c))

\* Whatever commit c did to a contract that the manifest of service s has declared since the
\* extract, and that services are told of, some UPSTREAM.md has told.
Told(s, c) ==
    c \in Commits => \A change \in Changes(c) :
        (\A entry \in change : entry[2] \in SurfaceKinds /\ Declares(s, entry[1], extracted)) =>
            \E i \in delivered[s] :
                events[i].commit = c /\ <<events[i].entity, events[i].kind>> \in change

\* Every change of a contract that a service declares reaches the service, with two
\* exceptions that the wiring allows: the hook of the commit was killed, or a session
\* started before the commit was ingested and moved the marker past it.  Killed syncs, and
\* sessions that overwrite each other's marker, lose nothing (README: "The agent payload:
\* upstream contract changes that affect one service").
EveryChangeTold ==
    \A s \in Services, c \in 1 .. MaxCommits :
        (c \in Commits) ~> \/ c \in done /\ Told(s, c)
                           \/ Unrepaired(c)
                           \/ <<s, c>> \in skipped

\* When the commits stop, every marker comes to stand at HEAD and stays there: of two
\* sessions the one with the older head may move the marker back, but not for ever
\* (sync.py: the marker "only surfaces what changed since").
MarkersSettle == <>[](\A s \in Services : sync_state[s] = HEAD)
=================================================================================

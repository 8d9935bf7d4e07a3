-------------------------------- MODULE Delivery --------------------------------
(* The whole loop: developers commit, extract and ingest build the graph, and agent *)
(* sessions sync the services they work on.                                         *)
EXTENDS Timeline, Sync

CONSTANT SyncWhenIngested   \* TRUE: HEAD is ingested whenever a sync reads it

ASSUME DeliveryAssumption == SyncWhenIngested \in BOOLEAN

allVars == <<vars, syncVars>>

DeliveryInit == Init /\ SyncInit

RunSync(p, s) ==
    /\ SyncWhenIngested => Commits \subseteq done
    /\ StartSync(p, s)

SyncNext ==
    /\ \E p \in Sessions :
        \/ \E s \in Services : RunSync(p, s)
        \/ SyncStep(p)
        \/ SyncCrash(p)
    /\ UNCHANGED <<history, ingVars, extVars>>

DeliveryNext ==
    \/ Next /\ UNCHANGED syncVars
    \/ SyncNext

DeliverySpec == DeliveryInit /\ [][DeliveryNext]_allVars

-----------------------------------------------------------------------------
DeliveryTypeOK ==
    /\ TypeOK
    /\ sync \in [Sessions -> SyncProcess]
    /\ syncs \in Nat
    /\ delivered \in [Services -> SUBSET Nat]

\* The manifest of service s has declared entity e in every commit from c on.
Declares(s, e, c) == \E l \in Links : l[1] = s /\ l[2] = e /\ DeclaredSince(l, c)

Actionable(s) ==
    {i \in DOMAIN events :
        /\ events[i].kind \in SurfaceKinds
        /\ Declares(s, events[i].entity, events[i].commit)}

\* Whatever the marker of a service has left behind was shown to it: no change made at or
\* before its last_synced_commit, of a contract that its manifest has declared since, is
\* missing from every UPSTREAM.md, across crashed and concurrent syncs, re-ingests,
\* manifests that come late and HEAD moving while a sync runs (sync.py: the marker is
\* advanced "so a subsequent sync only surfaces what changed since").
NoMissedChange ==
    \A s \in Services : \A i \in Actionable(s) :
        events[i].commit <= sync_state[s] => i \in delivered[s]

-----------------------------------------------------------------------------
(* The loop as a feed of the timelines to the services. *)

\* What the services are to be told of commit c: _SURFACE_KINDS of the contracts that their
\* manifests have declared since.
Concerns(c) ==
    {x \in Services \X (Entities \X SurfaceKinds) : Declares(x[1], x[2][1], c)}

F == INSTANCE Feed WITH happened <- [c \in Commits |-> Changes(c)],
                        log <- LogOf(events),
                        closed <- done,
                        Settled <- ~RealLLM,
                        Readers <- Services,
                        matters <- [c \in Commits |-> Concerns(c)],
                        shown <- delivered,
                        cursor <- sync_state

\* With extract first and sync after ingest the loop implements at-least-once delivery:
\* every step of any of its processes appends to the log, closes a commit, shows a
\* service entries that are there, or sets the marker of one service to a commit whose
\* past is complete and was shown (README "Quick Start"; sync.py: the marker is advanced
\* "so a subsequent sync only surfaces what changed since").
ImplementsFeed == F!FeedSpec

\* From the commit to the consumer: whatever a commit up to a service's marker did to a
\* contract that the service's manifest has declared since, an UPSTREAM.md of the service
\* has told, though ingest, extract and sync all crash, overlap and repeat.
ConsumersCaughtUp == F!CaughtUp
=================================================================================

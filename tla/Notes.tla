---------------------------------- MODULE Notes ---------------------------------
(* orgctx render-notes: file every surfaced change of a window of commits under the  *)
(* services that consume the changed contract.  It only reads, one query at a time,  *)
(* while commits, extract and ingest go on.                                          *)
EXTENDS Timeline

VARIABLE notes      \* the render-notes process

\* since..head = the window, all of history when since is NoCommit; only = --service;
\* asked = entities still to go through; rows = rowids of the current entity still to be
\* filed; changelog = rowids; filed = <<service, rowid>>.  ready and seen observe the
\* start: the commit whose tree had been extracted, and how many events there were.
NoNotes == [pc |-> "idle", since |-> NoCommit, head |-> NoCommit, only |-> NoService,
            asked |-> {}, rows |-> {}, changelog |-> {}, filed |-> {},
            ready |-> NoCommit, seen |-> 0]

NotesInit == notes = NoNotes

\* _window: list_commits(repo, "since..HEAD")
StartNotes(since, only) ==
    /\ notes.pc = "idle"
    /\ notes' = [NoNotes EXCEPT !.pc = "entities", !.since = since, !.head = HEAD,
                                !.only = only, !.ready = extracted,
                                !.seen = Len(events)]

NotesEntities ==
    /\ notes.pc = "entities"
    /\ notes' = [notes EXCEPT !.pc = "events", !.asked = DOMAIN entities]

InNotesWindowWithSince(c) ==
    notes.since = NoCommit \/ (notes.since <= c /\ c <= notes.head)

InNotesWindow(c) ==
    notes.since = NoCommit \/ (notes.since < c /\ c <= notes.head)

\* events_for the next entity: what is surfaced and in the window enters the changelog.
NotesEvents(e) ==
    /\ notes.pc = "events"
    /\ notes.rows = {}
    /\ e \in notes.asked
    /\ LET rows == {i \in EventsFor(e) : /\ events[i].kind \in SurfaceKinds
                                         /\ InNotesWindow(events[i].commit)}
       IN  notes' = [notes EXCEPT !.asked = @ \ {e}, !.rows = rows,
                                  !.changelog = @ \cup rows]

\* inbound_edges, asked again for every event: who is to be told of it.
ConsumersOf(e) ==
    {l[1] : l \in {x \in InboundEdges(e) :
                        /\ x[1] # OwnerOf[e]
                        /\ notes.only = NoService \/ x[1] = notes.only}}

NotesFile(i) ==
    /\ notes.pc = "events"
    /\ i \in notes.rows
    /\ notes' = [notes EXCEPT !.rows = @ \ {i},
                              !.filed = @ \cup (ConsumersOf(events[i].entity) \X {i})]

NotesComplete == notes.pc = "events" /\ notes.asked = {} /\ notes.rows = {}

\* The notes are printed, and the process exits.
PrintNotes == NotesComplete /\ notes' = NoNotes

NotesStep ==
    \/ NotesEntities
    \/ \E e \in Entities : NotesEvents(e)
    \/ \E i \in DOMAIN events : NotesFile(i)
    \/ PrintNotes
=================================================================================

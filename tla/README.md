# A TLA+ model of orgctx

orgctx keeps, for an organisation's monorepo, a graph of *contracts* (routes, schemas,
exports, topics, config keys), a timeline of what each commit did to them, and the
consumers of each. It turns that graph into files that coding agents read. This
directory models its core: how the timelines are built, how breaking changes are
flagged, how changes are delivered to the services that consume a contract, what the
impact digests and the release notes say, and how a timeline is compacted to a bounded
summary.

## 1. Inventory

| component | code | state | operations |
| --- | --- | --- | --- |
| git access | `gitutil.py` | none (reads the repository) | `rev_parse`, `list_commits`, `changed_files`, `file_at_rev`, `parent_sha`, `changed_line_ranges` |
| entity extraction | `extract.py` | none until it writes the graph | `build_model_index`, `extract_entities`, `extract_edges`, `seed_manifest_edges`, `extract_org` |
| graph store | `db.py` | tables `entities`, `change_events`, `interface_edges`, `sync_state` | one method per read or write; each write commits before it returns |
| ingest | `ingest.py`, `llm.summarize_change` | position in a commit range | `ingest_range`, `_process_commit` |
| sync | `sync.py` | one process per call | `compute_upstream_entries`, `sync_service` |
| compaction | `compact.py`, `policy.*`, `llm.recompact` | one process per call, `entities.state_summary` | `compact_entity`, `_recompact`, `compact_all` |
| wiring | `plan.md` section 8, the README's quick start | which commands people and hooks run, and when | extract and ingest of the history once, post-commit hook, session start |
| impact | `impact.py` | one read-only process per call | `compute_impact` |
| release notes | `notes.py` | one read-only process per call | `compute_notes` |
| canonical ids | `ids.py` | none | `normalize_route`, `make_id`, `parse_id`, `slugify` |
| rendering, command line | `render.py`, `cli.py`, `args.py`, `__main__.py` | none | pure functions |
| evaluation, demo organisation | `eval/`, `dummy-org/` | none | offline metrics, sample data |

The commands are separate processes that share nothing but the SQLite file and the git
repository. Nothing locks across two database calls, so any two commands interleave
between calls, and each may die between any two of them: by a signal, or because a git
call, the LLM's reply or a parser raises (`gitutil._git` runs with `check=True`,
`llm._real_summarize` parses JSON without a guard). Nothing is rolled back and the
recovery is always the same: run the command again.

What is hard, therefore: half-processed commits and their re-ingestion; overlapping and
out-of-order ranges; extract re-registering entities and edges while ingest reads them; a
breaking guard that consults whatever edges exist at that moment; diffs that are per file
while ids are per service and signatures depend on other files; names that the producer
and the consumer spell differently; manifests that come and go with the commits, while the
edges they left in the graph stay; a sync marker advanced to git's HEAD while the
database may be behind it; digests read query by query from a graph that changes meanwhile;
a hook that dies and is not run again; a token cap applied to lines that must not be
lost. `PROJECT.json` lists these hazards at their lines.

What makes each part correct:

- **store**: origins are written once, rows are never deleted, edges only improve, events
  are keyed;
- **ingest**: a completed commit is completely on the timelines, nothing is there twice,
  nothing is there that did not happen, timelines are oldest first and replay to HEAD;
  a breaking flag is on a contract that something depends on, and with rule-based verdicts
  on a structural contract change;
- **extract with ingest**: if extract ran first, no structural contract change of a
  manifest-declared producer goes unflagged (the recall floor); every use in code is
  resolved to the contract it means, and to no other;
- **sync**: the marker of a service never passes a change that was not shown to it;
- **the loop as it is operated**: a commit is ingested unless its hook was killed, a change
  is told unless its commit was not ingested when the marker passed it, and the markers come
  to stand at HEAD;
- **impact, release notes**: they tell everybody who is coupled to a change of their diff or
  window, nobody who is not coupled even by a similar name, and of an entity its latest
  change;
- **ids**: two spellings of one route are one name, and of two routes two;
- **compaction**: breaking changes survive the cap when there is room for what must be
  kept, nothing is told twice, unconsumed churn leaves no trace, the cap is respected up to
  rounding.

## 2. Modules

| module | models | composes |
| --- | --- | --- |
| `Vocabulary` | the enumerations of `models.py` and the subsets `ingest` and `sync` single out | |
| `GitHistory` | a history of commits; trees as the shape each entity is declared with in each file; manifests; signatures, model index, changed files, touched regions | `Vocabulary` |
| `GraphStore` | the four tables and the methods that read and write them | `GitHistory` |
| `Routes` | `normalize_route` and the URL handling in front of it | |
| `ProducerIndex` | how a use in a consumer's code is resolved to a producer | `GraphStore`, `Routes` |
| `Ingest` | the ingest process, one step per database call, with crashes | `GraphStore` |
| `Extract` | the extract process: producers, manifests, code edges, with crashes | `ProducerIndex` |
| `ChangeLog` | abstract: an append-only log of what commits did | |
| `Timeline` | developers, extract and ingest together; the properties of the timelines; the refinement to `ChangeLog` | `Ingest`, `Extract`, `ChangeLog` |
| `Sync` | concurrent sync sessions, one step per read or write | `GraphStore` |
| `Feed` | abstract: at-least-once delivery of a change log | `ChangeLog` |
| `Delivery` | the whole loop; the property of delivery; the refinement to `Feed` | `Timeline`, `Sync`, `Feed` |
| `Operation` | the loop as the plan wires it, with fairness | `Delivery` |
| `Impact`, `Notes` | the two read-only commands, one step per query | `Timeline` |
| `Digest` | both beside commits, extract and ingest; the properties of digests | `Impact`, `Notes` |
| `Compact` | compaction of one entity with its timeline growing underneath | `Vocabulary` |
| `TimelineProofs` | the inductive invariant of `Timeline` and what follows from it | `Timeline` |
| `NumberLemmas` | the smallest and the largest element of a set of numbers | |
| `HistoryProofs` | what holds of timelines when the commands are run as documented; replay and bounds | `TimelineProofs`, `NumberLemmas` |
| `ResolutionProofs` | names of routes, and the edges found in code | `TimelineProofs`, `NumberLemmas` |
| `DeliveryProofs` | no change is missed | `Delivery`, `HistoryProofs` |
| `RefinementProofs` | the two refinements | `DeliveryProofs` |
| `DigestProofs` | the theorems about digests | `Digest`, `HistoryProofs`, `ResolutionProofs` |
| `CompactProofs` | the inductive invariant of `Compact` and what follows from it | `Compact`, `NumberLemmas` |
| `MCTimeline`, `MCDelivery`, `MCOperation`, `MCDigest` | small organisations for TLC | `Timeline`, `Delivery`, `Operation`, `Digest` |

How the state corresponds to the code:

- A **commit** is its position in the history and `0` is "no commit": the missing parent of
  the root and SQL's NULL. A **slot** is a file and an entity that the file may declare; an
  entity's id carries its service and a service is a directory, so `FilesOf` bounds where it
  can be declared. A tree maps slots to a *shape* or `Absent`. A file that does not parse has
  an empty entity table and is a file with nothing declared. A commit records its tree, the
  files git lists as changed (at least those with a difference), the unchanged
  declarations whose line region it touched, and the links that the manifests of its tree
  declare, one of `ManifestSets` (`ManifestsAt`). `DeclaredSince(l, c)` says that every commit
  from `c` to HEAD declares link `l`; the properties use it where they speak of what a manifest
  declares. A **signature** is the shape and, for a route,
  the shape of the response model that the model index picks: the last in path order for
  ingest (`ls-tree`), any one for extract (`rglob`).
- **Tables** are functions from their primary keys to rows; `change_events` is a sequence,
  because readers depend on rowid order. `UpsertEntity`, `SetCommitBounds`, `AddEvent`,
  `UpsertEdge` and `SetLastSynced` are the SQL statements with their COALESCE, CASE and
  conflict clauses. `OutboundEdges` is a `LIKE` with the service's name as the pattern:
  `NamesLike` gives the services whose names match that of each, itself among them. The
  columns author, timestamp, summary, diff_ref and line numbers are not told apart.
- `ing` is the position of `_process_commit`: `scan` (top of the loop over entities),
  `bounds` (after `upsert_entity`), `summarize` (after `set_commit_bounds`), `append` (after
  the verdict and the breaking guard). Files are processed in path order, entities of a file
  in any order because the code iterates a set. `Work(c)` are the passes through the loop
  body. `RealLLM` chooses between the rule-based verdicts and a model that answers any
  kind.
- `ext` is the position of `extract_org`: `producers`, `manifests`, `code`. Sources are
  read once, at the start; each service's manifest is read when its turn comes, from the
  working tree as it is by then (`ReadManifest`); the producer index is built when code
  resolution begins. `ext.at` observes which commit was checked out at the start, and
  `extracted` which one that was for the last run that completed. An
  edge is identified by consumer service, producer and edge kind: the consumer-side pseudo
  id only adds the local name of the producer.
- A **use** is a call, an import or a subscription in a file of a consumer, with the name it
  is written with. The names of calls and routes are a method and a path, and a path is the
  sequence of its segments as `split("/")` gives them; `Parameters` are the segments that
  stand for any value, `Words` the other ones with something in them, `Runtime` an
  interpolated part of an f-string, `Spellings` the paths that `SpellingsFindRoute` looks
  up. Two paths are the same route (`SameRoute`) when the parts written in them match one to
  one in order. `IdRank` is the order in which `all_entities` lists the ids, on which the
  index's choice between two producers of one name depends.
- `sync[p]` is the position of `sync_service`: HEAD, marker, log (against HEAD *as it is by
  then*), edges, events edge by edge, file, marker.
- `impact` is the position of `compute_impact`: `edges` (the diff's files are known, the
  entities defined in them found), `outbound`, `upstream` (my dependencies, one by one),
  `downstream` (the entities I own, and the consumers of each, one by one). `notes` is that
  of `compute_notes`: `entities`, `events` (`events_for` of each entity, and `inbound_edges`
  again for every event).
- `setup` is how far setting up is: `extract`, `ingest` (of the whole history), `ingesting`,
  `done`; a command of it that dies is run again. `hook` is TRUE when the hook of the last
  commit has not started its ingest. `crashes` counts the processes killed. A session syncs
  whatever has been ingested (`SessionStarts`); `behind` observes which commits were not
  when it read HEAD, and `skipped` for which of them it has then set the marker.
- In `Compact` a line is the set of events it tells about and its length in characters, with
  the real lengths of the fixed parts; tokens are counted as `count_tokens` does without
  tiktoken (`length \div 4`, one at least).

Observers record what happened and are read by no action except the discipline guards
below: `done`, `interrupted`, `extracted`, `delivered`, `basis`, `behind`, `skipped`, the field
`at` of `ext`, and the fields `ready`, `diff` and `seen` of the digests. `Operation` has no
discipline guards: there no action depends on an observer.

**The abstract specifications.** `ChangeLog` has a history of commits, each with the set of
changes it made, a log and the set of closed commits; a change is the set of entries that
record it faithfully, since a model may call one change by several kinds. It is
implemented with `happened` as `Changes(c)`, `log` as `LogOf(events)`, `closed` as `done` and
`Settled` as `~RealLLM`: with rule-based verdicts nothing is added about a closed commit.
`Feed` adds readers with a cursor and what each was ever shown. It is implemented with the
services as readers, `cursor` as `sync_state` and `shown` as `delivered`; what `matters` of a
commit to a service are the surfaced changes of the contracts that its manifest has declared
in that commit and all later ones, which can only become less.

**Discipline constants.** Some guarantees need the commands to be used as documented. Each
such condition is a constant that guards the *start* of a command and nothing else:
`ExtractFirst` (the note in `ingest.py:25`: a commit is ingested after an extract of its
tree or a later one has completed, and no digest is computed before a first extract has),
`InOrder` (a range never starts beyond what is ingested), `SyncWhenIngested` (HEAD is
ingested when a sync reads it). Without the first, a contract change may be recorded as not
breaking, and the UNIQUE key keeps it so; section 5 says what happens without the others.

## 3. Runs

| run | instance | checks |
| --- | --- | --- |
| `timeline` | a route of payments and the model it returns in contracts, two shapes, 3 commits, 2 ingests, rule-based verdicts, ranges in order | `CompletedCommitsRecorded`, `EventsExact`, `TimelineOldestFirst`, `BoundsBookendTimeline`, `ReplayGivesHead` |
| `floor` | a route with a parameter, called by orders and by payments itself, two shapes, manifests that declare it or not, 2 commits, 2 ingests of any range, 2 extracts, rule-based verdicts, extract first | `TypeOK`, `ManifestFloorFlagsBreaks`, `BreakingSound`, `BoundsBookendTimeline`, `CodeEdgesAreUses`, `EdgesOnlyImprove`, `CodeUsesResolved`, `SpellingsFindRoute` |
| `race` | the same route called by payments only, one shape, 2 commits, 2 ingests, one extract, in any order, arbitrary verdicts | `CompletedCommitsRecorded`, `EventsExact`, `BreakingSound`, `OriginWriteOnce` |
| `delivery` | a route of payments that the manifest of orders declares or not, 2 commits, 2 ingests, 2 extracts, 2 sessions, 2 syncs | `DeliveryTypeOK`, `NoMissedChange`, `ConsumersCaughtUp`, `ImplementsFeed` |
| `operated` | the same organisation, with a manifest that always declares the route, operated: 2 commits, one session at a time, one process killed at any point | `EveryCommitIngested`, `EveryChangeTold`, `ImplementsChangeLog` |
| `markers` | two services, two concurrent sessions, 2 commits, one session killed at any point; nothing is extracted or ingested | `MarkersSettle` |
| `digest` | a route of web_pay with a parameter, declared by the manifest of web-pay, called by both, two shapes, 3 commits, one ingest, one extract, one digest of any diff, service or window | `ImpactSpeaks`, `ImpactSilent`, `ImpactTellsLatest`, `NotesExact` |
| `compact` | timelines of up to 4 events of all kinds, cap 30 (two lines) | `TypeOK`, `BreakingKeptWhenRoom`, `SummaryTellsTimeline`, `SummaryNearCap`, `ChurnLeavesNoTrace`, `ContractFactsPersist` |
| `schema_only`, `sync_ahead`, `overflow`, `wildcard` | smallest instances that show a disagreement | one property each, violated (section 5) |

Why the bounds are enough for the question asked. Two shapes make "same" and "different"
signatures; three commits allow add, change and remove, and a removal with re-addition; two
ingests allow a crash with a retry and two overlapping ranges; two extracts allow a crash
and a re-read of the manifests over code edges, an extract beside an ingest, and an extract
of an older tree followed by one of a newer tree; two commits with the manifest declared or
not in each give a contract that is declared from the start, later, no longer or never. In
`race` nothing forces the extract to come first, so that the guard is consulted before,
while and after the first consumer appears. In `floor` and `digest` one consumer writes the
parameter in another way and with a trailing slash, and the other is the route's own
service, whose calls must not become edges. In `delivery` two syncs are enough for a marker
to be overwritten by a session that started earlier, or to be left behind and used by the
next sync. The manifests vary in `floor`, `race`, `delivery` and `sync_ahead`, and are the
same in every commit in `operated`, `markers` and `digest`, where the question is another
one (the theorems of section 4 hold for manifests that vary). In `digest` one digest is
enough because digests write nothing; it starts at any moment, and commits, extract and
ingest go on between its queries. In `floor`, `SpellingsFindRoute` looks up all `Spellings`
whenever the index is built: every path of up to four segments that has no inner double
slash; four segments are the leading one, a word, a parameter and a trailing slash. In
`compact` four events include a first line, a last line, two breaking ones and a fold, and
the cap of 30 tokens holds two lines, so that truncation, the de-duplication and an overflow
of the must-keep lines all occur. The bounds themselves are `MaxCommits`, `MaxRuns`,
`MaxExtracts`, `MaxSyncs`, `MaxDigests`, `MaxCrashes` and `MaxEvents`; each is a guard of
the action that starts or appends something, and the systems stop when they are reached,
which is why deadlock is not checked in the graph's runs. A compaction can always be
repeated, so `compact` has no deadlock. Shapes and sessions are symmetric; `operated` and
`markers` check liveness and use no symmetry.

**Fairness.** Only `Operation` states any. Weak fairness of a command's steps
(`IngestGoesOn`, `ExtractGoesOn`, `SyncGoesOn` of each session): a process that runs and is
not killed gets on, since no step waits for another process. Weak fairness of
`SetupExtracts` and `SetupIngests`: whoever sets orgctx up by the quick start repeats
`extract` and then `ingest <repo> HEAD` until each has exited without an error, which the
process tells. Weak fairness of `HookIngests`: git runs the post-commit hook that the plan
installs; it is installed from the first extract on, before the history is ingested, so
that no commit falls between the two. Strong fairness of a session of each service: agents
start working on every service again and again, and each session runs `sync`; weak fairness
would let the sessions of one service take all the agents there are.

No fairness and no guard depends on what has been ingested. Nothing looks for what is
missing, so the hole that a killed hook leaves stays, and a session that starts before the
hook has finished moves its marker past a commit that is ingested later. `EveryCommitIngested`
and `EveryChangeTold` say that this is all that is lost: their exceptions are a commit whose
hook was killed (`Unrepaired`: `interrupted`, with setting up done, and not repaired by any
later run) and a marker set by a session that read HEAD before the commit was ingested
(`skipped`). A killed setup, a killed sync and markers that sessions overwrite lose nothing.
Both exceptions do occur in `operated`; `sync_ahead` shows the second.

Nothing forces a commit, and nothing forces or limits when a process is killed but
`MaxCrashes`. `MaxRuns` and `MaxExtracts` are so large in `operated` that with two commits
and one crash they are never what stops a command from being started; otherwise the
bounds, not the code, would decide what is eventually done. The number of sessions that
`Operation` starts is not bounded (`MaxSyncs` bounds those of `Delivery`). In `markers`
nothing is ingested (`MaxRuns` is 0): where the markers stand depends on HEAD alone, and
every session is one that starts before HEAD is ingested.

## 4. Proofs

The eight proof modules are checked by TLAPS for every repository, every set of entities,
files, links, uses and services and every bound, and every compaction policy and cap. Every
property of a passing run is stated by a theorem, except the three of liveness. What is
assumed of the constants is types (`GitAssumption`, `StoreAssumption`, `IngestAssumption`,
`TimelineAssumption`, `SyncAssumption`, `DeliveryAssumption`, `DigestAssumption`,
`CompactAssumption`), and that

- the placeholder is itself a parameter, the empty segment is neither a parameter nor a
  word, and an interpolated part is none of these (`RoutesAssumption`);
- manifests name links that may exist, and a service's name matches itself as a pattern
  (`StoreAssumption`: `Links` bounds the edges table);
- every entity has an owner, a name and a place in the order of ids, the names of routes
  and calls are a method and a path, and the paths looked up have no doubled slash but at the
  end (`IndexAssumption`);
- the link from a use to another service's contract of a kind it can use may exist
  (`ExtractAssumption`).

A theorem that needs more says so in its statement.

**Timelines.**

- `Inductive`: `IInv` is an invariant. The properties are not inductive as they stand:
  that a commit is completely recorded when ingest leaves it follows from what the loop
  knows while it is on it. `LoopInv` says it: everything the loop has gone through is on the
  timeline, what is left and where it stands belong to the commit's work, and a breaking
  flag waiting to be appended has been earned. `EventsOfHistory` says that events are about
  commits that exist, so that what they claim stays the same when history grows.
  TLC checked `IInv` on the instances of `timeline` and `floor` before it was proved.
- From it `Typed`, `Complete`, `Exact`.
- `OriginKept` and `EdgesImprove` are action properties over the store's methods.
- `RecallFloor`: a manifest is read from the working tree when its service's turn comes, and
  what it declares may change before the next commit is ingested, so what the graph owes is
  what has been declared *since* the commit whose tree was extracted. `SeedInv` says that a
  link declared in every commit since then is in the graph, is on the running extract's list,
  or is in a manifest it has still to read; `FlagInv` that with extract first the flag taken
  by the guard already reflects such links; `EventFloor` that the flags on the timelines do.
  A new commit only makes less of what is declared since an old one (`DeclaredStep`). Edges
  are never deleted, so nothing is lost between the guard and the append. With rule-based
  verdicts the recorded kind is the structural one (`EventsExact`), and
  `CompletedCommitsRecorded` gives the event.
- `OldestFirst`, for ranges in order and rule-based verdicts: whatever an event or the loop
  is about, all earlier commits are ingested (`OrderInv`). If an event of a later commit
  were already on a timeline, this commit would be completed, hence recorded, and the
  insert would do nothing.

**Delivery.**

- `NoMissed`, for extract first, rule-based verdicts and HEAD ingested when a sync starts:
  the invariant `DInv` follows a session (`SessionInv`). Everything up to the HEAD it read
  is ingested; everything up to the marker it read was delivered; the log it reads reaches
  at least to that HEAD, because history only grows; and for each edge declared since a
  commit of the window, either it is still to be gone through or all events of its producer
  up to that HEAD are found or were delivered. Two facts about the other processes make it
  stable: with rule-based verdicts nothing is appended any more about an ingested commit
  (`IngestedFixed`, from `CompletedCommitsRecorded`), and every event has its entity's row
  (`RowsExist`), so that sync never skips a producer that has events. The marker itself may
  move back, when a session that started earlier finishes later: `MarkerInv` only needs what
  is behind it.

**History and refinement.**

- `Replayable`: with everything ingested by rule-based verdicts, the last event of an entity
  with one file, in commit order, tells whether HEAD declares it, whatever the order of the
  ingests. `DiffListed` says that what differs between a commit and its parent is in a file
  git lists, so a commit where a declaration appears or disappears has that as its work
  (`FlipIsWork`), hence an event by `CompletedCommitsRecorded`. After the commit of the last
  event nothing flips, and so the tree at HEAD agrees with it (`SameUntilFlip`: otherwise
  there would be a first commit where it does not). By `EventsExact` the event says what its
  commit did. `Smallest` and `Largest` (`NumberLemmas`) replace induction by the
  well-foundedness of `<`.
- `Bookends`: a bound of a row is a commit that did something to the entity and is ingested,
  was interrupted, or is being ingested (`Backed`); a row has both bounds before it gets its
  first event (`Bounded`), although extract upserts rows without any; with ranges in order
  no earlier commit did anything to the entity. `BoundsAtRest` then gives the property when
  no ingest runs and nothing was interrupted.
- `LogImplemented`: every step of `Timeline` is a step of `ChangeLog` under the mapping of
  section 2, or leaves the log alone. A commit is `Happen` because what older commits did
  does not change; the append is `Record` because the loop is about a change of its commit
  (`LoopInv`) and the UNIQUE key excludes what is there; leaving a commit is `Close` because
  everything it did has been gone through.
- `FeedImplemented`, under the same discipline as `NoMissed`: writing UPSTREAM.md is `Show`,
  which needs `ShownExist`, and setting the marker is `Advance`, which needs `SessionInv`.
  `CaughtUpAlways` joins the two ends: from `CompletedCommitsRecorded` and `NoMissedChange`,
  what a commit up to a marker did was told. `DeliveryTyped` is the type invariant.

**Names and code edges.**

- `RoutesAgree`: two well-formed paths get the same name exactly if they are the same route,
  and a name is its own name. Normalising moves the parts of a path all by the same distance,
  and never changes one but from a parameter to the placeholder (`ShiftedBy`,
  `NormalizeKeepsWritten`). That a common name means a common route (`SameNameSameRoute`)
  follows for every path. The converse is about order: in two normalised well-formed paths
  the parts stand one after the other from the second place on, and a matching of such
  places that is onto and increasing leaves each where it is (`MatchingInOrder`). With a
  doubled slash the converse is false: `/v1//charge` has the parts of `/v1/charge` and another
  name.
- `CodeEdgesSound`: `Located` says that an edge with a location is a use by that file of a
  contract of another service, and so is every one that extract has found and not written
  yet; `upsert_edge` never gives an edge a location from elsewhere.
- `CodeUsesFound`: `Registered` says that what the tree declares is in the graph when the
  producers are indexed, `Linked` that each use of it, if it can mean no other entity, has
  its edge or is still to be written. Nothing takes an edge or its location away
  (`EdgesBetter`).
- Both have the hypothesis `CallsSpelledOut`: no call interpolates a value into the middle of
  its path. It is needed, because the extractor drops what is interpolated: the call
  `f"{base}/v1/{x}/charge"` is looked up as `/v1//charge`, which is not what the code
  means. `CodeUsesFound` also needs well-formed paths (`RoutesWellFormed`), as `RoutesAgree`
  does.
- `Sound`, with `CallsSpelledOut`: `Declared` says that an edge without a location, and every
  link that extract has read from a manifest, is declared by some commit; an edge with one is
  a use (`Located`). A flagged event has an edge to its entity (`FlagsBacked`), hence
  something depends on it, whatever kind the model answered. With rule-based verdicts the
  kind is the structural one, so the commit changed the contract or removed it.
- `SpellingsFound`, for declared routes that are well formed, is `RoutesAgree` at the moment
  the index is built.

TLC checked `Located`, `Registered` and `Linked` on the instance of `floor`, where the
hypotheses hold, before they were proved.

**Digests.**

- The digests rest on `GraphInv`, which holds whatever the readers do because they only read
  (`ReadersOnlyRead`), and on `GraphStep`: no step forgets an event, an edge, an ingested
  commit or what a commit did. `TellsLatest` follows from `TimelineOldestFirst`. `Speaks` is
  inductive through `SpeakInv`: what is not told yet is still to be gone through; it holds
  at the start of a digest because the diff is ingested and what the manifests have declared
  since the extracted commit is seeded. `RowsInPlace` is needed for the first query, which
  finds entities by `def_file`. `NotesFiled` is `FiledCompletely`, the same argument for the
  notes, and `FiledSoundly`.
- `Silent`, with `CallsSpelledOut`: what a digest has touched is declared in a file of the
  diff or used by one (`SilentInv`), the second because the code edges it follows are located
  where they are used (`Located`, which the readers leave alone); the entries made of it are
  of the consumers whose names match the service's upstream, and of the consumers of its
  own contracts downstream. TLC checked `SilentInv` on the instance of `digest`.

**Compaction.** All of `Compact`'s properties follow from one inductive invariant, which says
that the stored summary is what compacting the events it was built from gives, and that no
compaction goes back to fewer events or loses a consumer (`SummaryIsCompacted`,
`NothingUnread`; TLC checked it on the instance of `compact`). The rest is about the
operators, for every list of events, policy and cap: the lines are listed in order of their
events (`InOrder`), de-duplication keeps the first of each and loses none, and a sum of
lengths is the number of places that the lines take up, which is shown of the recursion
that defines it by a smallest counterexample in place of an induction.

- `SummaryExact`, `CapAlmostKept` and `ContractFactsNeverLost` hold for every policy. For the
  cap, a sum of quarters rounded down is short of the quarter of the sum by less than one a
  line.
- `BreakingChangesKept` assumes that the policy lists `unresolved_breaking` among what is kept
  on overflow, `ChurnInvisible` that it neither promotes nor folds internal changes.
  Both hold of the shipped `policy.yaml`, and with another policy neither property is
  meant.

Only model-checked: the liveness properties `EveryCommitIngested`, `EveryChangeTold` and
`MarkersSettle`, because fairness is ENABLED, which is out of the prover's reach; and, of
course, the four violations of section 5.

## 5. Where code and documents disagree

- **A schema-only commit misses the route** (`schema_only`). Signatures embed response
  models from other files, but only changed files are diffed. A rename in
  `contracts/schemas.py` alone records the field and the model, not the routes.
- **Sync before ingest loses changes** (`sync_ahead`). The marker goes to git's HEAD, not to
  the last ingested commit.
- **The cap can drop a breaking change** (`overflow`), when the lines that must be kept do
  not fit; and a summary can be over the cap by up to a token a line, because the lines'
  costs are rounded down one by one.
- **A similar name is a dependency** (`wildcard`). The edges of a service are selected by
  `LIKE 'service::%'` with the name unescaped, so `web_pay` is told upstream, by `impact` and
  by `sync`, of what only `web-pay` depends on.

The model has these, too, but no run of their own:

- **A move is a removal.** Ids are per service, diffs per file: a declaration that moves to
  another file of its service is recorded as `removed` and `added`, and as breaking when it is
  consumed, although `models.py:62` calls REMOVED "entity deleted this commit".
- **rowid order is not commit order after an older range is ingested later**, although
  `events_for` says "oldest first" (`db.py:196`) and `impact` and `compact` rely on it:
  `TimelineOldestFirst` is claimed for ranges in order (`InOrder`) and fails without.
- **A model can change a structural verdict.** The docstring of `summarize_change` says that
  only MODIFIED may be refined and that "structural ADD/REMOVE/SIG are already certain"
  (`llm.py:77-79`); the code takes any kind the model names (`llm.py:191`) and decides about
  the flag by it (`ingest.py:154`). A removal that the model calls `modified` is not flagged
  (the prompt does not even offer `removed`), and an internal change that it calls
  `signature_change` is. With a model, `ManifestFloorFlagsBreaks` is therefore not claimed,
  and of `BreakingSound` only that something depends on the contract.

Smaller disagreements lie outside what the model tells apart:

- The manifests are the floor for what code does not show, and the README offers them for
  repositories that are not Python; but only directories with a `*.py` file are looked at
  (`extract.py:655`), so the manifest of a service without one is never read.
- `normalize_route` promises "exactly one leading slash" and only adds a missing one: `//v1`
  keeps two. It promises never to strip the root, and gives an empty path for `//`. It
  promises to collapse whitespace and only strips the ends (`ids.py`). `SpellingsFindRoute`
  is therefore stated for paths without an inner double slash and with something in them.
- `sync` ranks by timestamps compared as text because "ISO-8601 timestamps sort
  lexicographically"; git's carry UTC offsets, and of two zones they do not.

Two weaker things are true by design and are stated in the properties rather than as
findings: after a re-ingest of an old commit `latest_commit` points to it (a commit of the
timeline, not the newest one), and with a real model a retry may record one change under
two kinds.

## 6. What is not modelled

- **Merge commits and rewritten history.** `GitHistory` is linear and only grows. With
  merges, `git log` orders by date, `diff-tree sha^!` excludes every parent and the diff is
  taken against the first; positions would have to become a graph with a parent relation,
  in every module and proof. A rewritten history makes the marker's commit disappear, and
  the code neither notices nor repairs it: each later sync dies at its git call.
- **Two ingests at once.** The code takes no lock (`ingest.py:174-178`), so a hook can start
  while another ingest runs; the model starts one when none is active (`StartIngest`). Every
  statement an ingest makes is the same whatever another one has done, but two of them could
  pass the upsert, the bounds and the append of one entity in turns, and the bounds would then
  be those of the one that came last; a second process in `Ingest` would be an index on `ing`,
  in every module and proof.
- **Service directories without a Python file**: every service in the model has one.
- **Recognition of contracts in Python syntax** (`extract.py`'s visitors): which routes,
  models, keys, topics and calls a file has is given by shapes and uses. What is kept is
  everything that happens with them.
- **Same-named models of different services** in the model index. Two declarations in files
  of one service are modelled; so are two producers of one name in the producer index.
- **Ranking and text** of UPSTREAM.md, OWNED.md, digests and notes: they decide the order of
  lines, not which there are.
- **Two compactions of one entity at a time**, `compact_all`'s loop and the markdown files of
  entities. A later compaction reads everything again, so a summary stored from an older
  timeline is replaced by the next one. `slugify` is lossy and only names those files.
- **A model's own recompaction and tiktoken's counts**: an external model can answer
  anything, and the count is that of the installation without tiktoken.
- **`make_id`, `parse_id`** build and split the tuples that the modules use as they are.
- **The command line** parses arguments and dispatches; it keeps no state of the graph.
- **Rendering, the evaluation harness and the demo organisation** are not part of the
  system's behaviour.

What would extend the project furthest are a branching `GitHistory`, two ingests at once and
two compactors in `Compact`.

------------------------------- MODULE GitHistory -------------------------------
(* The organisation's git repository as orgctx reads it: a linear history of        *)
(* commits, what gitutil reports about each of them, and the entity tables that     *)
(* extract.extract_entities computes from a file at a revision.                     *)
(*                                                                                  *)
(* A tree is abstracted to the shape with which each entity is declared in each     *)
(* file, and to what the manifest.yaml of its services declare.  An entity's id     *)
(* carries its service, and a service is a directory, so an entity can only be      *)
(* declared in the files of its service.  Files are numbers in the order of their   *)
(* paths.  A commit is named by its position in the history; 0 stands for the       *)
(* missing parent of the root and for SQL's NULL.                                   *)
EXTENDS Naturals, Sequences, FiniteSets, Vocabulary

CONSTANTS
    Entities,       \* entity ids
    NoEntity,       \* not an entity
    Files,          \* *.py files, numbered in path order
    KindOf,         \* the Kind each entity id is tagged with
    FilesOf,        \* the files that may declare each entity
    ModelOf,        \* the response model of a route, NoEntity for the others
    Shapes,         \* what can be told apart in a declaration
    Absent,         \* no declaration
    ManifestSets,   \* the sets of links that the manifests of a tree may declare
    MaxCommits      \* bound on the length of the history

ASSUME GitAssumption ==
    /\ NoEntity \notin Entities
    /\ Absent \notin Shapes
    /\ Files \subseteq Nat \ {0}
    /\ KindOf \in [Entities -> Kinds]
    /\ FilesOf \in [Entities -> SUBSET Files]
    /\ ModelOf \in [Entities -> Entities \cup {NoEntity}]
    /\ MaxCommits \in Nat

VARIABLE history    \* the commits reachable from HEAD, oldest first

NoCommit == 0
Commits == 1 .. Len(history)
HEAD == Len(history)                                  \* rev_parse(repo, "HEAD")

Slots == {s \in Files \X Entities : s[1] \in FilesOf[s[2]]}
Trees == [Slots -> Shapes \cup {Absent}]
EmptyTree == [s \in Slots |-> Absent]

CommitRecord == [tree : Trees, changed : SUBSET Files, touched : SUBSET Slots,
                 manifests : ManifestSets]

GitTypeOK == history \in Seq(CommitRecord)

\* parent_sha and file_at_rev: a commit's tree, and the empty one before the root.
TreeAt(c) == IF c = NoCommit THEN EmptyTree ELSE history[c].tree
ParentTree(c) == TreeAt(c - 1)

\* What the manifests of a commit's tree declare.
ManifestsAt(c) == IF c = NoCommit THEN {} ELSE history[c].manifests

\* Every commit from c to HEAD declares link l in a manifest.
DeclaredSince(l, c) == \A d \in c .. HEAD : l \in ManifestsAt(d)

\* The files whose declaration of model m the model index of tree t ends up with:
\* build_model_index goes through the files in path order and the last one wins.
Declaring(t, m) == {f \in Files : <<f, m>> \in Slots /\ t[<<f, m>>] # Absent}
LastDeclaring(t, m) == {f \in Declaring(t, m) : \A g \in Declaring(t, m) : g <= f}

\* A signature is the shape of the declaration and, for a route, the fields of its
\* response model as the model index resolves them ({} when it has none).
Signatures == [shape : Shapes \cup {Absent}, fields : SUBSET (Shapes \cup {Absent})]
SignatureWith(t, f, e, winners) ==
    [shape |-> t[<<f, e>>], fields |-> {t[<<g, ModelOf[e]>>] : g \in winners}]
SignatureAt(t, f, e) == SignatureWith(t, f, e, LastDeclaring(t, ModelOf[e]))

\* One commit.  Git lists at least the files whose declarations differ; it lists more
\* when an edit changes nothing that is extracted.  touched is where a changed line
\* range overlaps the region of an entity whose declaration is the same as before.
DiffersIn(t, u) == {s[1] : s \in {x \in Slots : t[x] # u[x]}}
Untouched(t, u, changed) ==
    {s \in Slots : s[1] \in changed /\ t[s] = u[s] /\ u[s] # Absent}

Commit(t, changed, touched, manifests) ==
    /\ Len(history) < MaxCommits
    /\ changed # {} \/ manifests # ManifestsAt(HEAD)
    /\ DiffersIn(TreeAt(HEAD), t) \subseteq changed
    /\ touched \subseteq Untouched(TreeAt(HEAD), t, changed)
    /\ history' = Append(history, [tree |-> t, changed |-> changed, touched |-> touched,
                                   manifests |-> manifests])

GitInit == history = <<>>
GitNext ==
    \E t \in Trees, changed \in SUBSET Files, manifests \in ManifestSets :
        \E touched \in SUBSET Untouched(TreeAt(HEAD), t, changed) :
            Commit(t, changed, touched, manifests)
=================================================================================

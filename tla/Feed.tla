----------------------------------- MODULE Feed ----------------------------------
(* What the whole loop promises to the readers of a change log: at-least-once       *)
(* delivery.  Readers are shown entries of the log, as many times as one likes; a   *)
(* reader's cursor only comes to stand on a commit when everything up to it is      *)
(* closed and all that matters to the reader in there was shown.  A cursor may move *)
(* back: then things are shown again.  What matters is settled when a commit        *)
(* happens, except that later commits may make less of it matter.                   *)
EXTENDS ChangeLog

CONSTANT Readers

VARIABLES
    matters,        \* for each commit, the pairs <<reader, entry>>: the reader has to know
    shown,          \* for each reader, the positions in the log it was ever shown
    cursor          \* for each reader, the commit it is told to have caught up with

feedVars == <<logVars, matters, shown, cursor>>

FeedInit ==
    /\ LogInit
    /\ matters = << >>
    /\ shown = [r \in Readers |-> {}]
    /\ cursor = [r \in Readers |-> 0]

Show(r) ==
    /\ shown[r] \subseteq shown'[r]
    /\ shown'[r] \subseteq DOMAIN log
    /\ \A other \in Readers \ {r} : shown'[other] = shown[other]
    /\ DOMAIN shown' = Readers
    /\ UNCHANGED <<logVars, matters, cursor>>

Advance(r, c) ==
    /\ 1 .. c \subseteq closed
    /\ \A i \in DOMAIN log :
        /\ log[i].commit <= c
        /\ <<r, log[i].entry>> \in matters[log[i].commit]
        => i \in shown[r]
    /\ cursor' = [cursor EXCEPT ![r] = c]
    /\ UNCHANGED <<logVars, matters, shown>>

Concern ==
    /\ DOMAIN matters' = DOMAIN happened'
    /\ \A c \in DOMAIN matters : matters'[c] \subseteq matters[c]
    /\ UNCHANGED happened => UNCHANGED matters

FeedNext ==
    \/ LogNext /\ Concern /\ UNCHANGED <<shown, cursor>>
    \/ \E r \in Readers :
        \/ Show(r)
        \/ \E c \in 0 .. Len(happened) : Advance(r, c)

FeedSpec == FeedInit /\ [][FeedNext]_feedVars

-----------------------------------------------------------------------------
(* The point of it. *)

\* Whatever a commit up to the reader's cursor did, and whichever way it was recorded,
\* the reader was shown, when all ways of recording a change matter to the reader.
CaughtUp ==
    \A r \in Readers : \A c \in 1 .. cursor[r] : \A change \in happened[c] :
        (\A entry \in change : <<r, entry>> \in matters[c]) =>
            \E i \in shown[r] : log[i].commit = c /\ log[i].entry \in change
=================================================================================

-------------------------------- MODULE ChangeLog -------------------------------
(* What the timelines of a graph promise, whatever builds them: an append-only log  *)
(* of the changes that commits made.  Commits keep happening; what one did can be   *)
(* recorded once, at any later time and in any order; a commit is closed only when  *)
(* all it did is in the log.                                                        *)
(*                                                                                  *)
(* A change is a set of entries: the ways of recording it that are all faithful.    *)
EXTENDS Naturals, Sequences

CONSTANT Settled    \* TRUE: nothing is ever added about a closed commit

VARIABLES
    happened,       \* for each commit, oldest first, the set of changes it made
    log,            \* what was recorded: which entry, about which commit
    closed          \* commits whose changes are all in the log

logVars == <<happened, log, closed>>

LogInit ==
    /\ happened = << >>
    /\ log = << >>
    /\ closed = {}

Logged(c, entry) == \E i \in DOMAIN log : log[i] = [commit |-> c, entry |-> entry]

\* One more commit: what it did is for its author to decide.
Happen ==
    /\ Len(happened') = Len(happened) + 1
    /\ \A c \in DOMAIN happened : happened'[c] = happened[c]
    /\ UNCHANGED <<log, closed>>

Record(c, entry) ==
    /\ ~Logged(c, entry)
    /\ Settled => c \notin closed
    /\ log' = Append(log, [commit |-> c, entry |-> entry])
    /\ UNCHANGED <<happened, closed>>

Close(c) ==
    /\ \A change \in happened[c] : \E entry \in change : Logged(c, entry)
    /\ closed' = closed \cup {c}
    /\ UNCHANGED <<happened, log>>

LogNext ==
    \/ Happen
    \/ \E c \in DOMAIN happened :
        \/ \E change \in happened[c] : \E entry \in change : Record(c, entry)
        \/ Close(c)

LogSpec == LogInit /\ [][LogNext]_logVars
=================================================================================

------------------------------ MODULE LiveLedger ------------------------------
(***************************************************************************)
(* The live ledger (src/experiments/live/ledger.coil): what a new version  *)
(* of a project changes against the forms the running program accepted.    *)
(* A form is [file, head, name, tokens, target]: the file stands for its   *)
(* module, the tokens for its text without layout and comments.  Reading   *)
(* forms out of text is left out; a ledger is a set, so that a duplicate   *)
(* differs from its twin in its tokens.                                    *)
(***************************************************************************)
CONSTANT EntryFile      \* the file of the entry module

Types == {"defstruct", "defsum", "defclosure"}
Definitions == Types \cup {"defn", "letonce", "deftrait", "impl", "export"}
Contexts == {"import", "const", "extern"}
Heads == Definitions \cup Contexts \cup {"migrate"}

\* Two versions of one thing.
Same(x, y) == x.file = y.file /\ x.head = y.head /\ x.name = y.name

Known(x, ledger) == \E y \in ledger : Same(x, y)

\* ledger-duplicates.
Duplicated(ledger) ==
    {x \in ledger : /\ x.head \in Definitions \cup {"migrate"}
                    /\ \E y \in ledger : Same(x, y) /\ x # y}

\* ledger-project-diff.
Altered(accepted, next) ==
    {x \in next \ accepted : x.head \in Definitions /\ Known(x, accepted)}

Unsupported(accepted, next) ==
    {x \in Altered(accepted, next) :
        x.file = EntryFile /\ x.head = "defn" /\ x.name = "main"}

Changed(accepted, next) == Altered(accepted, next) \ Unsupported(accepted, next)

Added(accepted, next) ==
    {x \in next \ accepted : x.head \in Definitions /\ ~Known(x, accepted)}

Removed(accepted, next) ==
    {x \in accepted : x.head \in Definitions /\ ~Known(x, next)}

NewContext(accepted, next) == {x \in next \ accepted : x.head \in Contexts}

DroppedContext(accepted, next) ==
    {x \in accepted : x.head \in Contexts /\ ~Known(x, next)}

\* A migration travels with the change of its type, once.
Migrates(x, type) == x.head = "migrate" /\ x.file = type.file /\ x.target = type.name

Migrations(accepted, next) ==
    {x \in next \ accepted :
        \E c \in Changed(accepted, next) : c.head \in Types /\ Migrates(x, c)}

Submit(accepted, next) ==
    Changed(accepted, next) \cup Added(accepted, next) \cup Migrations(accepted, next)
        \cup NewContext(accepted, next) \cup DroppedContext(accepted, next)

\* The changed types whose values would have no way into the new layout.
Unmigrated(accepted, next) ==
    {c \in Changed(accepted, next) :
        c.head \in Types /\ ~\E m \in Migrations(accepted, next) : Migrates(m, c)}

\* The definitions of a program after those of a candidate replaced theirs.
DefinitionsOf(ledger) == {x \in ledger : x.head \in Definitions}

Merged(running, candidate) ==
    {y \in running : ~Known(y, candidate)} \cup DefinitionsOf(candidate)
=============================================================================

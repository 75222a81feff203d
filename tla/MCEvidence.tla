------------------------------ MODULE MCEvidence ------------------------------
(* Results for the checks of Evidence.                                        *)
EXTENDS Evidence

MCDirectory == {5}

Reads(files) == {[type |-> "read", on |-> <<f>>] : f \in files}

\* Four files, read, found, searched, written and changed by a command, beside
\* a directory, listed and found, and a note.
Mixed ==
  Reads(1..4)
  \cup {[type |-> "find", on |-> <<1, 2, 3>>], [type |-> "find", on |-> <<5, 3>>],
        [type |-> "search", on |-> <<2, 2>>], [type |-> "write", on |-> <<1>>],
        [type |-> "command", on |-> <<9, 4>>], [type |-> "extract", on |-> <<3>>],
        [type |-> "data", on |-> <<2>>], [type |-> "list", on |-> <<5>>],
        [type |-> "note", on |-> <<7>>], [type |-> "failure", on |-> <<>>]}

FourReads == Reads(1..4)
=============================================================================

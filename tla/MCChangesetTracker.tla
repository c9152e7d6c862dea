-------------------------- MODULE MCChangesetTracker --------------------------
(* Instances of ChangesetTracker for TLC. *)
EXTENDS ChangesetTracker

\* One line, which edits can split and join again.
OneLine == <<"a", Newline>>

\* While one edit of a is submitted another can be typed, and one of b cross both.
TwoAndOne == [x \in {"a", "b"} |-> IF x = "a" THEN 2 ELSE 1]
=============================================================================

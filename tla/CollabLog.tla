----------------------------- MODULE CollabLog ------------------------------
(***************************************************************************)
(* What a pad promises its users, with no messages, sessions or queues:    *)
(* one history of revisions in which every edit is stored at most once; a  *)
(* copy per user that is always the text of one revision and only moves    *)
(* forward, one revision at a time; and a user's own edits, kept until the *)
(* copy holds them.                                                        *)
(***************************************************************************)
EXTENDS PadRevisions

VARIABLES history,   \* the edits of each revision
          present,   \* users who have the pad open
          seen,      \* the revision each user's copy is at
          copy,      \* how often each edit occurs in a user's copy
          unsaved    \* own edits a user's copy does not hold yet

logVars == <<history, present, seen, copy, unsaved>>

TextOf(h, r) == [e \in Edits |-> Cardinality({i \in 1..r : e \in h[i]})]
Stored == UNION {history[i] : i \in 1..Len(history)}

LogInit ==
    /\ history = <<>>
    /\ present = Joined
    /\ seen = [c \in Clients |-> 0]
    /\ copy = [c \in Clients |-> TextOf(<<>>, 0)]
    /\ unsaved = [c \in Clients |-> {}]

Enter(c) ==
    /\ c \notin present
    /\ present' = present \cup {c}
    /\ \E r \in 0..Len(history) :
          /\ seen' = [seen EXCEPT ![c] = r]
          /\ copy' = [copy EXCEPT ![c] = TextOf(history, r)]
    /\ UNCHANGED <<history, unsaved>>

Write(c) ==
    /\ c \in present
    /\ \E e \in EditsOf(c) \ (Stored \cup unsaved[c]) :
          unsaved' = [unsaved EXCEPT ![c] = @ \cup {e}]
    /\ UNCHANGED <<history, present, seen, copy>>

Save(c) ==
    /\ \E E \in (SUBSET (unsaved[c] \ Stored)) \ {{}} : history' = Append(history, E)
    /\ UNCHANGED <<present, seen, copy, unsaved>>

SaveOther ==
    /\ \E E \in (SUBSET ((ApiEdits \cup FixEdits) \ Stored)) \ {{}} :
          history' = Append(history, E)
    /\ UNCHANGED <<present, seen, copy, unsaved>>

See(c) ==
    /\ c \in present
    /\ seen[c] < Len(history)
    /\ seen' = [seen EXCEPT ![c] = @ + 1]
    /\ copy' = [copy EXCEPT ![c] = TextOf(history, seen[c] + 1)]
    /\ unsaved' = [unsaved EXCEPT ![c] = @ \ history[seen[c] + 1]]
    /\ UNCHANGED <<history, present>>

LogNext == SaveOther \/ \E c \in Clients : Enter(c) \/ Write(c) \/ Save(c) \/ See(c)

LogSpec == LogInit /\ [][LogNext]_logVars
=============================================================================

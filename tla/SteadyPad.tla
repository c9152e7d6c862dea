----------------------------- MODULE SteadyPad ------------------------------
(***************************************************************************)
(* A pad whose browsers have all joined, whose connections do not come     *)
(* back once they break and which no API call writes to: the situation in  *)
(* which the assertion of handleUserChanges is safe, and the invariant     *)
(* that makes it so.                                                       *)
(***************************************************************************)
EXTENDS PadCollab

Steady == Joined = Clients /\ MaxApi = 0 /\ MaxConn = 1

(* Nobody arrives any more, and the room is the set of live sessions. *)
NobodyArrives ==
    /\ \A c \in Clients : conn[c] = 1
    /\ \A s \in Sockets : /\ arriving[s] = NotArriving
                          /\ sessioninfos[s] # "empty"
                          /\ \A i \in 1..Len(up[s]) : up[s][i].type = "USER_CHANGES"
    /\ room = {s \in Sockets : sessioninfos[s] = "ready"}

(* Between two USER_CHANGES every session of the room is at the head, and   *)
(* the author of the running one is where its handler left it.              *)
SessionsAtHead ==
    /\ \A s \in room : sessionRev[s] <= head
    /\ task.pc \in {"idle", "rebase"} => \A s \in room : sessionRev[s] = head
    /\ task.pc = "rebase" => sessionRev[task.sock] = head
    /\ task.pc \in {"appended", "corrected"} => sessionRev[task.sock] = task.r
    /\ task.pc \in {"appended", "corrected", "accepted"} => task.newRev <= head

(* Only the running task flushes, and it has not forgotten a session. *)
FlushReachesAll ==
    /\ \A rd \in reads : /\ task.pc = "flushing"
                         /\ rd.origin = TaskFlush
                         /\ rd.rev = sessionRev[rd.sock] + 1
    /\ task.pc = "flushing" =>
          \A s \in room : sessionRev[s] = head \/ \E rd \in reads : rd.sock = s

(* In a steady pad no session is behind when the next USER_CHANGES starts.  *)
SteadyInv == NobodyArrives /\ SessionsAtHead /\ FlushReachesAll

-----------------------------------------------------------------------------
(* What is typed, what is on its way, and what is stored. *)

StoredEdits(r) == revisions[r].changeset.edits
IsOwnRevision(c, r) == StoredEdits(r) \cap EditsOf(c) # {}

EveryoneConnected ==
    /\ open = Sockets /\ room = Sockets
    /\ \A c \in Clients : mode[c] = "on" /\ receivedClientVars[c] /\ ~isPendingRevision[c]

(* Revisions store something, and no edit twice; corrections are numbered.  *)
EditsStoredOnce ==
    /\ \A r \in 1..head : StoredEdits(r) # {}
    /\ \A q, r \in 1..head : StoredEdits(q) \cap StoredEdits(r) # {} => q = r
    /\ \A r \in 1..head : \A k \in 1..MaxFix :
          <<Fix, k>> \in StoredEdits(r) => k <= Cardinality(Corrections)

(* What the user has typed is in one place: either a revision that the      *)
(* browser has seen, or submitted, or user.  A revision it has not seen     *)
(* yet can only hold all that is submitted.                                 *)
OwnEditsInOnePlace(c) ==
    /\ submitted[c] \cup user[c] \subseteq EditsOf(c)
    /\ submitted[c] \cap user[c] = {}
    /\ \A n \in 1..MaxEdits :
          n <= typed[c] <=> \/ <<c, n>> \in submitted[c] \cup user[c]
                            \/ \E r \in 1..rev[c] : <<c, n>> \in StoredEdits(r)
    /\ \A r \in 1..rev[c] : StoredEdits(r) \cap (submitted[c] \cup user[c]) = {}
    /\ \A r \in rev[c] + 1..head : IsOwnRevision(c, r) => StoredEdits(r) = submitted[c]
    /\ ~committing[c] => submitted[c] = {}

(* On its way to the browser are the revisions between its own and that of  *)
(* its session, in order; what it submitted comes as ACCEPT_COMMIT.         *)
acceptedAt(r) == [type |-> "ACCEPT_COMMIT", newRev |-> r]
delivered(c, r) == IF IsOwnRevision(c, r) THEN acceptedAt(r) ELSE newChanges(r)
DeliveredInOrder(c) ==
    /\ sessionRev[<<c, 1>>] = rev[c] + Len(down[<<c, 1>>])
    /\ \A i \in 1..Len(down[<<c, 1>>]) :
          down[<<c, 1>>][i] = delivered(c, rev[c] + i)
    /\ \A r \in sessionRev[<<c, 1>>] + 1..head : IsOwnRevision(c, r) =>
          /\ task.pc \in {"appended", "corrected"}
          /\ task.sock = <<c, 1>> /\ task.newRev = r

(* A changeset on its way to the pad is what the browser has submitted, is  *)
(* not stored yet, and applies to the revision it is based on.              *)
Submission(s, cs, r) ==
    /\ cs.edits = submitted[ClientOf(s)] /\ cs.edits # {}
    /\ \A q \in 1..head : StoredEdits(q) \cap cs.edits = {}
    /\ r <= head /\ cs.oldLen = LengthAt(revisions, r)

(* It is in one place: the connection, the queue, or the task.              *)
Rebasing(s) == task.pc = "rebase" /\ task.sock = s
SubmissionSent(s, i) ==
    /\ i = 1 /\ Submission(s, up[s][i].changeset, up[s][i].baseRev)
    /\ ~Rebasing(s) /\ \A n \in 1..Len(padChannel) : padChannel[n].sock # s
SubmissionQueued(n) ==
    /\ Submission(padChannel[n].sock, padChannel[n].changeset, padChannel[n].baseRev)
    /\ ~Rebasing(padChannel[n].sock)
    /\ \A m \in 1..Len(padChannel) : padChannel[m].sock = padChannel[n].sock => m = n
SubmissionRebased ==
    task.pc = "rebase" => /\ Submission(task.sock, task.changeset, task.r)
                          /\ task.canonicalCs.edits = task.changeset.edits
SubmissionAppended ==
    task.pc \in {"appended", "corrected"} =>
        /\ task.newRev = task.r + 1
        /\ StoredEdits(task.newRev) = submitted[ClientOf(task.sock)]
OneSubmissionEach ==
    /\ \A s \in Sockets : \A i \in 1..Len(up[s]) : SubmissionSent(s, i)
    /\ \A n \in 1..Len(padChannel) : SubmissionQueued(n)
    /\ SubmissionRebased /\ SubmissionAppended

(* In a steady pad nothing is lost, stored twice or delivered out of order. *)
LosslessInv ==
    /\ SteadyInv /\ EveryoneConnected
    /\ EditsStoredOnce /\ OneSubmissionEach /\ BaseMatchesRevision
    /\ \A c \in Clients : OwnEditsInOnePlace(c) /\ DeliveredInOrder(c)
=============================================================================

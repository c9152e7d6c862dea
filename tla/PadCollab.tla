----------------------------- MODULE PadCollab ------------------------------
(***************************************************************************)
(* Collaborative editing of one pad: any number of browsers                *)
(* (CollabClient), the server (PadMessageHandler) and the connections      *)
(* between them (SocketIO).                                                *)
(***************************************************************************)
EXTENDS CollabClient, PadMessageHandler

CONSTANT LateReconnect  \* browsers return only when the server has dealt with
                        \* all they sent before; FALSE: they may be faster

ASSUME LateReconnectAssumption == LateReconnect \in BOOLEAN

vars == <<netVars, clientVars, serverVars>>

Init == ClientInit /\ ServerInit

(* What a client sent on earlier connections has been dealt with. *)
Settled(c) ==
    /\ \A s \in Sockets : ClientOf(s) = c => up[s] = <<>>
    /\ \A i \in 1..Len(padChannel) : ClientOf(padChannel[i].sock) # c
    /\ task # Idle => ClientOf(task.sock) # c

(* The browser's socket is known to the server when it can be used. *)
OpenConnection(c) ==
    /\ LateReconnect => Settled(c)
    /\ Connect(c) \/ Reconnect(c)
    /\ HandleConnect(<<c, conn[c] + 1>>)

Browser(c) == ClientStep(c) /\ UNCHANGED serverVars
Server == ServerStep /\ UNCHANGED clientVars
ApiCaller == \E k \in 1..MaxApi : ApiAppend(k) /\ UNCHANGED clientVars
Environment(c) == ClientEnvironment(c) /\ UNCHANGED serverVars

Next == \/ Server \/ ApiCaller
        \/ \E c \in Clients : OpenConnection(c) \/ Browser(c) \/ Environment(c)

Spec == Init /\ [][Next]_vars

(* Node and the browsers keep running: no handler that can go on is left    *)
(* forever.  Users and connections owe nothing.                             *)
Fairness ==
    /\ WF_vars(UserChangesStep /\ UNCHANGED clientVars)
    /\ \A s \in Sockets : /\ WF_vars(SocketStep(s) /\ UNCHANGED clientVars)
                          /\ WF_vars(\E rd \in reads : rd.sock = s /\ SendRevision(rd)
                                                       /\ UNCHANGED clientVars)
    /\ \A k \in 1..MaxApi : WF_vars(ApiUpdateClients(k) /\ UNCHANGED clientVars)
    /\ \A c \in Clients : WF_vars(Browser(c)) /\ WF_vars(OpenConnection(c) /\ mode[c] = "lost")

FairSpec == Spec /\ Fairness
-----------------------------------------------------------------------------
(* Messages. *)
UpMessages ==
    [type: {"CLIENT_READY"}, reconnect: BOOLEAN, client_rev: Nat]
    \cup [type: {"USER_CHANGES"}, baseRev: Nat, changeset: Changesets]
DownMessages ==
    [type: {"CLIENT_VARS"}, rev: Nat, text: Texts]
    \cup [type: {"NEW_CHANGES"}, newRev: Nat, changeset: Changesets,
          author: Authors \cup {Api}]
    \cup [type: {"ACCEPT_COMMIT"}, newRev: Nat]
    \cup [type: {"CLIENT_RECONNECT"}, noChanges: {TRUE}, newRev: Nat]
    \cup [type: {"CLIENT_RECONNECT"}, noChanges: {FALSE}, headRev: Nat, newRev: Nat,
          changeset: Changesets, author: Authors \cup {Api}]
    \cup [type: {"DISCONNECT"}, reason: {"userdup", "badChangeset"}]

Origins == {TaskFlush} \cup {JoinFlush(s) : s \in Sockets}
           \cup {ApiFlush(k) : k \in 1..MaxApi}

Tasks ==
    {Idle}
    \cup [pc: {"rebase"}, sock: Sockets, r: Nat, canonicalCs: Changesets,
          changeset: Changesets]
    \cup [pc: {"appended", "corrected", "accepted", "flushing"}, sock: Sockets,
          r: Nat, newRev: Nat]

Arrivals ==
    {NotArriving, [pc |-> "joined"]}
    \cup [pc: {"entered"}, reconnect: BOOLEAN, client_rev: Nat]
    \cup [pc: {"returning"}, first: Nat, last: Nat]
    \cup [pc: {"joining"}, rev: Nat, text: Texts]

NetTypeOK ==
    /\ conn \in [Clients -> 0..MaxConn]
    /\ open \subseteq Sockets
    /\ up \in [Sockets -> Seq(UpMessages)]
    /\ down \in [Sockets -> Seq(DownMessages)]

ClientTypeOK ==
    /\ mode \in [Clients -> Modes]
    /\ receivedClientVars \in [Clients -> BOOLEAN]
    /\ rev \in [Clients -> Nat]
    /\ base \in [Clients -> Texts]
    /\ submitted \in [Clients -> SUBSET Edits]
    /\ user \in [Clients -> SUBSET Edits]
    /\ committing \in [Clients -> BOOLEAN]
    /\ isPendingRevision \in [Clients -> BOOLEAN]
    /\ enabled \in [Clients -> BOOLEAN]
    /\ typed \in [Clients -> 0..MaxEdits]

ServerTypeOK ==
    /\ revisions \in Seq(Revisions)
    /\ sessioninfos \in [Sockets -> {"absent", "empty", "ready"}]
    /\ sessionRev \in [Sockets -> Nat]
    /\ room \subseteq Sockets
    /\ padChannel \in Seq([sock: Sockets, baseRev: Nat, changeset: Changesets])
    /\ task \in Tasks
    /\ arriving \in [Sockets -> Arrivals]
    /\ apiCalls \in [1..MaxApi -> {"none", "writing", "done"}]
    /\ reads \subseteq [origin: Origins, sock: Sockets, rev: Nat]

(* The types of all variables. *)
TypeOK == NetTypeOK /\ ClientTypeOK /\ ServerTypeOK

(* The revisions a handler is going to send exist. *)
PendingRevisionsExist ==
    /\ \A rd \in reads : rd.rev \in 1..head
    /\ \A s \in Sockets : arriving[s].pc = "returning" =>
          arriving[s].first >= 1 /\ arriving[s].last <= head

-----------------------------------------------------------------------------
(* What a browser takes for the text of its revision is that text: the base *)
(* of the changeset tracker is the pad's text at rev, whatever was rebased, *)
(* accepted or replayed on the way.                                         *)
BaseMatchesRevision ==
    \A c \in Clients : receivedClientVars[c] =>
        rev[c] <= head /\ base[c] = TextAt(revisions, rev[c])

(* A browser whose user, and whose author, only reads does not need the     *)
(* situations named for that: it shows the text of its revision however     *)
(* flushes overlap, connections break, and others write.                    *)
WriterAuthors == {AuthorOf[c] : c \in Writers}
Readers == {c \in Clients \ Writers : AuthorOf[c] \notin WriterAuthors \cup {Api}}
ReadersShowPad ==
    \A c \in Readers : receivedClientVars[c] =>
        rev[c] \in 0..head /\ base[c] = TextAt(revisions, rev[c])

(* The user sees each own edit exactly once, at every moment between the    *)
(* keystroke and long after its commit.                                     *)
OwnEditsShownOnce ==
    \A c \in Clients : \A n \in 1..typed[c] :
        base[c].has[<<c, n>>] + (IF <<c, n>> \in submitted[c] THEN 1 ELSE 0)
                              + (IF <<c, n>> \in user[c] THEN 1 ELSE 0) = 1

(* No edit is stored twice: a retransmission is recognised. *)
StoredAtMostOnce == \A e \in Edits : TextAt(revisions, head).has[e] <= 1

(* assert.equal(thisSession.rev, r): when a commit is accepted its author   *)
(* has been sent every earlier revision.  The assertion may be the next     *)
(* step in each state this speaks about.                                    *)
CommitsInOrder ==
    task.pc \in {"appended", "corrected"} => sessionRev[task.sock] = task.r

(* No browser is told badChangeset for edits its user made. *)
NoBadChangeset ==
    \A s \in Sockets : \A i \in 1..Len(down[s]) :
        down[s][i].type = "DISCONNECT" => down[s][i].reason # "badChangeset"

(* Whatever browsers send, each stored revision applies to the one before:  *)
(* the pad can always be read back from its changesets.                     *)
HistoryApplies ==
    \A i \in 1..head : revisions[i].changeset.oldLen = LengthAt(revisions, i - 1)

(* updatePadClients and the presence messages find a session for every      *)
(* socket of the room; a kicked tab is out of it.                           *)
RoomSocketsHaveSessions == \A s \in room : sessioninfos[s] = "ready"

(* A second tab of an author kicks the first, and a returning browser its   *)
(* former socket, which the server may still think open: never two in the   *)
(* room, of which one would keep a session nobody reads.                    *)
OneTabPerAuthor ==
    \A s, t \in room : AuthorOf[ClientOf(s)] = AuthorOf[ClientOf(t)] => s = t

(* A browser never moves back to an earlier revision. *)
RevNeverGoesBack == [][\A c \in Clients : rev'[c] >= rev[c]]_vars

(* What the user has typed is eventually in the pad, and in every browser   *)
(* that has it open.                                                        *)
EditsReachEveryone ==
    \A c \in Writers : \A e \in EditsOf(c) :
        e \in user[c] ~> (\A d \in Clients : mode[d] = "on" => base[d].has[e] = 1)

(* A browser that stays connected gets to the head revision. *)
EveryoneCatchesUp ==
    \A c \in Clients : (mode[c] = "on") ~> (mode[c] # "on" \/ rev[c] = head)

-----------------------------------------------------------------------------
(* The abstract pad: a user's unsaved edits are those in the changeset      *)
(* tracker's two local changesets.                                          *)
Log == INSTANCE CollabLog WITH
    history <- [i \in 1..head |-> revisions[i].changeset.edits],
    present <- {c \in Clients : receivedClientVars[c]},
    seen <- rev,
    copy <- [c \in Clients |-> base[c].has],
    unsaved <- [c \in Clients |-> submitted[c] \cup user[c]]

(* Every step of browsers, server and network is a step of the abstract pad *)
(* or changes nothing a user can see.                                       *)
ImplementsLog == Log!LogSpec
=============================================================================

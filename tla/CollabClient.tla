---------------------------- MODULE CollabClient ----------------------------
(***************************************************************************)
(* The browser's side of collaborative editing: collab_client.ts, the      *)
(* changeset tracker it drives (changesettracker.ts) and the connection    *)
(* handling of pad.ts.                                                     *)
(*                                                                         *)
(* The document a user sees is base, then submitted, then user.  Both      *)
(* local changesets always fit the text before them, because every change  *)
(* of base rebases them, so only the edits they insert are kept.  A task   *)
(* that throws leaves what it had assigned before.                         *)
(*                                                                         *)
(* A definition right before the one it varies (MaySendWhilePending before *)
(* MaySend) is a mistake the properties must notice; nothing uses it.      *)
(***************************************************************************)
EXTENDS SocketIO

VARIABLES mode,       \* "out" | "joining" | "on" | "lost" | "gone"
          receivedClientVars,
          rev,        \* collab_client.rev
          base,       \* baseAText
          submitted,  \* edits of submittedChangeset, {} when it is null
          user,       \* edits of userChangeset
          committing,
          isPendingRevision,
          enabled,    \* the editor takes input
          typed       \* edits the user has typed so far

clientVars == <<mode, receivedClientVars, rev, base, submitted, user,
                committing, isPendingRevision, enabled, typed>>

Modes == {"out", "joining", "on", "lost", "gone"}

ClientInit ==
    /\ conn = [c \in Clients |-> IF c \in Joined THEN 1 ELSE 0]
    /\ open = Joined \X {1}
    /\ up = [s \in Sockets |-> <<>>]
    /\ down = [s \in Sockets |-> <<>>]
    /\ mode = [c \in Clients |-> IF c \in Joined THEN "on" ELSE "out"]
    /\ receivedClientVars = [c \in Clients |-> c \in Joined]
    /\ rev = [c \in Clients |-> 0]
    /\ base = [c \in Clients |-> EmptyText]
    /\ submitted = [c \in Clients |-> {}]
    /\ user = [c \in Clients |-> {}]
    /\ committing = [c \in Clients |-> FALSE]
    /\ isPendingRevision = [c \in Clients |-> FALSE]
    /\ enabled = [c \in Clients |-> c \in Joined]
    /\ typed = [c \in Clients |-> 0]

-----------------------------------------------------------------------------
(* The connection. *)

clientReady(reconnect, clientRev) ==
    [type |-> "CLIENT_READY", reconnect |-> reconnect, client_rev |-> clientRev]

Connect(c) ==
    /\ mode[c] = "out"
    /\ Open(c, clientReady(FALSE, 0))
    /\ mode' = [mode EXCEPT ![c] = "joining"]
    /\ UNCHANGED <<receivedClientVars, rev, base, submitted, user, committing,
                   isPendingRevision, enabled, typed>>

(* socketReconnecting; before CLIENT_VARS there is no collab client yet. *)
Disconnected(c, m) ==
    /\ mode' = [mode EXCEPT ![c] = m]
    /\ committing' = [committing EXCEPT ![c] = FALSE]
    /\ isPendingRevision' = [isPendingRevision EXCEPT ![c] = receivedClientVars[c]]
    /\ enabled' = [enabled EXCEPT ![c] = FALSE]
    /\ UNCHANGED <<receivedClientVars, rev, base, submitted, user, typed>>

Lose(c) ==
    /\ c \in Flaky
    /\ mode[c] \in {"joining", "on"}
    /\ conn[c] < MaxConn
    /\ Close(c)
    /\ Disconnected(c, "lost")
    /\ UNCHANGED <<conn, up>>

(* The editor takes input again before the server has answered. *)
Reconnect(c) ==
    /\ mode[c] = "lost"
    /\ Open(c, clientReady(receivedClientVars[c],
                           IF receivedClientVars[c] THEN rev[c] ELSE 0))
    /\ mode' = [mode EXCEPT ![c] = IF receivedClientVars[c] THEN "on" ELSE "joining"]
    /\ enabled' = [enabled EXCEPT ![c] = receivedClientVars[c]]
    /\ UNCHANGED <<receivedClientVars, rev, base, submitted, user, committing,
                   isPendingRevision, typed>>

(* The server answered with {disconnect: reason}. *)
ReceiveDisconnect(c) == \E msg \in Incoming(c) :
    /\ msg.type = "DISCONNECT"
    /\ Close(c)
    /\ Disconnected(c, "gone")
    /\ UNCHANGED <<conn, up>>

(* reconnect_failed: no attempt left. *)
GiveUp(c) ==
    /\ mode[c] = "lost" /\ receivedClientVars[c]
    /\ mode' = [mode EXCEPT ![c] = "gone"]
    /\ UNCHANGED <<netVars, receivedClientVars, rev, base, submitted, user,
                   committing, isPendingRevision, enabled, typed>>

ReceiveClientVars(c) == \E msg \in Incoming(c) :
    /\ msg.type = "CLIENT_VARS"
    /\ ~receivedClientVars[c]
    /\ Take(c)
    /\ mode' = [mode EXCEPT ![c] = "on"]
    /\ receivedClientVars' = [receivedClientVars EXCEPT ![c] = TRUE]
    /\ rev' = [rev EXCEPT ![c] = msg.rev]
    /\ base' = [base EXCEPT ![c] = msg.text]
    /\ enabled' = [enabled EXCEPT ![c] = TRUE]
    /\ UNCHANGED <<conn, open, up, submitted, user, committing, isPendingRevision, typed>>

-----------------------------------------------------------------------------
(* Local edits. *)

Type(c) ==
    /\ c \in Writers
    /\ enabled[c]
    /\ typed[c] < MaxEdits
    /\ typed' = [typed EXCEPT ![c] = @ + 1]
    /\ user' = [user EXCEPT ![c] = @ \cup {<<c, typed[c] + 1>>}]
    /\ UNCHANGED <<netVars, mode, receivedClientVars, rev, base, submitted,
                   committing, isPendingRevision, enabled>>

(* prepareUserChangeset sends a canceled submission again, with what was    *)
(* typed since.                                                             *)
prepareUserChangeset(c) == [edits |-> submitted[c] \cup user[c], oldLen |-> base[c].len]

MaySendWhilePending(c) == mode[c] = "on" /\ ~committing[c]
MaySend(c) == mode[c] = "on" /\ ~committing[c] /\ ~isPendingRevision[c]

(* Run when the user has typed, and again when a commit is accepted or the  *)
(* missed revisions are applied; the commit delay and its timers decide     *)
(* whether it sends then or later.                                          *)
handleUserChanges(c) ==
    /\ MaySend(c)
    /\ ~IsIdentity(prepareUserChangeset(c))
    /\ Send(SocketOf(c), [type |-> "USER_CHANGES", baseRev |-> rev[c],
                          changeset |-> prepareUserChangeset(c)])
    /\ submitted' = [submitted EXCEPT ![c] = @ \cup user[c]]
    /\ user' = [user EXCEPT ![c] = {}]
    /\ committing' = [committing EXCEPT ![c] = TRUE]
    /\ UNCHANGED <<conn, open, down, mode, receivedClientVars, rev, base,
                   isPendingRevision, enabled, typed>>

(* slowcommit: the editor stops taking input, the protocol goes on. *)
SlowCommit(c) ==
    /\ mode[c] = "on" /\ committing[c] /\ enabled[c]
    /\ enabled' = [enabled EXCEPT ![c] = FALSE]
    /\ UNCHANGED <<netVars, mode, receivedClientVars, rev, base, submitted,
                   user, committing, isPendingRevision, typed>>

-----------------------------------------------------------------------------
(* Messages of the COLLABROOM: one task of serverMessageTaskQueue each.     *)

(* applyChangesToBase throws on a changeset made for another length. *)
applyChangesToBase(c, cs) ==
    /\ base' = [base EXCEPT ![c] = IF Fits(cs, @) THEN ApplyToText(cs, @) ELSE @]
    /\ UNCHANGED <<submitted, committing>>

(* acceptCommit throws when nothing is submitted. *)
CanAccept(c) == submitted[c] # {}

acceptCommitKeepsSubmitted(c) ==
    /\ base' = [base EXCEPT ![c] =
                   ApplyToText([edits |-> submitted[c], oldLen |-> @.len], @)]
    /\ committing' = [committing EXCEPT ![c] = FALSE]
    /\ UNCHANGED submitted
acceptCommitStaysBusy(c) ==
    /\ base' = [base EXCEPT ![c] =
                   ApplyToText([edits |-> submitted[c], oldLen |-> @.len], @)]
    /\ submitted' = [submitted EXCEPT ![c] = {}]
    /\ UNCHANGED committing
acceptCommit(c) ==
    IF CanAccept(c)
    THEN /\ base' = [base EXCEPT ![c] =
                        ApplyToText([edits |-> submitted[c], oldLen |-> @.len], @)]
         /\ submitted' = [submitted EXCEPT ![c] = {}]
         /\ committing' = [committing EXCEPT ![c] = FALSE]
    ELSE UNCHANGED <<base, submitted, committing>>

(* Only the revision after the browser's own is applied. *)
IsNextUnchecked(c, msg) == TRUE
IsNext(c, msg) == msg.newRev = rev[c] + 1

Handle(c) == /\ Take(c)
             /\ UNCHANGED <<conn, open, up, mode, receivedClientVars, user, enabled, typed>>

(* bad message revision: the message is ignored. *)
IgnoreMessage(c) == Handle(c) /\ UNCHANGED <<rev, base, submitted, committing, isPendingRevision>>

ReceiveNewChanges(c) == \E msg \in Incoming(c) :
    /\ msg.type = "NEW_CHANGES"
    /\ \/ /\ ~IsNext(c, msg)
          /\ IgnoreMessage(c)
       \/ /\ IsNext(c, msg)
          /\ Handle(c)
          /\ rev' = [rev EXCEPT ![c] = msg.newRev]
          /\ applyChangesToBase(c, msg.changeset)
          /\ UNCHANGED isPendingRevision

ReceiveAcceptCommit(c) == \E msg \in Incoming(c) :
    /\ msg.type = "ACCEPT_COMMIT"
    /\ \/ /\ msg.newRev \notin {rev[c], rev[c] + 1}
          /\ IgnoreMessage(c)
       \/ /\ msg.newRev \in {rev[c], rev[c] + 1}
          /\ Handle(c)
          /\ rev' = [rev EXCEPT ![c] = msg.newRev]
          /\ acceptCommit(c)
          /\ UNCHANGED isPendingRevision

(* One of the revisions missed while disconnected.  The own ones were in    *)
(* flight when the connection broke.                                        *)
IsOwnNever(c, msg) == FALSE
IsOwn(c, msg) == msg.author = AuthorOf[c]

ReceiveMissedRevision(c, msg) ==
    LET throws == IF IsOwn(c, msg) THEN ~CanAccept(c) ELSE ~Fits(msg.changeset, base[c])
    IN  /\ Handle(c)
        /\ rev' = [rev EXCEPT ![c] = msg.newRev]
        /\ IF IsOwn(c, msg) THEN acceptCommit(c) ELSE applyChangesToBase(c, msg.changeset)
        /\ isPendingRevision' =
              [isPendingRevision EXCEPT ![c] = @ /\ (throws \/ msg.newRev # msg.headRev)]

ReceiveClientReconnect(c) == \E msg \in Incoming(c) :
    /\ msg.type = "CLIENT_RECONNECT"
    /\ \/ /\ msg.noChanges
          /\ Handle(c)
          /\ isPendingRevision' = [isPendingRevision EXCEPT ![c] = FALSE]
          /\ UNCHANGED <<rev, base, submitted, committing>>
       \/ /\ ~msg.noChanges /\ ~IsNext(c, msg)
          /\ IgnoreMessage(c)
       \/ /\ ~msg.noChanges /\ IsNext(c, msg)
          /\ ReceiveMissedRevision(c, msg)

-----------------------------------------------------------------------------
(* What the browser program does by itself, and what its environment does. *)
ClientStep(c) ==
    \/ ReceiveDisconnect(c) \/ ReceiveClientVars(c)
    \/ handleUserChanges(c)
    \/ ReceiveNewChanges(c) \/ ReceiveAcceptCommit(c) \/ ReceiveClientReconnect(c)

ClientEnvironment(c) ==
    Lose(c) \/ GiveUp(c) \/ Type(c) \/ SlowCommit(c)
=============================================================================

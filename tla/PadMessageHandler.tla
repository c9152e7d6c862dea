------------------------- MODULE PadMessageHandler --------------------------
(***************************************************************************)
(* The server's side of collaborative editing on one pad: the message      *)
(* handlers of PadMessageHandler.ts, the revisions of Pad.ts they append   *)
(* to, and the HTTP API's writers.  Node runs one handler at a time up to  *)
(* its next await; every action is one such stretch.                       *)
(*                                                                         *)
(* A definition right before the one it varies is a mistake the properties *)
(* must notice; nothing uses it.                                           *)
(***************************************************************************)
EXTENDS SocketIO

CONSTANT Authenticated   \* sessions carry req.session.user: no duplicate kick

ASSUME AuthenticatedAssumption == Authenticated \in BOOLEAN

VARIABLES revisions,    \* the pad's revisions after the initial one
          sessioninfos, \* "absent" | "empty" | "ready", per socket
          sessionRev,   \* rev of the session object a socket was given; a
                        \* handler may hold it after the session is gone
          room,         \* sockets that joined the pad's room
          padChannel,   \* the pad's queue of USER_CHANGES
          task,         \* the USER_CHANGES handler that is running
          arriving,     \* the CLIENT_READY handler of each socket
          apiCalls,     \* API calls: "none" | "writing" | "done"
          reads         \* getRevision calls updatePadClients waits for

serverVars == <<revisions, sessioninfos, sessionRev, room, padChannel, task,
                arriving, apiCalls, reads>>

head == Len(revisions)
Idle == [pc |-> "idle"]
NotArriving == [pc |-> "none"]

(* Who runs updatePadClients: the queue's task, a join, or an API call.     *)
TaskFlush == <<"task">>
JoinFlush(s) == <<"join", s[1], s[2]>>
ApiFlush(k) == <<"api", k>>

ServerInit ==
    /\ revisions = <<>>
    /\ sessioninfos = [s \in Sockets |-> IF s \in Joined \X {1} THEN "ready" ELSE "absent"]
    /\ sessionRev = [s \in Sockets |-> 0]
    /\ room = Joined \X {1}
    /\ padChannel = <<>>
    /\ task = Idle
    /\ arriving = [s \in Sockets |-> NotArriving]
    /\ apiCalls = [k \in 1..MaxApi |-> "none"]
    /\ reads = {}

-----------------------------------------------------------------------------
(* Pad.appendRevision: the head moves before the first await. *)
appendRevision(cs, author) ==
    revisions' = Append(revisions, [changeset |-> cs, author |-> author])

(* updatePadClients, up to its first await: one read per socket of the room *)
(* whose session is behind.                                                 *)
updatePadClientsOffByOne(origin) ==
    reads' = reads \cup {[origin |-> origin, sock |-> s, rev |-> sessionRev[s] + 1] :
                            s \in {t \in room : sessioninfos[t] = "ready"
                                                /\ sessionRev[t] + 1 < head}}
updatePadClients(origin) ==
    reads' = reads \cup {[origin |-> origin, sock |-> s, rev |-> sessionRev[s] + 1] :
                            s \in {t \in room : sessioninfos[t] = "ready"
                                                /\ sessionRev[t] < head}}

FlushingUnawaited(origin) == FALSE
Flushing(origin) == \E rd \in reads : rd.origin = origin

newChangesAnonymous(r) == [type |-> "NEW_CHANGES", newRev |-> r,
                           changeset |-> revisions[r].changeset, author |-> ""]
newChanges(r) == [type |-> "NEW_CHANGES", newRev |-> r,
                  changeset |-> revisions[r].changeset, author |-> revisions[r].author]

(* updatePadClients resumes with a revision and asks for the next one.  One *)
(* that another socket's turn has read already comes without a wait; here   *)
(* it may be waited for all the same.                                       *)
SendRevision(rd) ==
    /\ Emit(rd.sock, newChanges(rd.rev))
    /\ sessionRev' = [sessionRev EXCEPT ![rd.sock] = rd.rev]
    /\ reads' = (reads \ {rd}) \cup
                {[rd EXCEPT !.rev = r] : r \in {rd.rev + 1} \cap 1..head}
    /\ UNCHANGED <<conn, open, up, revisions, sessioninfos, room, padChannel,
                   task, arriving, apiCalls>>

-----------------------------------------------------------------------------
(* Connections. *)

HandleConnect(s) ==
    /\ sessioninfos' = [sessioninfos EXCEPT ![s] = "empty"]
    /\ UNCHANGED <<revisions, sessionRev, room, padChannel, task, arriving,
                   apiCalls, reads>>

(* The server notices that the browser end is gone. *)
HandleDisconnect(s) ==
    /\ s \notin open /\ sessioninfos[s] # "absent"
    /\ sessioninfos' = [sessioninfos EXCEPT ![s] = "absent"]
    /\ room' = room \ {s}
    /\ up' = [up EXCEPT ![s] = <<>>]
    /\ UNCHANGED <<conn, open, down, revisions, sessionRev, padChannel, task,
                   arriving, apiCalls, reads>>

(* handleMessage: a session without auth drops everything but CLIENT_READY. *)
HandleMessage(s) ==
    /\ up[s] # <<>> /\ sessioninfos[s] # "absent"
    /\ up' = [up EXCEPT ![s] = Tail(@)]
    /\ LET msg == Head(up[s]) IN
       \/ /\ msg.type = "CLIENT_READY"
          /\ sessioninfos' = [sessioninfos EXCEPT ![s] = "ready"]
          /\ arriving' = [arriving EXCEPT ![s] =
                [pc |-> "entered", reconnect |-> msg.reconnect, client_rev |-> msg.client_rev]]
          /\ UNCHANGED padChannel
       \/ /\ msg.type = "USER_CHANGES"
          /\ padChannel' = IF sessioninfos[s] = "empty" THEN padChannel
                           ELSE Append(padChannel, [sock |-> s, baseRev |-> msg.baseRev,
                                                    changeset |-> msg.changeset])
          /\ UNCHANGED <<sessioninfos, arriving>>
    /\ UNCHANGED <<conn, open, down, revisions, sessionRev, room, task, apiCalls, reads>>

-----------------------------------------------------------------------------
(* handleClientReady. *)

(* Sockets of the room that a newcomer's author already has: stale tabs.    *)
DuplicatesStay(s) == {}
Duplicates(s) ==
    {t \in room \ {s} : /\ ~Authenticated
                        /\ sessioninfos[t] = "ready"
                        /\ AuthorOf[ClientOf(t)] = AuthorOf[ClientOf(s)]}

disconnect(reason) == [type |-> "DISCONNECT", reason |-> reason]

RoomWithout(socks) == room \ socks

(* The check after the last await before the room is looked at. *)
StillConnectedUnchecked(s) == TRUE
StillConnected(s) == sessioninfos[s] = "ready"

(* The revisions a returning client has missed. *)
returningPastHead(clientRev) ==
    [pc |-> "returning", first |-> clientRev + 1, last |-> head + 1]
returning(clientRev) == [pc |-> "returning", first |-> clientRev + 1, last |-> head]

(* The snapshot a newcomer gets, and the CLIENT_VARS made of it later. *)
snapshot == [pc |-> "joining", rev |-> head, text |-> TextAt(revisions, head)]
clientVarsAtHead(s) == [type |-> "CLIENT_VARS", rev |-> head, text |-> arriving[s].text]
clientVarsOf(s) == [type |-> "CLIENT_VARS", rev |-> arriving[s].rev,
                    text |-> arriving[s].text]

(* From the check that the session is still there to the next await.  A     *)
(* newcomer's snapshot is taken before it joins; a returning client joins   *)
(* at once, at the revision it names.                                       *)
EnterPad(s) ==
    /\ arriving[s].pc = "entered" /\ StillConnected(s)
    /\ sessioninfos' = [t \in Sockets |-> IF t \in Duplicates(s) THEN "empty" ELSE sessioninfos[t]]
    /\ down' = [t \in Sockets |-> IF t \in Duplicates(s) \cap open
                                  THEN Append(down[t], disconnect("userdup")) ELSE down[t]]
    /\ IF arriving[s].reconnect
       THEN /\ room' = RoomWithout(Duplicates(s)) \cup {s}
            /\ sessionRev' = [sessionRev EXCEPT ![s] = arriving[s].client_rev]
            /\ arriving' = [arriving EXCEPT ![s] = returning(arriving[s].client_rev)]
       ELSE /\ room' = RoomWithout(Duplicates(s))
            /\ arriving' = [arriving EXCEPT ![s] = snapshot]
            /\ UNCHANGED sessionRev
    /\ UNCHANGED <<conn, open, up, revisions, padChannel, task, apiCalls, reads>>

(* The socket disconnected before that check: 'client disconnected'. *)
AbandonEntry(s) ==
    /\ arriving[s].pc = "entered" /\ ~StillConnected(s)
    /\ arriving' = [arriving EXCEPT ![s] = NotArriving]
    /\ UNCHANGED <<netVars, revisions, sessioninfos, sessionRev, room, padChannel,
                   task, apiCalls, reads>>

(* The reads have returned: the revisions the client missed, each with the  *)
(* head of this moment.                                                     *)
SendMissed(s) ==
    /\ arriving[s].pc = "returning"
    /\ LET first == arriving[s].first
           missed == [i \in 1..(arriving[s].last - first + 1) |->
                        [type |-> "CLIENT_RECONNECT", noChanges |-> FALSE,
                         headRev |-> head, newRev |-> first + i - 1,
                         changeset |-> revisions[first + i - 1].changeset,
                         author |-> revisions[first + i - 1].author]]
           nothing == <<[type |-> "CLIENT_RECONNECT", noChanges |-> TRUE, newRev |-> head]>>
       IN  down' = Emitted(down, s, IF missed = <<>> THEN nothing ELSE missed)
    /\ arriving' = [arriving EXCEPT ![s] = NotArriving]
    /\ UNCHANGED <<conn, open, up, revisions, sessioninfos, sessionRev, room,
                   padChannel, task, apiCalls, reads>>

(* The hooks have returned: join, send CLIENT_VARS, remember its revision.  *)
JoinPad(s) ==
    /\ arriving[s].pc = "joining"
    /\ room' = IF sessioninfos[s] = "absent" THEN room ELSE room \cup {s}
    /\ Emit(s, clientVarsOf(s))
    /\ sessionRev' = [sessionRev EXCEPT ![s] = arriving[s].rev]
    /\ arriving' = [arriving EXCEPT ![s] = [pc |-> "joined"]]
    /\ UNCHANGED <<conn, open, up, revisions, sessioninfos, padChannel, task,
                   apiCalls, reads>>

(* Flush what was appended before the join. *)
CatchUp(s) ==
    /\ arriving[s].pc = "joined"
    /\ updatePadClients(JoinFlush(s))
    /\ arriving' = [arriving EXCEPT ![s] = NotArriving]
    /\ UNCHANGED <<netVars, revisions, sessioninfos, sessionRev, room, padChannel,
                   task, apiCalls>>

-----------------------------------------------------------------------------
(* handleUserChanges, one at a time per pad. *)

thisAuthor == AuthorOf[ClientOf(task.sock)]

(* Any error: the browser is told, the handler ends. *)
BadChangeset(s) ==
    /\ Emit(s, disconnect("badChangeset"))
    /\ task' = Idle

(* A queued message of a vanished session is dropped; one of a session that *)
(* was kicked since fails the author check.                                 *)
StartUserChanges ==
    /\ task = Idle /\ padChannel # <<>>
    /\ padChannel' = Tail(padChannel)
    /\ LET queued == Head(padChannel) IN
       \/ sessioninfos[queued.sock] = "absent" /\ UNCHANGED <<down, task>>
       \/ sessioninfos[queued.sock] = "empty" /\ BadChangeset(queued.sock)
       \/ /\ sessioninfos[queued.sock] = "ready"
          /\ task' = [pc |-> "rebase", sock |-> queued.sock, r |-> queued.baseRev,
                      canonicalCs |-> queued.changeset, changeset |-> queued.changeset]
          /\ UNCHANGED down
    /\ UNCHANGED <<conn, open, up, revisions, sessioninfos, sessionRev, room,
                   arriving, apiCalls, reads>>

(* One turn of the rebase loop.  A stored revision that is this very        *)
(* changeset by this author is taken for an earlier transmission of it.     *)
IsRetransmission(c) == task.canonicalCs = c.changeset /\ thisAuthor = c.author
Rebase ==
    /\ task.pc = "rebase" /\ task.r < head
    /\ LET c == revisions[task.r + 1]
           mine == IF IsRetransmission(c) THEN Identity(task.canonicalCs.oldLen)
                                          ELSE task.changeset
       IN  IF CanFollow(c.changeset, mine)
           THEN /\ task' = [task EXCEPT !.r = @ + 1, !.changeset = Follow(c.changeset, mine)]
                /\ UNCHANGED down
           ELSE BadChangeset(task.sock)
    /\ UNCHANGED <<conn, open, up, revisions, sessioninfos, sessionRev, room,
                   padChannel, arriving, apiCalls, reads>>

(* The loop has reached the head: append, unless the lengths differ or the  *)
(* changeset has no net effect.                                             *)
AppliesUnchecked == TRUE
Applies == task.changeset.oldLen = LengthAt(revisions, head)

AppendChanges ==
    /\ task.pc = "rebase" /\ task.r = head
    /\ LET appended(newRev) == [pc |-> "appended", sock |-> task.sock,
                                r |-> task.r, newRev |-> newRev]
       IN  \/ /\ ~Applies
              /\ BadChangeset(task.sock) /\ UNCHANGED revisions
           \/ /\ Applies /\ IsIdentity(task.changeset)
              /\ task' = appended(head) /\ UNCHANGED <<revisions, down>>
           \/ /\ Applies /\ ~IsIdentity(task.changeset)
              /\ appendRevision(task.changeset, thisAuthor)
              /\ task' = appended(head + 1) /\ UNCHANGED down
    /\ UNCHANGED <<conn, open, up, sessioninfos, sessionRev, room, padChannel,
                   arriving, apiCalls, reads>>

(* _correctMarkersInPad found misplaced line markers: one more revision, in *)
(* the same author's name.                                                  *)
Corrections == {i \in 1..head : revisions[i].changeset.edits \subseteq FixEdits}
CorrectMarkers ==
    /\ task.pc = "appended"
    /\ Cardinality(Corrections) < MaxFix
    /\ appendRevision([edits |-> {<<Fix, Cardinality(Corrections) + 1>>},
                       oldLen |-> LengthAt(revisions, head)], thisAuthor)
    /\ task' = [task EXCEPT !.pc = "corrected"]
    /\ UNCHANGED <<netVars, sessioninfos, sessionRev, room, padChannel, arriving,
                   apiCalls, reads>>

(* assert.equal(thisSession.rev, r), then ACCEPT_COMMIT. *)
AcceptCommit ==
    /\ task.pc \in {"appended", "corrected"}
    /\ IF sessionRev[task.sock] = task.r
       THEN /\ Emit(task.sock, [type |-> "ACCEPT_COMMIT", newRev |-> task.newRev])
            /\ sessionRev' = [sessionRev EXCEPT ![task.sock] = task.newRev]
            /\ task' = [task EXCEPT !.pc = "accepted"]
       ELSE BadChangeset(task.sock) /\ UNCHANGED sessionRev
    /\ UNCHANGED <<conn, open, up, revisions, sessioninfos, room, padChannel,
                   arriving, apiCalls, reads>>

FlushChanges ==
    /\ task.pc = "accepted"
    /\ updatePadClients(TaskFlush)
    /\ task' = [task EXCEPT !.pc = "flushing"]
    /\ UNCHANGED <<netVars, revisions, sessioninfos, sessionRev, room, padChannel,
                   arriving, apiCalls>>

FinishUserChanges ==
    /\ task.pc = "flushing" /\ ~Flushing(TaskFlush)
    /\ task' = Idle
    /\ UNCHANGED <<netVars, revisions, sessioninfos, sessionRev, room, padChannel,
                   arriving, apiCalls, reads>>

-----------------------------------------------------------------------------
(* setText, appendText, setHTML and imports: append, then update clients.   *)

apiChangeset(k) == [edits |-> {<<Api, k>>}, oldLen |-> LengthAt(revisions, head)]

ApiAppend(k) ==
    /\ apiCalls[k] = "none"
    /\ k > 1 => apiCalls[k - 1] # "none"
    /\ appendRevision(apiChangeset(k), Api)
    /\ apiCalls' = [apiCalls EXCEPT ![k] = "writing"]
    /\ UNCHANGED <<netVars, sessioninfos, sessionRev, room, padChannel, task,
                   arriving, reads>>

ApiUpdateClients(k) ==
    /\ apiCalls[k] = "writing"
    /\ updatePadClients(ApiFlush(k))
    /\ apiCalls' = [apiCalls EXCEPT ![k] = "done"]
    /\ UNCHANGED <<netVars, revisions, sessioninfos, sessionRev, room, padChannel,
                   task, arriving>>

-----------------------------------------------------------------------------
UserChangesStep ==
    \/ StartUserChanges \/ Rebase \/ AppendChanges \/ CorrectMarkers
    \/ AcceptCommit \/ FlushChanges \/ FinishUserChanges

SocketStep(s) ==
    \/ HandleDisconnect(s) \/ HandleMessage(s)
    \/ EnterPad(s) \/ AbandonEntry(s) \/ SendMissed(s) \/ JoinPad(s) \/ CatchUp(s)

ServerStep ==
    \/ UserChangesStep
    \/ \E s \in Sockets : SocketStep(s)
    \/ \E rd \in reads : SendRevision(rd)
    \/ \E k \in 1..MaxApi : ApiUpdateClients(k)
=============================================================================

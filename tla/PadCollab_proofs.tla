-------------------------- MODULE PadCollab_proofs --------------------------
(***************************************************************************)
(* Proofs about PadCollab for every set of clients and every bound: types, *)
(* then the sessions in the room, what a browser is told, and its tabs.    *)
(***************************************************************************)
EXTENDS PadCollab, FiniteSetTheorems, SequenceTheorems, TLAPS

(* What the changeset operators return. *)

LEMMA EditsFinite == IsFiniteSet(Edits)
<1>1. IsFiniteSet(1..MaxEdits) /\ IsFiniteSet(1..MaxApi) /\ IsFiniteSet(1..MaxFix)
  BY FS_Interval, BoundsAssumption
<1>2. IsFiniteSet(Clients \X (1..MaxEdits))
  BY <1>1, FS_Product, ClientsAssumption
<1>3. IsFiniteSet(ApiEdits) /\ IsFiniteSet(FixEdits)
  BY <1>1, FS_Product, FS_Singleton DEF ApiEdits, FixEdits
<1> QED
  BY <1>2, <1>3, FS_Union DEF Edits

LEMMA EditCount ==
  ASSUME NEW E \in SUBSET Edits
  PROVE  Cardinality(E) \in Nat
BY EditsFinite, FS_Subset, FS_CardinalityType

LEMMA NewLenType ==
  ASSUME NEW cs \in Changesets
  PROVE  NewLen(cs) \in Nat
BY EditCount DEF Changesets, NewLen

LEMMA LengthAtType ==
  ASSUME NEW h \in Seq(Revisions), NEW r \in 0..Len(h)
  PROVE  LengthAt(h, r) \in Nat
<1>1. CASE r = 0
  BY <1>1 DEF LengthAt
<1>2. CASE r # 0
  <2>1. h[r] \in Revisions
    BY <1>2, ElementOfSeq
  <2> QED
    BY <1>2, <2>1, NewLenType DEF LengthAt, Revisions
<1> QED
  BY <1>1, <1>2

LEMMA TextAtType ==
  ASSUME NEW h \in Seq(Revisions), NEW r \in 0..Len(h)
  PROVE  TextAt(h, r) \in Texts
<1>1. ASSUME NEW e \in Edits
      PROVE  Cardinality({i \in 1..r : e \in h[i].changeset.edits}) \in Nat
  <2>1. IsFiniteSet(1..r)
    BY FS_Interval
  <2> QED
    BY <2>1, FS_Subset, FS_CardinalityType
<1> QED
  BY <1>1, LengthAtType DEF TextAt, Texts

LEMMA ApplyType ==
  ASSUME NEW cs \in Changesets, NEW text \in Texts
  PROVE  ApplyToText(cs, text) \in Texts
BY EditCount DEF Changesets, Texts, ApplyToText

-----------------------------------------------------------------------------
(* The types of all variables. *)

TypeInv == TypeOK /\ PendingRevisionsExist

LEMMA TypeInit == Init => TypeInv
<1> SUFFICES ASSUME Init PROVE TypeInv
  OBVIOUS
<1> USE DEF Init, ClientInit, ServerInit
<1>1. NetTypeOK
  BY ClientsAssumption, ConnectionsAssumption DEF NetTypeOK, Sockets
<1>2. ClientTypeOK
  <2>1. EmptyText \in Texts
    BY DEF EmptyText, Texts
  <2> QED
    BY <2>1, BoundsAssumption DEF ClientTypeOK, Modes
<1>3. ServerTypeOK
  BY ClientsAssumption, ConnectionsAssumption
     DEF ServerTypeOK, Sockets, Tasks, Arrivals
<1>4. PendingRevisionsExist
  BY DEF PendingRevisionsExist, NotArriving
<1> QED
  BY <1>1, <1>2, <1>3, <1>4 DEF TypeInv, TypeOK

LEMMA NetUnchanged ==
  ASSUME NetTypeOK, UNCHANGED netVars
  PROVE  NetTypeOK'
BY DEF NetTypeOK, netVars

LEMMA ClientUnchanged ==
  ASSUME ClientTypeOK, UNCHANGED clientVars
  PROVE  ClientTypeOK'
BY DEF ClientTypeOK, clientVars

LEMMA ServerUnchanged ==
  ASSUME ServerTypeOK, PendingRevisionsExist, UNCHANGED serverVars
  PROVE  ServerTypeOK' /\ PendingRevisionsExist'
BY DEF ServerTypeOK, PendingRevisionsExist, serverVars, head

(* Sockets and their queues. *)

LEMMA SocketOfType ==
  ASSUME NetTypeOK, NEW c \in Clients, conn[c] > 0
  PROVE  SocketOf(c) \in Sockets
BY ConnectionsAssumption DEF NetTypeOK, SocketOf, Sockets

LEMMA IncomingType ==
  ASSUME NetTypeOK, NEW c \in Clients, NEW msg \in Incoming(c)
  PROVE  /\ SocketOf(c) \in Sockets
         /\ msg \in DownMessages
         /\ Tail(down[SocketOf(c)]) \in Seq(DownMessages)
         /\ msg = Head(down[SocketOf(c)])
<1>1. Connected(c) /\ down[SocketOf(c)] # <<>> /\ msg = Head(down[SocketOf(c)])
  BY DEF Incoming
<1>2. SocketOf(c) \in Sockets
  BY <1>1, SocketOfType DEF Connected
<1>3. down[SocketOf(c)] \in Seq(DownMessages)
  BY <1>2 DEF NetTypeOK
<1> QED
  BY <1>1, <1>2, <1>3, HeadTailProperties

(* The browser's steps keep the types. *)

LEMMA DisconnectedType ==
  ASSUME ClientTypeOK, NEW c \in Clients, NEW m \in Modes, Disconnected(c, m)
  PROVE  ClientTypeOK'
BY DEF ClientTypeOK, Disconnected

LEMMA CloseType ==
  ASSUME NetTypeOK, NEW c \in Clients, conn[c] > 0, Close(c), UNCHANGED <<conn, up>>
  PROVE  NetTypeOK'
<1>1. SocketOf(c) \in Sockets
  BY SocketOfType
<1>2. <<>> \in Seq(DownMessages)
  BY EmptySeq
<1> QED
  BY <1>1, <1>2 DEF NetTypeOK, Close

LEMMA OpenType ==
  ASSUME NetTypeOK, NEW c \in Clients, NEW msg \in UpMessages, Open(c, msg)
  PROVE  NetTypeOK'
<1>1. <<c, conn[c] + 1>> \in Sockets /\ conn[c] + 1 \in 0..MaxConn
  BY ConnectionsAssumption DEF NetTypeOK, Open, Sockets
<1>2. Append(up[<<c, conn[c] + 1>>], msg) \in Seq(UpMessages)
  BY <1>1 DEF NetTypeOK
<1> QED
  BY <1>1, <1>2 DEF NetTypeOK, Open

LEMMA TakeType ==
  ASSUME NetTypeOK, NEW c \in Clients, NEW msg \in Incoming(c), Take(c),
         UNCHANGED <<conn, open, up>>
  PROVE  NetTypeOK'
BY IncomingType DEF NetTypeOK, Take

LEMMA SendType ==
  ASSUME NetTypeOK, NEW s, NEW msg \in UpMessages, Send(s, msg),
         UNCHANGED <<conn, open, down>>
  PROVE  NetTypeOK'
<1>1. CASE s \in Sockets
  <2>1. Append(up[s], msg) \in Seq(UpMessages)
    BY <1>1 DEF NetTypeOK
  <2> QED
    BY <1>1, <2>1 DEF NetTypeOK, Send
<1>2. CASE s \notin Sockets
  BY <1>2 DEF NetTypeOK, Send
<1> QED
  BY <1>1, <1>2

LEMMA EnvironmentType ==
  ASSUME TypeInv, NEW c \in Clients, Environment(c)
  PROVE  TypeInv'
<1>1. ServerTypeOK' /\ PendingRevisionsExist'
  BY ServerUnchanged DEF TypeInv, TypeOK, Environment
<1>2. NetTypeOK /\ ClientTypeOK
  BY DEF TypeInv, TypeOK
<1>3. CASE Lose(c)
  <2>1. NetTypeOK'
    <3>1. CASE conn[c] > 0
      BY <1>2, <1>3, <3>1, CloseType DEF Lose
    <3>2. CASE ~(conn[c] > 0)
      BY <1>2, <1>3, <3>2, EmptySeq DEF Lose, Close, NetTypeOK
    <3> QED
      BY <3>1, <3>2
  <2>2. ClientTypeOK'
    BY <1>2, <1>3, DisconnectedType DEF Lose, Modes
  <2> QED
    BY <1>1, <2>1, <2>2 DEF TypeInv, TypeOK
<1>4. CASE GiveUp(c)
  <2>1. NetTypeOK'
    BY <1>2, <1>4, NetUnchanged DEF GiveUp
  <2>2. ClientTypeOK'
    BY <1>2, <1>4 DEF GiveUp, ClientTypeOK, Modes
  <2> QED
    BY <1>1, <2>1, <2>2 DEF TypeInv, TypeOK
<1>5. CASE Type(c)
  <2>1. NetTypeOK'
    BY <1>2, <1>5, NetUnchanged DEF Type
  <2>2. typed[c] + 1 \in 0..MaxEdits /\ <<c, typed[c] + 1>> \in Edits
    BY <1>2, <1>5, BoundsAssumption DEF Type, ClientTypeOK, Edits
  <2>3. ClientTypeOK'
    BY <1>2, <1>5, <2>2 DEF Type, ClientTypeOK
  <2> QED
    BY <1>1, <2>1, <2>3 DEF TypeInv, TypeOK
<1>6. CASE SlowCommit(c)
  <2>1. NetTypeOK'
    BY <1>2, <1>6, NetUnchanged DEF SlowCommit
  <2>2. ClientTypeOK'
    BY <1>2, <1>6 DEF SlowCommit, ClientTypeOK
  <2> QED
    BY <1>1, <2>1, <2>2 DEF TypeInv, TypeOK
<1> QED
  BY <1>3, <1>4, <1>5, <1>6 DEF Environment, ClientEnvironment

LEMMA HandleType ==
  ASSUME NetTypeOK, ClientTypeOK, NEW c \in Clients, NEW msg \in Incoming(c), Handle(c),
         rev' \in [Clients -> Nat], base' \in [Clients -> Texts],
         submitted' \in [Clients -> SUBSET Edits], committing' \in [Clients -> BOOLEAN],
         isPendingRevision' \in [Clients -> BOOLEAN]
  PROVE  NetTypeOK' /\ ClientTypeOK'
<1>1. NetTypeOK'
  BY TakeType DEF Handle
<1>2. ClientTypeOK'
  BY DEF Handle, ClientTypeOK
<1> QED
  BY <1>1, <1>2

LEMMA IgnoreType ==
  ASSUME NetTypeOK, ClientTypeOK, NEW c \in Clients, NEW msg \in Incoming(c),
         IgnoreMessage(c)
  PROVE  NetTypeOK' /\ ClientTypeOK'
BY HandleType DEF IgnoreMessage, ClientTypeOK

LEMMA ApplyChangesType ==
  ASSUME ClientTypeOK, NEW c \in Clients, NEW cs \in Changesets, applyChangesToBase(c, cs)
  PROVE  /\ base' \in [Clients -> Texts]
         /\ submitted' \in [Clients -> SUBSET Edits]
         /\ committing' \in [Clients -> BOOLEAN]
<1>1. base[c] \in Texts
  BY DEF ClientTypeOK
<1>2. ApplyToText(cs, base[c]) \in Texts
  BY <1>1, ApplyType
<1> QED
  BY <1>1, <1>2 DEF ClientTypeOK, applyChangesToBase

LEMMA AcceptCommitType ==
  ASSUME ClientTypeOK, NEW c \in Clients, acceptCommit(c)
  PROVE  /\ base' \in [Clients -> Texts]
         /\ submitted' \in [Clients -> SUBSET Edits]
         /\ committing' \in [Clients -> BOOLEAN]
<1> DEFINE cs == [edits |-> submitted[c], oldLen |-> base[c].len]
<1>1. base[c] \in Texts
  BY DEF ClientTypeOK
<1>2. cs \in Changesets
  BY <1>1 DEF ClientTypeOK, Changesets, Texts
<1>3. ApplyToText(cs, base[c]) \in Texts
  BY <1>1, <1>2, ApplyType
<1> HIDE DEF cs
<1>4. CASE CanAccept(c)
  <2>1. base' = [base EXCEPT ![c] = ApplyToText(cs, base[c])]
    BY <1>4 DEF acceptCommit, cs
  <2> QED
    BY <1>3, <1>4, <2>1 DEF ClientTypeOK, acceptCommit
<1>5. CASE ~CanAccept(c)
  BY <1>5 DEF ClientTypeOK, acceptCommit
<1> QED
  BY <1>4, <1>5

LEMMA MessageFields ==
  ASSUME NEW msg \in DownMessages
  PROVE  /\ msg.type = "CLIENT_VARS" => msg.rev \in Nat /\ msg.text \in Texts
         /\ msg.type = "NEW_CHANGES" => msg.newRev \in Nat /\ msg.changeset \in Changesets
         /\ msg.type = "ACCEPT_COMMIT" => msg.newRev \in Nat
         /\ (msg.type = "CLIENT_RECONNECT" /\ ~msg.noChanges) =>
               /\ msg.newRev \in Nat /\ msg.headRev \in Nat
               /\ msg.changeset \in Changesets
BY DEF DownMessages

LEMMA BrowserType ==
  ASSUME TypeInv, NEW c \in Clients, Browser(c)
  PROVE  TypeInv'
<1>1. ServerTypeOK' /\ PendingRevisionsExist'
  BY ServerUnchanged DEF TypeInv, TypeOK, Browser
<1>2. NetTypeOK /\ ClientTypeOK
  BY DEF TypeInv, TypeOK
<1> SUFFICES NetTypeOK' /\ ClientTypeOK'
  BY <1>1 DEF TypeInv, TypeOK
<1>3. CASE ReceiveDisconnect(c)
  <2>1. PICK msg \in Incoming(c) : Close(c) /\ Disconnected(c, "gone")
                                   /\ UNCHANGED <<conn, up>>
    BY <1>3 DEF ReceiveDisconnect
  <2>2. conn[c] > 0
    BY <2>1 DEF Incoming, Connected
  <2> QED
    BY <1>2, <2>1, <2>2, CloseType, DisconnectedType DEF Modes
<1>4. CASE ReceiveClientVars(c)
  <2>1. PICK msg \in Incoming(c) :
           /\ msg.type = "CLIENT_VARS" /\ Take(c)
           /\ mode' = [mode EXCEPT ![c] = "on"]
           /\ receivedClientVars' = [receivedClientVars EXCEPT ![c] = TRUE]
           /\ rev' = [rev EXCEPT ![c] = msg.rev]
           /\ base' = [base EXCEPT ![c] = msg.text]
           /\ enabled' = [enabled EXCEPT ![c] = TRUE]
           /\ UNCHANGED <<conn, open, up, submitted, user, committing,
                          isPendingRevision, typed>>
    BY <1>4 DEF ReceiveClientVars
  <2>2. msg.rev \in Nat /\ msg.text \in Texts
    BY <1>2, <2>1, IncomingType, MessageFields
  <2>3. NetTypeOK'
    BY <1>2, <2>1, TakeType
  <2>4. ClientTypeOK'
    BY <1>2, <2>1, <2>2 DEF ClientTypeOK, Modes
  <2> QED
    BY <2>3, <2>4
<1>5. CASE handleUserChanges(c)
  <2>1. prepareUserChangeset(c) \in Changesets
    BY <1>2 DEF prepareUserChangeset, Changesets, ClientTypeOK, Texts
  <2>2. [type |-> "USER_CHANGES", baseRev |-> rev[c],
         changeset |-> prepareUserChangeset(c)] \in UpMessages
    BY <1>2, <2>1 DEF UpMessages, ClientTypeOK
  <2>3. NetTypeOK'
    BY <1>2, <1>5, <2>2, SendType DEF handleUserChanges
  <2>4. ClientTypeOK'
    BY <1>2, <1>5 DEF handleUserChanges, ClientTypeOK
  <2> QED
    BY <2>3, <2>4
<1>6. CASE ReceiveNewChanges(c)
  <2>1. PICK msg \in Incoming(c) :
           /\ msg.type = "NEW_CHANGES"
           /\ \/ IgnoreMessage(c)
              \/ /\ Handle(c)
                 /\ rev' = [rev EXCEPT ![c] = msg.newRev]
                 /\ applyChangesToBase(c, msg.changeset)
                 /\ UNCHANGED isPendingRevision
    BY <1>6 DEF ReceiveNewChanges
  <2>2. msg.newRev \in Nat /\ msg.changeset \in Changesets
    BY <1>2, <2>1, IncomingType, MessageFields
  <2>3. CASE IgnoreMessage(c)
    BY <1>2, <2>3, IgnoreType
  <2>4. CASE /\ Handle(c)
             /\ rev' = [rev EXCEPT ![c] = msg.newRev]
             /\ applyChangesToBase(c, msg.changeset)
             /\ UNCHANGED isPendingRevision
    <3>1. rev' \in [Clients -> Nat] /\ isPendingRevision' \in [Clients -> BOOLEAN]
      BY <1>2, <2>2, <2>4 DEF ClientTypeOK
    <3> QED
      BY <1>2, <2>2, <2>4, <3>1, ApplyChangesType, HandleType
  <2> QED
    BY <2>1, <2>3, <2>4
<1>7. CASE ReceiveAcceptCommit(c)
  <2>1. PICK msg \in Incoming(c) :
           /\ msg.type = "ACCEPT_COMMIT"
           /\ \/ IgnoreMessage(c)
              \/ /\ Handle(c)
                 /\ rev' = [rev EXCEPT ![c] = msg.newRev]
                 /\ acceptCommit(c)
                 /\ UNCHANGED isPendingRevision
    BY <1>7 DEF ReceiveAcceptCommit
  <2>2. msg.newRev \in Nat
    BY <1>2, <2>1, IncomingType, MessageFields
  <2>3. CASE IgnoreMessage(c)
    BY <1>2, <2>3, IgnoreType
  <2>4. CASE /\ Handle(c)
             /\ rev' = [rev EXCEPT ![c] = msg.newRev]
             /\ acceptCommit(c)
             /\ UNCHANGED isPendingRevision
    <3>1. rev' \in [Clients -> Nat] /\ isPendingRevision' \in [Clients -> BOOLEAN]
      BY <1>2, <2>2, <2>4 DEF ClientTypeOK
    <3> QED
      BY <1>2, <2>4, <3>1, AcceptCommitType, HandleType
  <2> QED
    BY <2>1, <2>3, <2>4
<1>8. CASE ReceiveClientReconnect(c)
  <2>1. PICK msg \in Incoming(c) :
           /\ msg.type = "CLIENT_RECONNECT"
           /\ \/ /\ Handle(c)
                 /\ isPendingRevision' = [isPendingRevision EXCEPT ![c] = FALSE]
                 /\ UNCHANGED <<rev, base, submitted, committing>>
              \/ IgnoreMessage(c)
              \/ ~msg.noChanges /\ ReceiveMissedRevision(c, msg)
    BY <1>8 DEF ReceiveClientReconnect
  <2>2. CASE /\ Handle(c)
             /\ isPendingRevision' = [isPendingRevision EXCEPT ![c] = FALSE]
             /\ UNCHANGED <<rev, base, submitted, committing>>
    BY <1>2, <2>2, HandleType DEF ClientTypeOK
  <2>3. CASE IgnoreMessage(c)
    BY <1>2, <2>3, IgnoreType
  <2>4. CASE ~msg.noChanges /\ ReceiveMissedRevision(c, msg)
    <3>1. msg.newRev \in Nat /\ msg.headRev \in Nat /\ msg.changeset \in Changesets
      BY <1>2, <2>1, <2>4, IncomingType, MessageFields
    <3>2. Handle(c) /\ (acceptCommit(c) \/ applyChangesToBase(c, msg.changeset))
      BY <2>4 DEF ReceiveMissedRevision
    <3>3. rev' \in [Clients -> Nat]
      BY <1>2, <2>4, <3>1 DEF ReceiveMissedRevision, ClientTypeOK
    <3>4. isPendingRevision' \in [Clients -> BOOLEAN]
      BY <1>2, <2>4 DEF ReceiveMissedRevision, ClientTypeOK
    <3> QED
      BY <1>2, <3>1, <3>2, <3>3, <3>4, AcceptCommitType, ApplyChangesType, HandleType
  <2> QED
    BY <2>1, <2>2, <2>3, <2>4
<1> QED
  BY <1>3, <1>4, <1>5, <1>6, <1>7, <1>8 DEF Browser, ClientStep

-----------------------------------------------------------------------------
(* The server's steps keep the types. *)

LEMMA EmittedType ==
  ASSUME NetTypeOK, NEW s \in Sockets, NEW msgs \in Seq(DownMessages)
  PROVE  Emitted(down, s, msgs) \in [Sockets -> Seq(DownMessages)]
<1>1. down[s] \in Seq(DownMessages) /\ down[s] \o msgs \in Seq(DownMessages)
  BY ConcatProperties DEF NetTypeOK
<1> QED
  BY <1>1 DEF NetTypeOK, Emitted

LEMMA EmitType ==
  ASSUME NetTypeOK, NEW s \in Sockets, NEW msg \in DownMessages, Emit(s, msg),
         UNCHANGED <<conn, open, up>>
  PROVE  NetTypeOK'
<1>1. <<msg>> \in Seq(DownMessages)
  OBVIOUS
<1>2. down' \in [Sockets -> Seq(DownMessages)]
  BY <1>1, EmittedType DEF Emit
<1> QED
  BY <1>2 DEF NetTypeOK

LEMMA BadChangesetType ==
  ASSUME NetTypeOK, NEW s \in Sockets, BadChangeset(s), UNCHANGED <<conn, open, up>>
  PROVE  NetTypeOK' /\ task' \in Tasks
<1>1. disconnect("badChangeset") \in DownMessages
  BY DEF disconnect, DownMessages
<1> QED
  BY <1>1, EmitType DEF BadChangeset, Tasks

(* A stored revision, and the message made of it. *)
LEMMA RevisionType ==
  ASSUME ServerTypeOK, NEW r \in 1..head
  PROVE  /\ revisions[r] \in Revisions
         /\ revisions[r].changeset \in Changesets
         /\ revisions[r].author \in Authors \cup {Api}
<1>1. revisions[r] \in Revisions
  BY ElementOfSeq DEF ServerTypeOK, head
<1> QED
  BY <1>1 DEF Revisions

LEMMA HeadType ==
  ASSUME ServerTypeOK
  PROVE  /\ head \in Nat /\ LengthAt(revisions, head) \in Nat
         /\ TextAt(revisions, head) \in Texts
<1>1. head \in Nat /\ head \in 0..Len(revisions)
  BY LenProperties DEF ServerTypeOK, head
<1> QED
  BY <1>1, LengthAtType, TextAtType DEF ServerTypeOK

LEMMA AuthorType ==
  ASSUME NEW s \in Sockets
  PROVE  AuthorOf[ClientOf(s)] \in Authors
BY ClientsAssumption DEF Sockets, ClientOf

(* Appending keeps what is about to be sent in range. *)
LEMMA AppendType ==
  ASSUME ServerTypeOK, PendingRevisionsExist, NEW cs \in Changesets,
         NEW author \in Authors \cup {Api}, appendRevision(cs, author),
         UNCHANGED <<arriving, reads>>
  PROVE  revisions' \in Seq(Revisions) /\ PendingRevisionsExist' /\ head' = head + 1
<1> DEFINE new == [changeset |-> cs, author |-> author]
<1>1. new \in Revisions
  BY DEF Revisions
<1>2. revisions' = Append(revisions, new)
  BY DEF appendRevision
<1> HIDE DEF new
<1>3. revisions' \in Seq(Revisions) /\ Len(revisions') = Len(revisions) + 1
  BY <1>1, <1>2, AppendProperties DEF ServerTypeOK
<1>4. head' = head + 1 /\ head \in Nat
  BY <1>3, HeadType DEF head
<1>5. PendingRevisionsExist'
  <2>1. \A rd \in reads : rd.rev \in 1..head + 1
    BY <1>4 DEF PendingRevisionsExist, ServerTypeOK
  <2>2. ASSUME NEW s \in Sockets, arriving[s].pc = "returning"
        PROVE  arriving[s].first >= 1 /\ arriving[s].last <= head + 1
    <3>1. arriving[s] \in Arrivals
      BY DEF ServerTypeOK
    <3>2. arriving[s].last \in Nat
      BY <2>2, <3>1 DEF Arrivals, NotArriving
    <3> QED
      BY <1>4, <2>2, <3>2 DEF PendingRevisionsExist
  <2> QED
    BY <1>4, <2>1, <2>2 DEF PendingRevisionsExist
<1> QED
  BY <1>3, <1>4, <1>5

LEMMA UpdateType ==
  ASSUME ServerTypeOK, PendingRevisionsExist, NEW origin \in Origins,
         updatePadClients(origin), UNCHANGED revisions
  PROVE  /\ reads' \subseteq [origin: Origins, sock: Sockets, rev: Nat]
         /\ \A rd \in reads' : rd.rev \in 1..head'
<1>1. \A s \in room : s \in Sockets /\ sessionRev[s] \in Nat
  BY DEF ServerTypeOK
<1>2. head \in Nat /\ head' = head
  BY HeadType DEF head
<1>3. ASSUME NEW s \in room, sessionRev[s] < head
      PROVE  sessionRev[s] + 1 \in 1..head
  BY <1>1, <1>2, <1>3
<1> QED
  BY <1>1, <1>2, <1>3 DEF updatePadClients, ServerTypeOK, PendingRevisionsExist

LEMMA ArrivalType ==
  ASSUME ServerTypeOK, NEW s \in Sockets, NEW a \in Arrivals,
         arriving' = [arriving EXCEPT ![s] = a]
  PROVE  /\ arriving' \in [Sockets -> Arrivals]
         /\ \A t \in Sockets : arriving'[t] = IF t = s THEN a ELSE arriving[t]
BY DEF ServerTypeOK

LEMMA SettleArrivalType ==
  ASSUME ServerTypeOK, NEW s \in Sockets,
         arriving' = [arriving EXCEPT ![s] = NotArriving]
  PROVE  /\ arriving' \in [Sockets -> Arrivals]
         /\ \A t \in Sockets : arriving'[t].pc = "returning" => arriving'[t] = arriving[t]
<1>1. NotArriving \in Arrivals /\ NotArriving.pc = "none"
  BY DEF Arrivals, NotArriving
<1> QED
  BY <1>1, ArrivalType

(* The shapes of the running task. *)
LateTasks == [pc: {"appended", "corrected", "accepted", "flushing"}, sock: Sockets,
              r: Nat, newRev: Nat]

LEMMA LateTaskType ==
  ASSUME ServerTypeOK, task.pc \in {"appended", "corrected", "accepted", "flushing"}
  PROVE  task \in LateTasks
<1>1. task \in Tasks
  BY DEF ServerTypeOK
<1> QED
  BY <1>1 DEF Tasks, Idle, LateTasks

LEMMA NextTaskType ==
  ASSUME NEW t \in LateTasks, NEW pc \in {"appended", "corrected", "accepted", "flushing"}
  PROVE  [t EXCEPT !.pc = pc] \in Tasks
<1>1. [t EXCEPT !.pc = pc] \in LateTasks
  BY DEF LateTasks
<1> QED
  BY <1>1 DEF Tasks, LateTasks

LEMMA RebaseTaskType ==
  ASSUME ServerTypeOK, task.pc = "rebase"
  PROVE  task \in [pc: {"rebase"}, sock: Sockets, r: Nat, canonicalCs: Changesets,
                   changeset: Changesets]
<1>1. task \in Tasks
  BY DEF ServerTypeOK
<1> QED
  BY <1>1 DEF Tasks, Idle

LEMMA FlushStepType ==
  ASSUME TypeInv, UNCHANGED clientVars,
         \/ \E rd \in reads : SendRevision(rd)
         \/ FlushChanges
         \/ \E s \in Sockets : CatchUp(s)
         \/ \E k \in 1..MaxApi : ApiUpdateClients(k)
  PROVE  TypeInv'
<1>1. NetTypeOK /\ ClientTypeOK' /\ ServerTypeOK /\ PendingRevisionsExist
  BY ClientUnchanged DEF TypeInv, TypeOK
<1>2. ASSUME NEW rd \in reads, SendRevision(rd)
      PROVE  TypeInv'
  <2>1. rd \in [origin: Origins, sock: Sockets, rev: Nat] /\ rd.rev \in 1..head
    BY <1>1 DEF ServerTypeOK, PendingRevisionsExist
  <2>2. newChanges(rd.rev) \in DownMessages
    BY <1>1, <2>1, RevisionType DEF newChanges, DownMessages
  <2>3. NetTypeOK'
    BY <1>1, <1>2, <2>1, <2>2, EmitType DEF SendRevision
  <2>4. head' = head /\ head \in Nat
    BY <1>1, <1>2, HeadType DEF SendRevision, head
  <2>5. \A r \in {rd.rev + 1} \cap 1..head :
           /\ [rd EXCEPT !.rev = r] \in [origin: Origins, sock: Sockets, rev: Nat]
           /\ [rd EXCEPT !.rev = r].rev = r
    BY <2>1, <2>4
  <2>6. ServerTypeOK'
    BY <1>1, <1>2, <2>1, <2>5 DEF SendRevision, ServerTypeOK
  <2>7. \A r \in reads' : r.rev \in 1..head
    BY <1>1, <1>2, <2>5 DEF SendRevision, PendingRevisionsExist
  <2>8. PendingRevisionsExist'
    BY <1>1, <1>2, <2>4, <2>7 DEF SendRevision, PendingRevisionsExist
  <2> QED
    BY <1>1, <2>3, <2>6, <2>8 DEF TypeInv, TypeOK
<1>3. CASE FlushChanges
  <2>1. TaskFlush \in Origins
    BY DEF Origins
  <2>2. /\ reads' \subseteq [origin: Origins, sock: Sockets, rev: Nat]
        /\ \A rd \in reads' : rd.rev \in 1..head'
    BY <1>1, <1>3, <2>1, UpdateType DEF FlushChanges
  <2>3. task' \in Tasks
    BY <1>1, <1>3, LateTaskType, NextTaskType DEF FlushChanges
  <2>4. ServerTypeOK' /\ PendingRevisionsExist'
    BY <1>1, <1>3, <2>2, <2>3 DEF FlushChanges, ServerTypeOK, PendingRevisionsExist, head
  <2> QED
    BY <1>1, <1>3, <2>4, NetUnchanged DEF FlushChanges, TypeInv, TypeOK
<1>4. ASSUME NEW s \in Sockets, CatchUp(s)
      PROVE  TypeInv'
  <2>1. JoinFlush(s) \in Origins
    BY DEF Origins
  <2>2. arriving' = [arriving EXCEPT ![s] = NotArriving]
    BY <1>4 DEF CatchUp
  <2>3. /\ reads' \subseteq [origin: Origins, sock: Sockets, rev: Nat]
        /\ \A rd \in reads' : rd.rev \in 1..head'
    BY <1>1, <1>4, <2>1, UpdateType DEF CatchUp
  <2>4. ServerTypeOK' /\ PendingRevisionsExist'
    BY <1>1, <1>4, <2>2, <2>3, SettleArrivalType
       DEF CatchUp, ServerTypeOK, PendingRevisionsExist, head
  <2> QED
    BY <1>1, <1>4, <2>4, NetUnchanged DEF CatchUp, TypeInv, TypeOK
<1>5. ASSUME NEW k \in 1..MaxApi, ApiUpdateClients(k)
      PROVE  TypeInv'
  <2>1. ApiFlush(k) \in Origins
    BY DEF Origins
  <2>2. /\ reads' \subseteq [origin: Origins, sock: Sockets, rev: Nat]
        /\ \A rd \in reads' : rd.rev \in 1..head'
    BY <1>1, <1>5, <2>1, UpdateType DEF ApiUpdateClients
  <2>3. ServerTypeOK' /\ PendingRevisionsExist'
    BY <1>1, <1>5, <2>2 DEF ApiUpdateClients, ServerTypeOK, PendingRevisionsExist, head
  <2> QED
    BY <1>1, <1>5, <2>3, NetUnchanged DEF ApiUpdateClients, TypeInv, TypeOK
<1> QED
  BY <1>2, <1>3, <1>4, <1>5

LEMMA RebasedType ==
  ASSUME NEW t \in [pc: {"rebase"}, sock: Sockets, r: Nat, canonicalCs: Changesets,
                    changeset: Changesets],
         NEW cs \in Changesets
  PROVE  [t EXCEPT !.r = @ + 1, !.changeset = cs] \in Tasks
<1>1. t.r + 1 \in Nat
  OBVIOUS
<1>2. [t EXCEPT !.r = t.r + 1, !.changeset = cs] \in
         [pc: {"rebase"}, sock: Sockets, r: Nat, canonicalCs: Changesets,
          changeset: Changesets]
  BY <1>1
<1> QED
  BY <1>2 DEF Tasks

LEMMA CorrectionType ==
  ASSUME ServerTypeOK, CorrectMarkers
  PROVE  /\ [edits |-> {<<Fix, Cardinality(Corrections) + 1>>},
             oldLen |-> LengthAt(revisions, head)] \in Changesets
         /\ thisAuthor \in Authors \cup {Api}
<1>1. IsFiniteSet(1..head)
  BY HeadType, FS_Interval
<1>2. Cardinality(Corrections) \in Nat
  BY <1>1, FS_Subset, FS_CardinalityType DEF Corrections
<1>3. Cardinality(Corrections) + 1 \in 1..MaxFix
  BY <1>2, BoundsAssumption DEF CorrectMarkers
<1>4. {<<Fix, Cardinality(Corrections) + 1>>} \in SUBSET Edits
  BY <1>3 DEF Edits, FixEdits
<1>5. task \in LateTasks
  BY LateTaskType DEF CorrectMarkers
<1>6. thisAuthor \in Authors \cup {Api}
  BY <1>5, AuthorType DEF thisAuthor, LateTasks
<1> QED
  BY <1>4, <1>6, HeadType DEF Changesets

LEMMA UserChangesType ==
  ASSUME TypeInv, UserChangesStep, UNCHANGED clientVars
  PROVE  TypeInv'
<1>1. NetTypeOK /\ ClientTypeOK' /\ ServerTypeOK /\ PendingRevisionsExist
  BY ClientUnchanged DEF TypeInv, TypeOK
<1>2. Idle \in Tasks
  BY DEF Tasks
<1>3. CASE StartUserChanges
  <2> DEFINE queued == Head(padChannel)
  <2>1. /\ queued \in [sock: Sockets, baseRev: Nat, changeset: Changesets]
        /\ padChannel' \in Seq([sock: Sockets, baseRev: Nat, changeset: Changesets])
    BY <1>1, <1>3, HeadTailProperties DEF ServerTypeOK, StartUserChanges
  <2>2. NetTypeOK' /\ task' \in Tasks
    <3>1. CASE UNCHANGED <<down, task>>
      BY <1>1, <1>3, <3>1 DEF StartUserChanges, NetTypeOK, ServerTypeOK
    <3>2. CASE BadChangeset(queued.sock)
      BY <1>1, <1>3, <2>1, <3>2, BadChangesetType DEF StartUserChanges
    <3>3. CASE /\ task' = [pc |-> "rebase", sock |-> queued.sock, r |-> queued.baseRev,
                           canonicalCs |-> queued.changeset, changeset |-> queued.changeset]
               /\ UNCHANGED down
      BY <1>1, <1>3, <2>1, <3>3 DEF StartUserChanges, NetTypeOK, Tasks
    <3> QED
      BY <1>3, <3>1, <3>2, <3>3 DEF StartUserChanges
  <2> QED
    BY <1>1, <1>3, <2>1, <2>2
       DEF StartUserChanges, TypeInv, TypeOK, ServerTypeOK, PendingRevisionsExist, head
<1>4. CASE Rebase
  <2> DEFINE c == revisions[task.r + 1]
             mine == IF IsRetransmission(c) THEN Identity(task.canonicalCs.oldLen)
                                            ELSE task.changeset
  <2>1. task \in [pc: {"rebase"}, sock: Sockets, r: Nat, canonicalCs: Changesets,
                  changeset: Changesets]
    BY <1>1, <1>4, RebaseTaskType DEF Rebase
  <2>2. c.changeset \in Changesets
    <3>1. task.r + 1 \in 1..head
      BY <1>1, <1>4, <2>1, HeadType DEF Rebase
    <3> QED
      BY <1>1, <3>1, RevisionType
  <2>3. mine \in Changesets
    BY <2>1 DEF Identity, Changesets
  <2>4. Follow(c.changeset, mine) \in Changesets
    BY <2>2, <2>3, NewLenType DEF Follow, Changesets
  <2> HIDE DEF c, mine
  <2>5. NetTypeOK' /\ task' \in Tasks
    <3>1. CASE /\ task' = [task EXCEPT !.r = @ + 1, !.changeset = Follow(c.changeset, mine)]
               /\ UNCHANGED down
      <4>1. task' \in Tasks
        BY <2>1, <2>4, <3>1, RebasedType
      <4>2. NetTypeOK'
        BY <1>1, <1>4, <3>1, NetUnchanged DEF Rebase, netVars
      <4> QED
        BY <4>1, <4>2
    <3>2. CASE BadChangeset(task.sock)
      BY <1>1, <1>4, <2>1, <3>2, BadChangesetType DEF Rebase
    <3> QED
      BY <1>4, <3>1, <3>2 DEF Rebase, c, mine
  <2> QED
    BY <1>1, <1>4, <2>5
       DEF Rebase, TypeInv, TypeOK, ServerTypeOK, PendingRevisionsExist, head
<1>5. CASE AppendChanges
  <2>1. task \in [pc: {"rebase"}, sock: Sockets, r: Nat, canonicalCs: Changesets,
                  changeset: Changesets]
    BY <1>1, <1>5, RebaseTaskType DEF AppendChanges
  <2>2. \A n \in Nat : [pc |-> "appended", sock |-> task.sock, r |-> task.r,
                        newRev |-> n] \in Tasks
    BY <2>1 DEF Tasks
  <2>3. head \in Nat
    BY <1>1, HeadType
  <2>4. CASE BadChangeset(task.sock) /\ UNCHANGED revisions
    BY <1>1, <1>5, <2>1, <2>4, BadChangesetType
       DEF AppendChanges, TypeInv, TypeOK, ServerTypeOK, PendingRevisionsExist, head
  <2>5. CASE /\ task' = [pc |-> "appended", sock |-> task.sock, r |-> task.r,
                         newRev |-> head]
             /\ UNCHANGED <<revisions, down>>
    BY <1>1, <1>5, <2>2, <2>3, <2>5
       DEF AppendChanges, TypeInv, TypeOK, NetTypeOK, ServerTypeOK,
           PendingRevisionsExist, head
  <2>6. CASE /\ appendRevision(task.changeset, thisAuthor)
             /\ task' = [pc |-> "appended", sock |-> task.sock, r |-> task.r,
                         newRev |-> head + 1]
             /\ UNCHANGED down
    <3>1. thisAuthor \in Authors \cup {Api}
      BY <2>1, AuthorType DEF thisAuthor
    <3>2. revisions' \in Seq(Revisions) /\ PendingRevisionsExist'
      BY <1>1, <1>5, <2>1, <2>6, <3>1, AppendType DEF AppendChanges
    <3>3. task' \in Tasks
      BY <2>2, <2>3, <2>6
    <3> QED
      BY <1>1, <1>5, <2>6, <3>2, <3>3
         DEF AppendChanges, TypeInv, TypeOK, NetTypeOK, ServerTypeOK
  <2> QED
    BY <1>5, <2>4, <2>5, <2>6 DEF AppendChanges
<1>6. CASE CorrectMarkers
  <2> DEFINE fix == [edits |-> {<<Fix, Cardinality(Corrections) + 1>>},
                     oldLen |-> LengthAt(revisions, head)]
  <2>1. task \in LateTasks
    BY <1>1, <1>6, LateTaskType DEF CorrectMarkers
  <2>2. fix \in Changesets /\ thisAuthor \in Authors \cup {Api}
    BY <1>1, <1>6, CorrectionType
  <2>4. appendRevision(fix, thisAuthor) /\ UNCHANGED <<arriving, reads>>
    BY <1>6 DEF CorrectMarkers
  <2> HIDE DEF fix
  <2>5. revisions' \in Seq(Revisions) /\ PendingRevisionsExist'
    BY <1>1, <2>2, <2>4, AppendType
  <2>6. task' \in Tasks
    BY <1>6, <2>1, NextTaskType DEF CorrectMarkers
  <2> QED
    BY <1>1, <1>6, <2>5, <2>6, NetUnchanged
       DEF CorrectMarkers, TypeInv, TypeOK, ServerTypeOK
<1>7. CASE AcceptCommit
  <2>1. task \in LateTasks
    BY <1>1, <1>7, LateTaskType DEF AcceptCommit
  <2>2. task.sock \in Sockets /\ task.newRev \in Nat
    BY <2>1 DEF LateTasks
  <2>3. CASE /\ Emit(task.sock, [type |-> "ACCEPT_COMMIT", newRev |-> task.newRev])
             /\ sessionRev' = [sessionRev EXCEPT ![task.sock] = task.newRev]
             /\ task' = [task EXCEPT !.pc = "accepted"]
    <3>1. [type |-> "ACCEPT_COMMIT", newRev |-> task.newRev] \in DownMessages
      BY <2>2 DEF DownMessages
    <3>2. NetTypeOK'
      BY <1>1, <1>7, <2>2, <2>3, <3>1, EmitType DEF AcceptCommit
    <3>3. task' \in Tasks
      BY <2>1, <2>3, NextTaskType
    <3>4. sessionRev' \in [Sockets -> Nat]
      BY <1>1, <2>2, <2>3 DEF ServerTypeOK
    <3> QED
      BY <1>1, <1>7, <3>2, <3>3, <3>4
         DEF AcceptCommit, TypeInv, TypeOK, ServerTypeOK, PendingRevisionsExist, head
  <2>4. CASE BadChangeset(task.sock) /\ UNCHANGED sessionRev
    BY <1>1, <1>7, <2>2, <2>4, BadChangesetType
       DEF AcceptCommit, TypeInv, TypeOK, ServerTypeOK, PendingRevisionsExist, head
  <2> QED
    BY <1>7, <2>3, <2>4 DEF AcceptCommit
<1>8. CASE FlushChanges
  BY <1>8, FlushStepType
<1>9. CASE FinishUserChanges
  BY <1>1, <1>2, <1>9, NetUnchanged
     DEF FinishUserChanges, TypeInv, TypeOK, ServerTypeOK, PendingRevisionsExist, head
<1> QED
  BY <1>3, <1>4, <1>5, <1>6, <1>7, <1>8, <1>9 DEF UserChangesStep

LEMMA EnterPadType ==
  ASSUME TypeInv, NEW s \in Sockets, EnterPad(s), UNCHANGED clientVars
  PROVE  TypeInv'
<1>1. NetTypeOK /\ ClientTypeOK' /\ ServerTypeOK /\ PendingRevisionsExist
  BY ClientUnchanged DEF TypeInv, TypeOK
<1>2. arriving[s] \in [pc: {"entered"}, reconnect: BOOLEAN, client_rev: Nat]
  <2>1. arriving[s] \in Arrivals /\ arriving[s].pc = "entered"
    BY <1>1 DEF EnterPad, ServerTypeOK
  <2> QED
    BY <2>1 DEF Arrivals, NotArriving
<1>3. NetTypeOK'
  <2>1. disconnect("userdup") \in DownMessages
    BY DEF disconnect, DownMessages
  <2>2. \A t \in Sockets : /\ down[t] \in Seq(DownMessages)
                           /\ Append(down[t], disconnect("userdup")) \in Seq(DownMessages)
    BY <1>1, <2>1, AppendProperties DEF NetTypeOK
  <2>3. down' \in [Sockets -> Seq(DownMessages)]
    BY <2>2 DEF EnterPad
  <2> QED
    BY <1>1, <2>3 DEF EnterPad, NetTypeOK
<1>4. head \in Nat /\ head' = head /\ TextAt(revisions, head) \in Texts
  BY <1>1, HeadType DEF EnterPad, head
<1>5. sessioninfos' \in [Sockets -> {"absent", "empty", "ready"}]
  BY <1>1 DEF EnterPad, ServerTypeOK
<1>6. CASE arriving[s].reconnect
  <2> DEFINE a == [pc |-> "returning", first |-> arriving[s].client_rev + 1, last |-> head]
  <2>1. a \in Arrivals /\ a.first >= 1 /\ a.last <= head
    BY <1>2, <1>4 DEF Arrivals
  <2>2. arriving' = [arriving EXCEPT ![s] = a]
    BY <1>6 DEF EnterPad, returning
  <2> HIDE DEF a
  <2>3. /\ arriving' \in [Sockets -> Arrivals]
        /\ \A t \in Sockets : arriving'[t] = IF t = s THEN a ELSE arriving[t]
    BY <1>1, <2>1, <2>2, ArrivalType
  <2>4. PendingRevisionsExist'
    BY <1>1, <1>4, <2>1, <2>3 DEF EnterPad, PendingRevisionsExist
  <2>5. room' \subseteq Sockets /\ sessionRev' \in [Sockets -> Nat]
    BY <1>1, <1>2, <1>6 DEF EnterPad, ServerTypeOK, RoomWithout
  <2>6. ServerTypeOK'
    BY <1>1, <1>5, <2>3, <2>5 DEF EnterPad, ServerTypeOK
  <2> QED
    BY <1>1, <1>3, <2>4, <2>6 DEF TypeInv, TypeOK
<1>7. CASE ~arriving[s].reconnect
  <2> DEFINE a == [pc |-> "joining", rev |-> head, text |-> TextAt(revisions, head)]
  <2>1. a \in Arrivals /\ a.pc = "joining"
    BY <1>4 DEF Arrivals
  <2>2. arriving' = [arriving EXCEPT ![s] = a]
    BY <1>7 DEF EnterPad, snapshot
  <2> HIDE DEF a
  <2>3. /\ arriving' \in [Sockets -> Arrivals]
        /\ \A t \in Sockets : arriving'[t] = IF t = s THEN a ELSE arriving[t]
    BY <1>1, <2>1, <2>2, ArrivalType
  <2>4. PendingRevisionsExist'
    BY <1>1, <1>4, <2>1, <2>3 DEF EnterPad, PendingRevisionsExist
  <2>5. room' \subseteq Sockets /\ UNCHANGED sessionRev
    BY <1>1, <1>7 DEF EnterPad, ServerTypeOK, RoomWithout
  <2>6. ServerTypeOK'
    BY <1>1, <1>5, <2>3, <2>5 DEF EnterPad, ServerTypeOK
  <2> QED
    BY <1>1, <1>3, <2>4, <2>6 DEF TypeInv, TypeOK
<1> QED
  BY <1>6, <1>7

LEMMA MissedMessage ==
  ASSUME NEW n \in Nat, NEW r \in Nat, NEW cs \in Changesets,
         NEW author \in Authors \cup {Api}
  PROVE  [type |-> "CLIENT_RECONNECT", noChanges |-> FALSE, headRev |-> n,
          newRev |-> r, changeset |-> cs, author |-> author] \in DownMessages
<1>1. [type |-> "CLIENT_RECONNECT", noChanges |-> FALSE, headRev |-> n,
       newRev |-> r, changeset |-> cs, author |-> author]
         \in [type: {"CLIENT_RECONNECT"}, noChanges: {FALSE}, headRev: Nat, newRev: Nat,
              changeset: Changesets, author: Authors \cup {Api}]
  OBVIOUS
<1> QED
  BY <1>1 DEF DownMessages

LEMMA NoChangesMessage ==
  ASSUME NEW n \in Nat
  PROVE  [type |-> "CLIENT_RECONNECT", noChanges |-> TRUE, newRev |-> n] \in DownMessages
<1>1. [type |-> "CLIENT_RECONNECT", noChanges |-> TRUE, newRev |-> n]
         \in [type: {"CLIENT_RECONNECT"}, noChanges: {TRUE}, newRev: Nat]
  OBVIOUS
<1> QED
  BY <1>1 DEF DownMessages

(* What a returning client is sent: revisions it asked for, as they are     *)
(* stored.                                                                  *)
StoredRevision(m) ==
    /\ m.newRev \in 1..head
    /\ m.changeset = revisions[m.newRev].changeset
    /\ m.author = revisions[m.newRev].author

LEMMA SendMissedMessages ==
  ASSUME TypeInv, NEW s \in Sockets, SendMissed(s)
  PROVE  \E msgs \in Seq(DownMessages) :
            /\ down' = Emitted(down, s, msgs)
            /\ \A i \in 1..Len(msgs) :
                  /\ msgs[i].type = "CLIENT_RECONNECT"
                  /\ ~msgs[i].noChanges => StoredRevision(msgs[i])
<1>1. NetTypeOK /\ ServerTypeOK /\ PendingRevisionsExist
  BY DEF TypeInv, TypeOK
<1> DEFINE first == arriving[s].first
           last == arriving[s].last
           missed == [i \in 1..(last - first + 1) |->
                        [type |-> "CLIENT_RECONNECT", noChanges |-> FALSE,
                         headRev |-> head, newRev |-> first + i - 1,
                         changeset |-> revisions[first + i - 1].changeset,
                         author |-> revisions[first + i - 1].author]]
           nothing == <<[type |-> "CLIENT_RECONNECT", noChanges |-> TRUE, newRev |-> head]>>
<1>2. first \in Nat /\ last \in Nat /\ first >= 1 /\ last <= head
  <2>1. arriving[s] \in Arrivals /\ arriving[s].pc = "returning"
    BY <1>1 DEF SendMissed, ServerTypeOK
  <2>2. arriving[s] \in [pc: {"returning"}, first: Nat, last: Nat]
    BY <2>1 DEF Arrivals, NotArriving
  <2> QED
    BY <1>1, <2>1, <2>2 DEF PendingRevisionsExist
<1>3. head \in Nat
  BY <1>1, HeadType
<1>4. /\ missed \in Seq(DownMessages)
      /\ \A i \in 1..Len(missed) : /\ missed[i].type = "CLIENT_RECONNECT"
                                    /\ StoredRevision(missed[i])
  <2>1. ASSUME NEW i \in 1..(last - first + 1)
        PROVE  /\ missed[i] \in DownMessages /\ missed[i].type = "CLIENT_RECONNECT"
               /\ StoredRevision(missed[i])
    <3>1. first + i - 1 \in 1..head
      BY <1>2, <1>3
    <3>2. /\ revisions[first + i - 1].changeset \in Changesets
          /\ revisions[first + i - 1].author \in Authors \cup {Api}
      BY <1>1, <3>1, RevisionType
    <3>3. missed[i] = [type |-> "CLIENT_RECONNECT", noChanges |-> FALSE,
                       headRev |-> head, newRev |-> first + i - 1,
                       changeset |-> revisions[first + i - 1].changeset,
                       author |-> revisions[first + i - 1].author]
      OBVIOUS
    <3>4. first + i - 1 \in Nat
      BY <3>1
    <3> HIDE DEF missed, first
    <3>5. missed[i] \in DownMessages
      BY <1>3, <3>2, <3>3, <3>4, MissedMessage
    <3> QED
      BY <3>1, <3>3, <3>5 DEF StoredRevision
  <2>2. \E n \in Nat : missed \in [1..n -> DownMessages] /\ 1..n = 1..(last - first + 1)
    <3>1. missed \in [1..(last - first + 1) -> DownMessages]
      BY <2>1
    <3>2. CASE last - first + 1 \in Nat
      BY <3>1, <3>2
    <3>3. CASE last - first + 1 \notin Nat
      <4>1. 1..(last - first + 1) = 1..0
        BY <1>2, <3>3
      <4> HIDE DEF missed
      <4> QED
        BY <3>1, <4>1
    <3> QED
      BY <3>2, <3>3
  <2> HIDE DEF missed, first, last
  <2>3. PICK n \in Nat : missed \in [1..n -> DownMessages] /\ 1..n = 1..(last - first + 1)
    BY <2>2
  <2>4. missed \in Seq(DownMessages) /\ Len(missed) = n
    BY <2>3, IsASeq
  <2> QED
    BY <2>1, <2>3, <2>4
<1>5. /\ nothing \in Seq(DownMessages)
      /\ \A i \in 1..Len(nothing) : nothing[i].type = "CLIENT_RECONNECT" /\ nothing[i].noChanges
  <2>1. [type |-> "CLIENT_RECONNECT", noChanges |-> TRUE, newRev |-> head] \in DownMessages
    BY <1>3, NoChangesMessage
  <2> QED
    BY <2>1
<1>6. down' = Emitted(down, s, IF missed = <<>> THEN nothing ELSE missed)
  BY DEF SendMissed
<1> HIDE DEF missed, nothing
<1>7. CASE missed = <<>>
  BY <1>5, <1>6, <1>7
<1>8. CASE missed # <<>>
  BY <1>4, <1>6, <1>8
<1> QED
  BY <1>7, <1>8

LEMMA SendMissedType ==
  ASSUME TypeInv, NEW s \in Sockets, SendMissed(s), UNCHANGED clientVars
  PROVE  TypeInv'
<1>1. NetTypeOK /\ ClientTypeOK' /\ ServerTypeOK /\ PendingRevisionsExist
  BY ClientUnchanged DEF TypeInv, TypeOK
<1>2. PICK msgs \in Seq(DownMessages) : down' = Emitted(down, s, msgs)
  BY SendMissedMessages
<1>3. NetTypeOK'
  <2>1. down' \in [Sockets -> Seq(DownMessages)]
    BY <1>1, <1>2, EmittedType
  <2> QED
    BY <1>1, <2>1 DEF SendMissed, NetTypeOK
<1>4. arriving' = [arriving EXCEPT ![s] = NotArriving]
  BY DEF SendMissed
<1>5. ServerTypeOK' /\ PendingRevisionsExist'
  BY <1>1, <1>4, SettleArrivalType DEF SendMissed, ServerTypeOK, PendingRevisionsExist, head
<1> QED
  BY <1>1, <1>3, <1>5 DEF TypeInv, TypeOK

LEMMA HandleMessageType ==
  ASSUME TypeInv, NEW s \in Sockets, HandleMessage(s), UNCHANGED clientVars
  PROVE  TypeInv'
<1>1. NetTypeOK /\ ClientTypeOK' /\ ServerTypeOK /\ PendingRevisionsExist
  BY ClientUnchanged DEF TypeInv, TypeOK
<1> DEFINE msg == Head(up[s])
<1>2. msg \in UpMessages /\ Tail(up[s]) \in Seq(UpMessages)
  <2>1. up[s] \in Seq(UpMessages) /\ up[s] # <<>>
    BY <1>1 DEF HandleMessage, NetTypeOK
  <2> QED
    BY <2>1, HeadTailProperties
<1>3. NetTypeOK'
  BY <1>1, <1>2 DEF HandleMessage, NetTypeOK
<1> HIDE DEF msg
<1>4. CASE /\ msg.type = "CLIENT_READY"
           /\ sessioninfos' = [sessioninfos EXCEPT ![s] = "ready"]
           /\ arriving' = [arriving EXCEPT ![s] = [pc |-> "entered",
                 reconnect |-> msg.reconnect, client_rev |-> msg.client_rev]]
           /\ UNCHANGED padChannel
  <2> DEFINE a == [pc |-> "entered", reconnect |-> msg.reconnect,
                   client_rev |-> msg.client_rev]
  <2>1. msg.reconnect \in BOOLEAN /\ msg.client_rev \in Nat
    BY <1>2, <1>4 DEF UpMessages
  <2>2. a \in Arrivals /\ a.pc = "entered"
    BY <2>1 DEF Arrivals
  <2>3. arriving' = [arriving EXCEPT ![s] = a]
    BY <1>4
  <2> HIDE DEF a
  <2>4. /\ arriving' \in [Sockets -> Arrivals]
        /\ \A t \in Sockets : arriving'[t] = IF t = s THEN a ELSE arriving[t]
    BY <1>1, <2>2, <2>3, ArrivalType
  <2>5. ServerTypeOK' /\ PendingRevisionsExist'
    BY <1>1, <1>4, <2>2, <2>4
       DEF HandleMessage, ServerTypeOK, PendingRevisionsExist, head
  <2> QED
    BY <1>1, <1>3, <2>5 DEF TypeInv, TypeOK
<1>5. CASE /\ msg.type = "USER_CHANGES"
           /\ padChannel' = IF sessioninfos[s] = "empty" THEN padChannel
                            ELSE Append(padChannel, [sock |-> s, baseRev |-> msg.baseRev,
                                                     changeset |-> msg.changeset])
           /\ UNCHANGED <<sessioninfos, arriving>>
  <2>1. msg.baseRev \in Nat /\ msg.changeset \in Changesets
    BY <1>2, <1>5 DEF UpMessages
  <2>2. padChannel' \in Seq([sock: Sockets, baseRev: Nat, changeset: Changesets])
    BY <1>1, <1>5, <2>1, AppendProperties DEF ServerTypeOK
  <2>3. ServerTypeOK' /\ PendingRevisionsExist'
    BY <1>1, <1>5, <2>2 DEF HandleMessage, ServerTypeOK, PendingRevisionsExist, head
  <2> QED
    BY <1>1, <1>3, <2>3 DEF TypeInv, TypeOK
<1> QED
  BY <1>4, <1>5 DEF HandleMessage, msg

LEMMA SocketStepType ==
  ASSUME TypeInv, NEW s \in Sockets, SocketStep(s), UNCHANGED clientVars
  PROVE  TypeInv'
<1>1. NetTypeOK /\ ClientTypeOK' /\ ServerTypeOK /\ PendingRevisionsExist
  BY ClientUnchanged DEF TypeInv, TypeOK
<1>2. CASE HandleDisconnect(s)
  <2>1. NetTypeOK'
    BY <1>1, <1>2, EmptySeq DEF HandleDisconnect, NetTypeOK
  <2>2. ServerTypeOK' /\ PendingRevisionsExist'
    BY <1>1, <1>2 DEF HandleDisconnect, ServerTypeOK, PendingRevisionsExist, head
  <2> QED
    BY <1>1, <2>1, <2>2 DEF TypeInv, TypeOK
<1>3. CASE AbandonEntry(s)
  <2>1. arriving' = [arriving EXCEPT ![s] = NotArriving]
    BY <1>3 DEF AbandonEntry
  <2>2. ServerTypeOK' /\ PendingRevisionsExist'
    BY <1>1, <1>3, <2>1, SettleArrivalType
       DEF AbandonEntry, ServerTypeOK, PendingRevisionsExist, head
  <2> QED
    BY <1>1, <1>3, <2>2, NetUnchanged DEF AbandonEntry, TypeInv, TypeOK
<1>4. CASE JoinPad(s)
  <2>1. arriving[s] \in [pc: {"joining"}, rev: Nat, text: Texts]
    <3>1. arriving[s] \in Arrivals /\ arriving[s].pc = "joining"
      BY <1>1, <1>4 DEF JoinPad, ServerTypeOK
    <3> QED
      BY <3>1 DEF Arrivals, NotArriving
  <2>2. [type |-> "CLIENT_VARS", rev |-> arriving[s].rev, text |-> arriving[s].text]
           \in DownMessages
    BY <2>1 DEF DownMessages
  <2>3. NetTypeOK'
    BY <1>1, <1>4, <2>2, EmitType DEF JoinPad, clientVarsOf
  <2>4. [pc |-> "joined"] \in Arrivals /\ arriving' = [arriving EXCEPT ![s] = [pc |-> "joined"]]
    BY <1>4 DEF JoinPad, Arrivals
  <2>5. /\ arriving' \in [Sockets -> Arrivals]
        /\ \A t \in Sockets : arriving'[t] = IF t = s THEN [pc |-> "joined"] ELSE arriving[t]
    BY <1>1, <2>4, ArrivalType
  <2>6. PendingRevisionsExist'
    BY <1>1, <1>4, <2>5 DEF JoinPad, PendingRevisionsExist, head
  <2>7. room' \subseteq Sockets /\ sessionRev' \in [Sockets -> Nat]
    BY <1>1, <1>4, <2>1 DEF JoinPad, ServerTypeOK
  <2>8. ServerTypeOK'
    BY <1>1, <1>4, <2>5, <2>7 DEF JoinPad, ServerTypeOK
  <2> QED
    BY <1>1, <2>3, <2>6, <2>8 DEF TypeInv, TypeOK
<1> QED
  BY <1>2, <1>3, <1>4, HandleMessageType, EnterPadType, SendMissedType, FlushStepType
     DEF SocketStep

LEMMA OpenConnectionType ==
  ASSUME TypeInv, NEW c \in Clients, OpenConnection(c)
  PROVE  TypeInv'
<1>1. NetTypeOK /\ ClientTypeOK /\ ServerTypeOK /\ PendingRevisionsExist
  BY DEF TypeInv, TypeOK
<1>2. ServerTypeOK' /\ PendingRevisionsExist'
  BY <1>1 DEF OpenConnection, HandleConnect, ServerTypeOK, PendingRevisionsExist, head
<1>3. \A b \in BOOLEAN, n \in Nat : clientReady(b, n) \in UpMessages
  BY DEF clientReady, UpMessages
<1>4. CASE Connect(c)
  <2>1. NetTypeOK'
    BY <1>1, <1>3, <1>4, OpenType DEF Connect
  <2>2. ClientTypeOK'
    BY <1>1, <1>4 DEF Connect, ClientTypeOK, Modes
  <2> QED
    BY <1>2, <2>1, <2>2 DEF TypeInv, TypeOK
<1>5. CASE Reconnect(c)
  <2>1. receivedClientVars[c] \in BOOLEAN /\ rev[c] \in Nat
    BY <1>1 DEF ClientTypeOK
  <2>2. NetTypeOK'
    BY <1>1, <1>3, <1>5, <2>1, OpenType DEF Reconnect
  <2>3. ClientTypeOK'
    BY <1>1, <1>5, <2>1 DEF Reconnect, ClientTypeOK, Modes
  <2> QED
    BY <1>2, <2>2, <2>3 DEF TypeInv, TypeOK
<1> QED
  BY <1>4, <1>5 DEF OpenConnection

LEMMA ApiCallerType ==
  ASSUME TypeInv, ApiCaller
  PROVE  TypeInv'
<1>1. NetTypeOK /\ ClientTypeOK /\ ServerTypeOK /\ PendingRevisionsExist
  BY DEF TypeInv, TypeOK
<1>2. PICK k \in 1..MaxApi : ApiAppend(k) /\ UNCHANGED clientVars
  BY DEF ApiCaller
<1> DEFINE cs == [edits |-> {<<Api, k>>}, oldLen |-> LengthAt(revisions, head)]
<1>3. cs \in Changesets
  BY <1>1, <1>2, HeadType DEF Changesets, Edits, ApiEdits
<1>4. appendRevision(cs, Api) /\ UNCHANGED <<arriving, reads>>
  BY <1>2 DEF ApiAppend, apiChangeset
<1> HIDE DEF cs
<1>5. revisions' \in Seq(Revisions) /\ PendingRevisionsExist'
  BY <1>1, <1>3, <1>4, AppendType
<1>6. ServerTypeOK'
  BY <1>1, <1>2, <1>5 DEF ApiAppend, ServerTypeOK
<1> QED
  BY <1>1, <1>2, <1>5, <1>6, NetUnchanged, ClientUnchanged DEF ApiAppend, TypeInv, TypeOK

LEMMA TypeStep == TypeInv /\ [Next]_vars => TypeInv'
<1> SUFFICES ASSUME TypeInv, [Next]_vars PROVE TypeInv'
  OBVIOUS
<1>1. CASE Server
  BY <1>1, UserChangesType, SocketStepType, FlushStepType DEF Server, ServerStep
<1>2. CASE ApiCaller
  BY <1>2, ApiCallerType
<1>3. CASE \E c \in Clients : OpenConnection(c) \/ Browser(c) \/ Environment(c)
  BY <1>3, OpenConnectionType, BrowserType, EnvironmentType
<1>4. CASE UNCHANGED vars
  BY <1>4, NetUnchanged, ClientUnchanged, ServerUnchanged DEF vars, TypeInv, TypeOK
<1> QED
  BY <1>1, <1>2, <1>3, <1>4 DEF Next

LEMMA TypeInvHolds == Spec => []TypeInv
BY TypeInit, TypeStep, PTL DEF Spec

(* In every reachable state all variables have their types. *)
THEOREM TypeCorrect == Spec => []TypeOK
<1>1. TypeInv => TypeOK
  BY DEF TypeInv
<1> QED
  BY <1>1, TypeInvHolds, PTL

(* updatePadClients and a reconnect never read a revision that is not there *)
(* yet: the head a handler saw before its await stays a bound after it.     *)
THEOREM ReadsInRange == Spec => []PendingRevisionsExist
<1>1. TypeInv => PendingRevisionsExist
  BY DEF TypeInv
<1> QED
  BY <1>1, TypeInvHolds, PTL

-----------------------------------------------------------------------------
(* What the server sends. *)

(* A message to socket t, when it is sent, and why it is: a revision as it  *)
(* is stored, the snapshot of a newcomer, the acceptance of what came from  *)
(* t, or the end of t's session.                                            *)
Sound(t, m) ==
    /\ m.type = "NEW_CHANGES" =>
          StoredRevision(m) /\ \E rd \in reads : rd.sock = t /\ rd.rev = m.newRev
    /\ m.type = "CLIENT_RECONNECT" => /\ arriving[t].pc = "returning"
                                      /\ m.noChanges \/ StoredRevision(m)
    /\ m.type = "CLIENT_VARS" => /\ arriving[t].pc = "joining"
                                 /\ m.rev = arriving[t].rev /\ m.text = arriving[t].text
    /\ m.type = "ACCEPT_COMMIT" => /\ task.pc \in {"appended", "corrected"}
                                   /\ task.sock = t /\ m.newRev = task.newRev
    /\ m.type = "DISCONNECT" => \/ t \in room
                                \/ task.pc # "idle" /\ task.sock = t
                                \/ \E n \in 1..Len(padChannel) : padChannel[n].sock = t

(* Every step of the server leaves a socket's messages as they are, or adds *)
(* sound ones behind them.                                                  *)
Adds(t) ==
    \E msgs \in Seq(DownMessages) :
        /\ down'[t] = down[t] \o msgs
        /\ \A i \in 1..Len(msgs) : Sound(t, msgs[i])

LEMMA AddsNothing ==
  ASSUME TypeInv, NEW t \in Sockets, down'[t] = down[t]
  PROVE  Adds(t)
<1>1. down[t] \in Seq(DownMessages)
  BY DEF TypeInv, TypeOK, NetTypeOK
<1>2. <<>> \in Seq(DownMessages) /\ down[t] \o <<>> = down[t] /\ 1..Len(<<>>) = {}
  BY <1>1, EmptySeq
<1> SUFFICES \E msgs \in Seq(DownMessages) :
               down'[t] = down[t] \o msgs /\ \A i \in 1..Len(msgs) : Sound(t, msgs[i])
  BY Zenon DEF Adds
<1> WITNESS <<>> \in Seq(DownMessages)
<1> QED
  BY <1>2

LEMMA AddsOne ==
  ASSUME TypeInv, NEW t \in Sockets, NEW m \in DownMessages, Sound(t, m),
         down'[t] = Append(down[t], m)
  PROVE  Adds(t)
<1>1. down[t] \in Seq(DownMessages)
  BY DEF TypeInv, TypeOK, NetTypeOK
<1>2. <<m>> \in Seq(DownMessages) /\ Len(<<m>>) = 1 /\ <<m>>[1] = m
  OBVIOUS
<1>3. down'[t] = down[t] \o <<m>>
  BY <1>1
<1> SUFFICES \E msgs \in Seq(DownMessages) :
               down'[t] = down[t] \o msgs /\ \A i \in 1..Len(msgs) : Sound(t, msgs[i])
  BY Zenon DEF Adds
<1> WITNESS <<m>> \in Seq(DownMessages)
<1> QED
  BY <1>2, <1>3

LEMMA AddsEmitted ==
  ASSUME TypeInv, NEW s \in Sockets, NEW t \in Sockets, NEW m \in DownMessages,
         Sound(s, m), Emit(s, m)
  PROVE  Adds(t)
<1>1. down \in [Sockets -> Seq(DownMessages)]
  BY DEF TypeInv, TypeOK, NetTypeOK
<1>2. CASE t = s /\ s \in open
  <2>1. down'[t] = Append(down[t], m)
    BY <1>1, <1>2 DEF Emit, Emitted
  <2> QED
    BY <1>2, <2>1, AddsOne
<1>3. CASE ~(t = s /\ s \in open)
  BY <1>1, <1>3, AddsNothing DEF Emit, Emitted
<1> QED
  BY <1>2, <1>3

LEMMA AddsBadChangeset ==
  ASSUME TypeInv, NEW s \in Sockets, NEW t \in Sockets, BadChangeset(s),
         \/ task.pc # "idle" /\ task.sock = s
         \/ \E n \in 1..Len(padChannel) : padChannel[n].sock = s
  PROVE  Adds(t)
<1>1. disconnect("badChangeset") \in DownMessages /\ Sound(s, disconnect("badChangeset"))
  BY DEF disconnect, DownMessages, Sound
<1> QED
  BY <1>1, AddsEmitted DEF BadChangeset

LEMMA ServerAdds ==
  ASSUME TypeInv, NEW t \in Sockets, Server \/ ApiCaller
  PROVE  Adds(t)
<1>1. NetTypeOK /\ ServerTypeOK /\ PendingRevisionsExist
  BY DEF TypeInv, TypeOK
<1>2. CASE UNCHANGED down
  BY <1>2, AddsNothing
<1>3. CASE StartUserChanges
  <2> DEFINE queued == Head(padChannel)
  <2>1. queued \in [sock: Sockets, baseRev: Nat, changeset: Changesets]
    BY <1>1, <1>3, HeadTailProperties DEF ServerTypeOK, StartUserChanges
  <2>2. UNCHANGED down \/ BadChangeset(queued.sock)
    BY <1>3 DEF StartUserChanges
  <2>3. queued = padChannel[1] /\ 1 \in 1..Len(padChannel)
    BY <1>1, <1>3, HeadTailProperties DEF ServerTypeOK, StartUserChanges
  <2> QED
    BY <1>2, <2>1, <2>2, <2>3, AddsBadChangeset
<1>4. CASE Rebase \/ AppendChanges
  <2>1. task.sock \in Sockets
    BY <1>1, <1>4, RebaseTaskType DEF Rebase, AppendChanges
  <2> QED
    BY <1>2, <1>4, <2>1, AddsBadChangeset DEF Rebase, AppendChanges
<1>5. CASE AcceptCommit
  <2> DEFINE m == [type |-> "ACCEPT_COMMIT", newRev |-> task.newRev]
  <2>1. task \in LateTasks /\ task.pc \in {"appended", "corrected"}
    BY <1>1, <1>5, LateTaskType DEF AcceptCommit
  <2>2. task.sock \in Sockets /\ m \in DownMessages /\ Sound(task.sock, m)
    BY <2>1 DEF LateTasks, DownMessages, Sound
  <2>3. Emit(task.sock, m) \/ BadChangeset(task.sock)
    BY <1>5 DEF AcceptCommit
  <2> QED
    BY <2>1, <2>2, <2>3, AddsEmitted, AddsBadChangeset
<1>6. ASSUME NEW rd \in reads, SendRevision(rd)
      PROVE  Adds(t)
  <2>1. rd \in [origin: Origins, sock: Sockets, rev: Nat] /\ rd.rev \in 1..head
    BY <1>1 DEF ServerTypeOK, PendingRevisionsExist
  <2>2. newChanges(rd.rev) \in DownMessages
    BY <1>1, <2>1, RevisionType DEF newChanges, DownMessages
  <2>3. Sound(rd.sock, newChanges(rd.rev))
    BY <2>1 DEF newChanges, Sound, StoredRevision
  <2> QED
    BY <1>6, <2>1, <2>2, <2>3, AddsEmitted DEF SendRevision
<1>7. ASSUME NEW s \in Sockets, EnterPad(s)
      PROVE  Adds(t)
  <2>1. disconnect("userdup") \in DownMessages
        /\ (t \in room => Sound(t, disconnect("userdup")))
    BY DEF disconnect, DownMessages, Sound
  <2>2. \/ down'[t] = down[t]
        \/ t \in room /\ down'[t] = Append(down[t], disconnect("userdup"))
    BY <1>7 DEF EnterPad, Duplicates
  <2> QED
    BY <2>1, <2>2, AddsNothing, AddsOne
<1>8. ASSUME NEW s \in Sockets, JoinPad(s)
      PROVE  Adds(t)
  <2>1. arriving[s] \in Arrivals /\ arriving[s].pc = "joining"
    BY <1>1, <1>8 DEF JoinPad, ServerTypeOK
  <2>2. arriving[s] \in [pc: {"joining"}, rev: Nat, text: Texts]
    BY <2>1 DEF Arrivals, NotArriving
  <2>3. clientVarsOf(s) \in DownMessages /\ Sound(s, clientVarsOf(s))
    BY <2>1, <2>2 DEF clientVarsOf, DownMessages, Sound
  <2> QED
    BY <1>8, <2>3, AddsEmitted DEF JoinPad
<1>9. ASSUME NEW s \in Sockets, SendMissed(s)
      PROVE  Adds(t)
  <2>1. PICK msgs \in Seq(DownMessages) :
           /\ down' = Emitted(down, s, msgs)
           /\ \A i \in 1..Len(msgs) : /\ msgs[i].type = "CLIENT_RECONNECT"
                                      /\ ~msgs[i].noChanges => StoredRevision(msgs[i])
    BY <1>9, SendMissedMessages
  <2>2. t = s => \A i \in 1..Len(msgs) : Sound(t, msgs[i])
    BY <1>9, <2>1 DEF Sound, SendMissed
  <2>3. down'[t] = down[t] \/ (t = s /\ down'[t] = down[t] \o msgs)
    BY <1>1, <2>1 DEF Emitted, NetTypeOK
  <2>4. CASE t = s /\ down'[t] = down[t] \o msgs
    BY <2>1, <2>2, <2>4 DEF Adds
  <2> QED
    BY <2>3, <2>4, AddsNothing
<1>10. \/ UNCHANGED down \/ StartUserChanges \/ Rebase \/ AppendChanges \/ AcceptCommit
       \/ \E rd \in reads : SendRevision(rd)
       \/ \E s \in Sockets : EnterPad(s) \/ JoinPad(s) \/ SendMissed(s)
  BY DEF Server, ServerStep, UserChangesStep, SocketStep, ApiCaller, ApiAppend,
         ApiUpdateClients, CorrectMarkers, FlushChanges, FinishUserChanges,
         HandleDisconnect, HandleMessage, AbandonEntry, CatchUp, netVars
<1> QED
  BY <1>2, <1>3, <1>4, <1>5, <1>6, <1>7, <1>8, <1>9, <1>10

(* Every step of a browser, a user or a connection leaves a socket's        *)
(* messages as they are, takes the first, or loses them all.                *)
Takes(t) ==
    \/ down'[t] = down[t] \/ down'[t] = <<>>
    \/ down[t] # <<>> /\ down'[t] = Tail(down[t])

LEMMA BrowserTakes ==
  ASSUME TypeInv, NEW t \in Sockets, NEW c \in Clients,
         OpenConnection(c) \/ Browser(c) \/ Environment(c)
  PROVE  Takes(t)
<1>1. down \in [Sockets -> Seq(DownMessages)]
  BY DEF TypeInv, TypeOK, NetTypeOK
<1>2. CASE UNCHANGED down
  BY <1>2 DEF Takes
<1>3. CASE Close(c)
  BY <1>1, <1>3 DEF Close, Takes
<1>4. CASE Take(c) /\ down[SocketOf(c)] # <<>>
  BY <1>1, <1>4 DEF Take, Takes
<1>5. \A msg \in Incoming(c) : down[SocketOf(c)] # <<>>
  BY DEF Incoming
<1>6. UNCHANGED down \/ Close(c) \/ (Take(c) /\ \E msg \in Incoming(c) : TRUE)
  BY DEF OpenConnection, Connect, Reconnect, Open, Browser, ClientStep, Environment,
         ClientEnvironment, Lose, GiveUp, Type, SlowCommit, ReceiveDisconnect,
         ReceiveClientVars, handleUserChanges, Send, ReceiveNewChanges,
         ReceiveAcceptCommit, ReceiveClientReconnect, ReceiveMissedRevision,
         IgnoreMessage, Handle, netVars
<1> QED
  BY <1>2, <1>3, <1>4, <1>5, <1>6

-----------------------------------------------------------------------------
(* Where the handlers' sockets come from. *)

LEMMA TaskOrigin ==
  ASSUME TypeInv, [Next]_vars
  PROVE  \/ task' = task \/ task' = Idle
         \/ task.pc # "idle" /\ task'.sock = task.sock
         \/ 1 \in 1..Len(padChannel) /\ task'.sock = padChannel[1].sock
<1>1. ServerTypeOK
  BY DEF TypeInv, TypeOK
<1>2. CASE StartUserChanges
  <2>1. padChannel \in Seq([sock: Sockets, baseRev: Nat, changeset: Changesets])
        /\ padChannel # <<>>
    BY <1>1, <1>2 DEF StartUserChanges, ServerTypeOK
  <2>2. Head(padChannel) = padChannel[1] /\ 1 \in 1..Len(padChannel)
    BY <2>1, HeadTailProperties
  <2>3. task' = task \/ task' = Idle \/ task'.sock = Head(padChannel).sock
    BY <1>2 DEF StartUserChanges, BadChangeset
  <2> QED
    BY <2>2, <2>3
<1>3. CASE Rebase \/ AppendChanges
  <2>1. task \in [pc: {"rebase"}, sock: Sockets, r: Nat, canonicalCs: Changesets,
                  changeset: Changesets]
    BY <1>1, <1>3, RebaseTaskType DEF Rebase, AppendChanges
  <2>2. CASE Rebase
    BY <2>1, <2>2 DEF Rebase, BadChangeset
  <2>3. CASE AppendChanges
    BY <2>1, <2>3 DEF AppendChanges, BadChangeset
  <2> QED
    BY <1>3, <2>2, <2>3
<1>4. CASE CorrectMarkers \/ AcceptCommit \/ FlushChanges
  <2>1. task \in LateTasks
    BY <1>1, <1>4, LateTaskType DEF CorrectMarkers, AcceptCommit, FlushChanges
  <2>2. task' = Idle \/ task'.sock = task.sock
    BY <1>4, <2>1 DEF CorrectMarkers, AcceptCommit, FlushChanges, BadChangeset, LateTasks
  <2> QED
    BY <2>1, <2>2 DEF LateTasks
<1> QED
  BY <1>2, <1>3, <1>4
     DEF Next, Server, ServerStep, UserChangesStep, SocketStep, ApiCaller, ApiAppend,
         ApiUpdateClients, FinishUserChanges, SendRevision, HandleDisconnect,
         HandleMessage, EnterPad, AbandonEntry, SendMissed, JoinPad, CatchUp,
         OpenConnection, HandleConnect, Browser, Environment, serverVars, vars

LEMMA QueueOrigin ==
  ASSUME TypeInv, [Next]_vars, NEW n \in 1..Len(padChannel')
  PROVE  \/ \E k \in 1..Len(padChannel) : padChannel'[n] = padChannel[k]
         \/ \E s \in Sockets : /\ 1 \in 1..Len(up[s]) /\ up[s][1].type = "USER_CHANGES"
                               /\ padChannel'[n].sock = s
<1>1. padChannel \in Seq([sock: Sockets, baseRev: Nat, changeset: Changesets])
  BY DEF TypeInv, TypeOK, ServerTypeOK
<1>2. CASE UNCHANGED padChannel
  BY <1>2
<1>3. CASE StartUserChanges
  <2>1. padChannel # <<>> /\ padChannel' = Tail(padChannel)
    BY <1>3 DEF StartUserChanges
  <2>2. n + 1 \in 1..Len(padChannel) /\ padChannel'[n] = padChannel[n + 1]
    BY <1>1, <2>1, HeadTailProperties
  <2> QED
    BY <2>2
<1>4. ASSUME NEW s \in Sockets, HandleMessage(s)
      PROVE  \/ \E k \in 1..Len(padChannel) : padChannel'[n] = padChannel[k]
             \/ \E t \in Sockets : /\ 1 \in 1..Len(up[t]) /\ up[t][1].type = "USER_CHANGES"
                                   /\ padChannel'[n].sock = t
  <2>1. up[s] \in Seq(UpMessages) /\ up[s] # <<>>
    BY <1>4 DEF HandleMessage, TypeInv, TypeOK, NetTypeOK
  <2>2. Head(up[s]) = up[s][1] /\ 1 \in 1..Len(up[s])
    BY <2>1, HeadTailProperties
  <2>3. \/ UNCHANGED padChannel
        \/ /\ up[s][1].type = "USER_CHANGES"
           /\ padChannel' = Append(padChannel, [sock |-> s, baseRev |-> up[s][1].baseRev,
                                                changeset |-> up[s][1].changeset])
    BY <1>4, <2>2 DEF HandleMessage
  <2>4. CASE /\ up[s][1].type = "USER_CHANGES"
             /\ padChannel' = Append(padChannel, [sock |-> s, baseRev |-> up[s][1].baseRev,
                                                  changeset |-> up[s][1].changeset])
    <3>1. /\ Len(padChannel') = Len(padChannel) + 1 /\ Len(padChannel) \in Nat
          /\ \A k \in 1..Len(padChannel) : padChannel'[k] = padChannel[k]
          /\ padChannel'[Len(padChannel) + 1].sock = s
      BY <1>1, <2>4
    <3>2. n \in 1..Len(padChannel) \/ n = Len(padChannel) + 1
      BY <3>1
    <3> QED
      BY <2>2, <2>4, <3>1, <3>2
  <2> QED
    BY <1>2, <2>3, <2>4
<1> QED
  BY <1>2, <1>3, <1>4
     DEF Next, Server, ServerStep, UserChangesStep, SocketStep, ApiCaller, ApiAppend,
         ApiUpdateClients, Rebase, AppendChanges, CorrectMarkers, AcceptCommit,
         FlushChanges, FinishUserChanges, SendRevision, HandleDisconnect, EnterPad,
         AbandonEntry, SendMissed, JoinPad, CatchUp, OpenConnection, HandleConnect,
         Browser, Environment, serverVars, vars

LEMMA UpMessage ==
  ASSUME TypeInv, [Next]_vars, NEW s \in Sockets, NEW n \in 1..Len(up'[s])
  PROVE  \/ \E k \in 1..Len(up[s]) : up'[s][n] = up[s][k]
         \/ \E c \in Clients :
               /\ OpenConnection(c) /\ s = <<c, conn[c] + 1>>
               /\ up'[s][n].type = "CLIENT_READY"
               /\ ~up'[s][n].reconnect => ~receivedClientVars[c] \/ mode[c] = "out"
         \/ \E c \in Clients : /\ handleUserChanges(c) /\ s = SocketOf(c)
                               /\ up'[s][n].type = "USER_CHANGES"
<1>1. NetTypeOK /\ ClientTypeOK /\ up[s] \in Seq(UpMessages)
  BY DEF TypeInv, TypeOK, NetTypeOK
<1>2. CASE up'[s] = up[s]
  BY <1>2
<1>3. CASE up[s] # <<>> /\ up'[s] = Tail(up[s])
  <2>1. n + 1 \in 1..Len(up[s]) /\ up'[s][n] = up[s][n + 1]
    BY <1>1, <1>3, HeadTailProperties
  <2> QED
    BY <2>1
<1>4. CASE up'[s] = <<>>
  BY <1>4
<1>5. ASSUME NEW m, up'[s] = Append(up[s], m)
      PROVE  up'[s][n] = m \/ \E k \in 1..Len(up[s]) : up'[s][n] = up[s][k]
  <2>1. Len(up'[s]) = Len(up[s]) + 1 /\ up'[s][Len(up[s]) + 1] = m /\ Len(up[s]) \in Nat
        /\ \A k \in 1..Len(up[s]) : up'[s][k] = up[s][k]
    BY <1>1, <1>5
  <2>2. n \in 1..Len(up[s]) \/ n = Len(up[s]) + 1
    BY <2>1
  <2> QED
    BY <2>1, <2>2
<1>6. ASSUME NEW c \in Clients, OpenConnection(c), up'[s] # up[s]
      PROVE  \E m : /\ up'[s] = Append(up[s], m) /\ s = <<c, conn[c] + 1>>
                    /\ m.type = "CLIENT_READY"
                    /\ ~m.reconnect => ~receivedClientVars[c] \/ mode[c] = "out"
  <2>1. PICK m : /\ Open(c, m) /\ m.type = "CLIENT_READY"
                 /\ ~m.reconnect => ~receivedClientVars[c] \/ mode[c] = "out"
    BY <1>6 DEF OpenConnection, Connect, Reconnect, clientReady
  <2> QED
    BY <1>1, <1>6, <2>1 DEF Open, NetTypeOK
<1>7. ASSUME NEW c \in Clients, handleUserChanges(c), up'[s] # up[s]
      PROVE  \E m : /\ up'[s] = Append(up[s], m) /\ s = SocketOf(c)
                    /\ m.type = "USER_CHANGES"
  <2> DEFINE m == [type |-> "USER_CHANGES", baseRev |-> rev[c],
                   changeset |-> prepareUserChangeset(c)]
  <2>1. up' = [up EXCEPT ![SocketOf(c)] = Append(@, m)]
    BY <1>7 DEF handleUserChanges, Send
  <2>2. m.type = "USER_CHANGES"
    OBVIOUS
  <2> HIDE DEF m
  <2> QED
    BY <1>1, <1>7, <2>1, <2>2 DEF NetTypeOK
<1>8. ASSUME NEW t \in Sockets, SocketStep(t)
      PROVE  up'[s] = up[s] \/ up'[s] = <<>> \/ (up[s] # <<>> /\ up'[s] = Tail(up[s]))
  BY <1>1, <1>8 DEF SocketStep, HandleDisconnect, HandleMessage, EnterPad, AbandonEntry,
                    SendMissed, JoinPad, CatchUp, netVars, NetTypeOK
<1>9. \/ UNCHANGED up \/ \E t \in Sockets : SocketStep(t)
      \/ \E c \in Clients : OpenConnection(c) \/ handleUserChanges(c)
  BY DEF Next, Server, ServerStep, UserChangesStep, ApiCaller, ApiAppend, ApiUpdateClients,
         StartUserChanges, Rebase, AppendChanges, CorrectMarkers, AcceptCommit,
         FlushChanges, FinishUserChanges, SendRevision, Browser, ClientStep, Environment,
         ClientEnvironment, Lose, GiveUp, Type, SlowCommit, ReceiveDisconnect,
         ReceiveClientVars, ReceiveNewChanges, ReceiveAcceptCommit,
         ReceiveClientReconnect, ReceiveMissedRevision, IgnoreMessage, Handle, netVars,
         vars
<1> QED
  BY <1>2, <1>3, <1>4, <1>5, <1>6, <1>7, <1>8, <1>9

-----------------------------------------------------------------------------
(* The room holds only sockets with a session. *)

Entering(s) == arriving[s].pc \in {"entered", "joining"}

(* A socket asks to enter the pad once, before anything else; until then    *)
(* and until it has entered, the room does not have it.                     *)
EntersOnce(s) ==
    /\ s[2] > conn[s[1]] => /\ sessioninfos[s] = "absent" /\ s \notin room
                            /\ up[s] = <<>> /\ arriving[s] = NotArriving
    /\ Entering(s) => s \notin room /\ sessioninfos[s] # "empty"
    /\ s \in room => sessioninfos[s] = "ready"
    /\ \A n \in 1..Len(up[s]) : up[s][n].type = "CLIENT_READY" =>
          /\ n = 1 /\ s \notin room /\ arriving[s] = NotArriving
          /\ sessioninfos[s] # "ready"

SessionInv == \A s \in Sockets : EntersOnce(s)

LEMMA SessionInit == Init => SessionInv
<1> SUFFICES ASSUME Init, NEW s \in Sockets PROVE EntersOnce(s)
  BY DEF SessionInv
<1>1. /\ up[s] = <<>> /\ Len(up[s]) = 0 /\ arriving[s] = NotArriving
      /\ s \in Clients \X (1..MaxConn) /\ ~Entering(s)
      /\ conn[s[1]] = IF s[1] \in Joined THEN 1 ELSE 0
  BY DEF Init, ClientInit, ServerInit, Sockets, Entering, NotArriving
<1>2. room = Joined \X {1} /\ sessioninfos[s] = IF s \in room THEN "ready" ELSE "absent"
  BY DEF Init, ServerInit
<1>3. s \in room => s[1] \in Joined /\ s[2] = 1
  BY <1>2
<1> QED
  BY <1>1, <1>2, <1>3 DEF EntersOnce

LEMMA SessionQuiet ==
  ASSUME SessionInv, UNCHANGED <<conn, up, room, sessioninfos, arriving>>
  PROVE  SessionInv'
BY DEF SessionInv, EntersOnce, Entering

(* A handler that has dealt with the socket's CLIENT_READY, and ends. *)
LEMMA SettleSession ==
  ASSUME TypeInv, NEW s \in Sockets, SessionInv, arriving[s].pc # "none",
         UNCHANGED <<conn, up, sessioninfos>>,
         room' = room \/ (room' = room \cup {s} /\ sessioninfos[s] = "ready"),
         \A t \in Sockets \ {s} : arriving'[t] = arriving[t],
         arriving'[s].pc \notin {"entered", "joining"}
  PROVE  SessionInv'
<1> SUFFICES ASSUME NEW t \in Sockets PROVE EntersOnce(t)'
  BY DEF SessionInv
<1>1. EntersOnce(t) /\ EntersOnce(s) /\ (t \in room' => t \in room \/ t = s)
  BY DEF SessionInv
<1>2. CASE t # s
  BY <1>1, <1>2 DEF EntersOnce, Entering
<1>3. CASE t = s
  <2>1. arriving[s] # NotArriving /\ ~Entering(s)'
    BY DEF NotArriving, Entering
  <2> QED
    BY <1>1, <1>3, <2>1 DEF EntersOnce
<1> QED
  BY <1>2, <1>3

LEMMA EnterSession ==
  ASSUME TypeInv, NEW s \in Sockets, SessionInv, EnterPad(s)
  PROVE  SessionInv'
<1> SUFFICES ASSUME NEW t \in Sockets PROVE EntersOnce(t)'
  BY DEF SessionInv
<1>1. /\ EntersOnce(t) /\ EntersOnce(s) /\ Entering(s) /\ sessioninfos[s] = "ready"
      /\ UNCHANGED <<conn, up>>
  BY DEF SessionInv, EnterPad, Entering, StillConnected
<1>2. /\ sessioninfos'[t] = IF t \in Duplicates(s) THEN "empty" ELSE sessioninfos[t]
      /\ Duplicates(s) \subseteq room \ {s}
  BY DEF EnterPad, Duplicates
<1>3. CASE t # s
  <2>1. arriving'[t] = arriving[t]
    BY <1>3 DEF EnterPad, TypeInv, TypeOK, ServerTypeOK
  <2>2. t \in room' <=> t \in room \ Duplicates(s)
    BY <1>3 DEF EnterPad, RoomWithout
  <2>3. CASE t \in Duplicates(s)
    <3>1. /\ t \in room /\ ~Entering(t) /\ sessioninfos[t] = "ready" /\ t \notin room'
          /\ sessioninfos'[t] = "empty"
      BY <1>1, <1>2, <2>2, <2>3 DEF EntersOnce
    <3> QED
      BY <1>1, <2>1, <3>1 DEF EntersOnce, Entering
  <2>4. CASE t \notin Duplicates(s)
    BY <1>1, <1>2, <2>1, <2>2, <2>4 DEF EntersOnce, Entering
  <2> QED
    BY <2>3, <2>4
<1>4. CASE t = s
  <2>1. sessioninfos'[s] = "ready" /\ s \notin room
    BY <1>1, <1>2, <1>4 DEF EntersOnce
  <2>2. Entering(s)' => s \notin room'
    <3>1. CASE arriving[s].reconnect
      BY <3>1 DEF EnterPad, returning, Entering, TypeInv, TypeOK, ServerTypeOK
    <3>2. CASE ~arriving[s].reconnect
      BY <2>1, <3>2 DEF EnterPad, RoomWithout
    <3> QED
      BY <3>1, <3>2
  <2>3. arriving[s] # NotArriving /\ ~(s[2] > conn[s[1]])
    BY <1>1 DEF Entering, NotArriving, EntersOnce
  <2> QED
    BY <1>1, <1>4, <2>1, <2>2, <2>3 DEF EntersOnce
<1> QED
  BY <1>3, <1>4

LEMMA MessageSession ==
  ASSUME TypeInv, NEW s \in Sockets, SessionInv, HandleMessage(s)
  PROVE  SessionInv'
<1> SUFFICES ASSUME NEW t \in Sockets PROVE EntersOnce(t)'
  BY DEF SessionInv
<1>1. /\ EntersOnce(t) /\ EntersOnce(s) /\ UNCHANGED <<conn, room>>
      /\ sessioninfos[s] # "absent"
  BY DEF SessionInv, HandleMessage
<1>2. CASE t # s
  <2>1. up'[t] = up[t] /\ sessioninfos'[t] = sessioninfos[t] /\ arriving'[t] = arriving[t]
    BY <1>2 DEF HandleMessage, TypeInv, TypeOK, NetTypeOK, ServerTypeOK
  <2> QED
    BY <1>1, <2>1 DEF EntersOnce, Entering
<1>3. CASE t = s
  <2>1. up[s] \in Seq(UpMessages) /\ up[s] # <<>> /\ up'[s] = Tail(up[s])
    BY DEF HandleMessage, TypeInv, TypeOK, NetTypeOK
  <2>2. /\ Head(up[s]) = up[s][1] /\ Len(up[s]) \in Nat /\ Len(up[s]) >= 1
        /\ Len(up'[s]) = Len(up[s]) - 1
        /\ \A n \in 1..Len(up'[s]) : up'[s][n] = up[s][n + 1]
    BY <2>1, HeadTailProperties
  <2>3. \A n \in 1..Len(up'[s]) : up'[s][n].type # "CLIENT_READY"
    <3> SUFFICES ASSUME NEW n \in 1..Len(up'[s]), up'[s][n].type = "CLIENT_READY" PROVE FALSE
      OBVIOUS
    <3>1. n + 1 \in 1..Len(up[s]) /\ n + 1 # 1 /\ up[s][n + 1].type = "CLIENT_READY"
      BY <2>2
    <3> QED
      BY <1>1, <3>1 DEF EntersOnce
  <2>4. ~(s[2] > conn[s[1]])
    BY <1>1 DEF EntersOnce
  <2>5. CASE up[s][1].type = "CLIENT_READY"
    <3>1. s \notin room
      BY <1>1, <2>2, <2>5 DEF EntersOnce
    <3>2. sessioninfos'[s] = "ready"
      BY <2>2, <2>5 DEF HandleMessage, TypeInv, TypeOK, ServerTypeOK
    <3> QED
      BY <1>1, <1>3, <2>3, <2>4, <3>1, <3>2 DEF EntersOnce
  <2>6. CASE up[s][1].type # "CLIENT_READY"
    <3>1. UNCHANGED <<sessioninfos, arriving>>
      BY <2>2, <2>6 DEF HandleMessage
    <3> QED
      BY <1>1, <1>3, <2>3, <2>4, <3>1 DEF EntersOnce, Entering
  <2> QED
    BY <2>5, <2>6
<1> QED
  BY <1>2, <1>3

LEMMA DisconnectSession ==
  ASSUME TypeInv, NEW s \in Sockets, SessionInv, HandleDisconnect(s)
  PROVE  SessionInv'
<1> SUFFICES ASSUME NEW t \in Sockets PROVE EntersOnce(t)'
  BY DEF SessionInv
<1>1. EntersOnce(t) /\ UNCHANGED <<conn, arriving>> /\ sessioninfos[s] # "absent"
  BY DEF SessionInv, HandleDisconnect
<1>2. CASE t # s
  <2>1. sessioninfos'[t] = sessioninfos[t] /\ up'[t] = up[t] /\ (t \in room' <=> t \in room)
    BY <1>2 DEF HandleDisconnect, TypeInv, TypeOK, NetTypeOK, ServerTypeOK
  <2> QED
    BY <1>1, <2>1 DEF EntersOnce, Entering
<1>3. CASE t = s
  <2>1. sessioninfos'[s] = "absent" /\ up'[s] = <<>> /\ s \notin room' /\ Len(up'[s]) = 0
    BY DEF HandleDisconnect, TypeInv, TypeOK, NetTypeOK, ServerTypeOK
  <2> QED
    BY <1>1, <1>3, <2>1 DEF EntersOnce, Entering
<1> QED
  BY <1>2, <1>3

LEMMA SocketStepSession ==
  ASSUME TypeInv, NEW s \in Sockets, SessionInv, SocketStep(s)
  PROVE  SessionInv'
<1>0. arriving \in [Sockets -> Arrivals]
  BY DEF TypeInv, TypeOK, ServerTypeOK
<1>1. CASE AbandonEntry(s) \/ SendMissed(s) \/ CatchUp(s)
  <2>1. /\ arriving[s].pc # "none" /\ arriving' = [arriving EXCEPT ![s] = NotArriving]
        /\ UNCHANGED <<conn, up, sessioninfos, room>>
    BY <1>1 DEF AbandonEntry, SendMissed, CatchUp, netVars
  <2>2. arriving'[s] = NotArriving /\ \A t \in Sockets \ {s} : arriving'[t] = arriving[t]
    BY <1>0, <2>1
  <2>3. arriving'[s].pc \notin {"entered", "joining"}
    BY <2>2 DEF NotArriving
  <2> QED
    BY <2>1, <2>2, <2>3, SettleSession
<1>2. CASE JoinPad(s)
  <2>1. /\ arriving[s].pc = "joining" /\ arriving' = [arriving EXCEPT ![s] = [pc |-> "joined"]]
        /\ room' = IF sessioninfos[s] = "absent" THEN room ELSE room \cup {s}
        /\ UNCHANGED <<conn, up, sessioninfos>>
    BY <1>2 DEF JoinPad
  <2>2. arriving'[s].pc = "joined" /\ \A t \in Sockets \ {s} : arriving'[t] = arriving[t]
    BY <1>0, <2>1
  <2>4. arriving'[s].pc \notin {"entered", "joining"}
    BY <2>2
  <2>3. sessioninfos[s] \in {"absent", "ready"}
    BY <2>1 DEF SessionInv, EntersOnce, Entering, TypeInv, TypeOK, ServerTypeOK
  <2> QED
    BY <2>1, <2>2, <2>3, <2>4, SettleSession
<1> QED
  BY <1>1, <1>2, EnterSession, MessageSession, DisconnectSession DEF SocketStep

(* A new socket is one that nothing has been heard of. *)
LEMMA OpenSession ==
  ASSUME TypeInv, SessionInv, NEW c \in Clients, OpenConnection(c)
  PROVE  SessionInv'
<1> SUFFICES ASSUME NEW t \in Sockets PROVE EntersOnce(t)'
  BY DEF SessionInv
<1> DEFINE s == <<c, conn[c] + 1>>
<1>1. PICK m : Open(c, m) /\ HandleConnect(s)
  BY DEF OpenConnection, Connect, Reconnect
<1>2. conn[c] \in Nat /\ conn[c] < MaxConn /\ s \in Sockets
  BY <1>1, ConnectionsAssumption DEF Open, Sockets, TypeInv, TypeOK, NetTypeOK
<1>3. /\ conn' = [conn EXCEPT ![c] = @ + 1] /\ up' = [up EXCEPT ![s] = Append(@, m)]
      /\ sessioninfos' = [sessioninfos EXCEPT ![s] = "empty"]
      /\ UNCHANGED <<room, arriving>>
  BY <1>1 DEF Open, HandleConnect
<1>4. EntersOnce(t) /\ t[1] \in Clients /\ t[2] \in Nat /\ conn[t[1]] \in Nat
  BY ConnectionsAssumption DEF SessionInv, Sockets, TypeInv, TypeOK, NetTypeOK
<1>5. CASE t # s
  <2>1. sessioninfos'[t] = sessioninfos[t] /\ up'[t] = up[t]
    BY <1>3, <1>5 DEF TypeInv, TypeOK, NetTypeOK, ServerTypeOK
  <2>2. t[2] > conn'[t[1]] => t[2] > conn[t[1]]
    BY <1>2, <1>3, <1>4 DEF TypeInv, TypeOK, NetTypeOK
  <2> QED
    BY <1>3, <1>4, <2>1, <2>2 DEF EntersOnce, Entering
<1>6. CASE t = s
  <2>1. t[2] > conn[t[1]]
    BY <1>2, <1>6
  <2>2. /\ t \notin room /\ up[t] = <<>> /\ arriving[t] = NotArriving
    BY <1>4, <2>1 DEF EntersOnce
  <2>3. up'[t] = <<m>> /\ Len(up'[t]) = 1 /\ sessioninfos'[t] = "empty"
    BY <1>2, <1>3, <1>6, <2>2 DEF TypeInv, TypeOK, NetTypeOK, ServerTypeOK
  <2>4. ~(t[2] > conn'[t[1]])
    BY <1>2, <1>3, <1>6 DEF TypeInv, TypeOK, NetTypeOK
  <2> QED
    BY <1>3, <2>2, <2>3, <2>4 DEF EntersOnce, Entering, NotArriving
<1> QED
  BY <1>5, <1>6

(* The browser's own messages never ask to enter. *)
LEMMA BrowserSession ==
  ASSUME TypeInv, SessionInv, NEW c \in Clients, Browser(c) \/ Environment(c)
  PROVE  SessionInv'
<1>1. UNCHANGED <<room, sessioninfos, arriving>>
  BY DEF Browser, Environment, serverVars
<1>2. CASE UNCHANGED <<conn, up>>
  BY <1>1, <1>2, SessionQuiet
<1>3. CASE handleUserChanges(c)
  <2> SUFFICES ASSUME NEW t \in Sockets PROVE EntersOnce(t)'
    BY DEF SessionInv
  <2> DEFINE m == [type |-> "USER_CHANGES", baseRev |-> rev[c],
                   changeset |-> prepareUserChangeset(c)]
  <2>1. conn' = conn /\ up' = [up EXCEPT ![SocketOf(c)] = Append(@, m)]
    BY <1>3 DEF handleUserChanges, Send
  <2>2. m.type = "USER_CHANGES"
    OBVIOUS
  <2> HIDE DEF m
  <2>3. EntersOnce(t) /\ up[t] \in Seq(UpMessages)
    BY DEF SessionInv, TypeInv, TypeOK, NetTypeOK
  <2>4. CASE t # SocketOf(c)
    <3>1. up'[t] = up[t]
      BY <2>1, <2>4 DEF TypeInv, TypeOK, NetTypeOK
    <3> QED
      BY <1>1, <2>1, <2>3, <3>1 DEF EntersOnce, Entering
  <2>5. CASE t = SocketOf(c)
    <3>1. up'[t] = Append(up[t], m)
      BY <2>1, <2>5 DEF TypeInv, TypeOK, NetTypeOK
    <3>2. \A n \in 1..Len(up'[t]) : up'[t][n].type = "CLIENT_READY" =>
             n \in 1..Len(up[t]) /\ up[t][n].type = "CLIENT_READY"
      BY <2>2, <2>3, <3>1
    <3>3. ~(t[2] > conn[t[1]])
      BY <2>5 DEF SocketOf, TypeInv, TypeOK, NetTypeOK
    <3> QED
      BY <1>1, <2>1, <2>3, <3>2, <3>3 DEF EntersOnce, Entering
  <2> QED
    BY <2>4, <2>5
<1>4. UNCHANGED <<conn, up>> \/ handleUserChanges(c)
  BY DEF Browser, ClientStep, Environment, ClientEnvironment, Lose, GiveUp, Type,
         SlowCommit, ReceiveDisconnect, ReceiveClientVars, ReceiveNewChanges,
         ReceiveAcceptCommit, ReceiveClientReconnect, ReceiveMissedRevision,
         IgnoreMessage, Handle, netVars
<1> QED
  BY <1>2, <1>3, <1>4

LEMMA SessionStep ==
  ASSUME TypeInv, SessionInv, [Next]_vars
  PROVE  SessionInv'
<1>1. CASE UNCHANGED vars
  <2>1. UNCHANGED <<conn, up, room, sessioninfos, arriving>>
    BY <1>1 DEF vars, netVars, serverVars
  <2> QED
    BY <2>1, SessionQuiet
<1>2. CASE UserChangesStep \/ (\E rd \in reads : SendRevision(rd))
           \/ (\E k \in 1..MaxApi : ApiUpdateClients(k)) \/ ApiCaller
  <2>1. UNCHANGED <<conn, up, room, sessioninfos, arriving>>
    BY <1>2 DEF UserChangesStep, StartUserChanges, Rebase, AppendChanges, CorrectMarkers,
                AcceptCommit, FlushChanges, FinishUserChanges, SendRevision,
                ApiUpdateClients, ApiCaller, ApiAppend, netVars
  <2> QED
    BY <2>1, SessionQuiet
<1>3. ASSUME NEW s \in Sockets, SocketStep(s)
      PROVE  SessionInv'
  BY <1>3, SocketStepSession
<1>4. ASSUME NEW c \in Clients, OpenConnection(c) \/ Browser(c) \/ Environment(c)
      PROVE  SessionInv'
  BY <1>4, OpenSession, BrowserSession
<1> QED
  BY <1>1, <1>2, <1>3, <1>4 DEF Next, Server, ServerStep

(* updatePadClients and the presence messages find a session, with an       *)
(* author, for every socket of the room, however joins, kicks and           *)
(* disconnects interleave.                                                  *)
THEOREM RoomHasSessions == Spec => []RoomSocketsHaveSessions
<1>1. TypeInv /\ SessionInv => RoomSocketsHaveSessions
  BY DEF TypeInv, TypeOK, ServerTypeOK, SessionInv, EntersOnce, RoomSocketsHaveSessions
<1>2. TypeInv /\ SessionInv /\ [Next]_vars => SessionInv'
  BY SessionStep
<1> QED
  BY <1>1, <1>2, SessionInit, TypeInvHolds, PTL DEF Spec

-----------------------------------------------------------------------------
(* A browser hears CLIENT_VARS first, and its revision never goes back. *)

(* The server knows at most that the socket is there and wants to enter. *)
Unheard(s) ==
    /\ s \notin room
    /\ arriving[s].pc \notin {"joined", "returning"}
    /\ arriving[s].pc = "entered" => ~arriving[s].reconnect
    /\ \A n \in 1..Len(up[s]) : up[s][n].type = "CLIENT_READY" /\ ~up[s][n].reconnect
    /\ \A n \in 1..Len(padChannel) : padChannel[n].sock # s
    /\ task.pc # "idle" => task.sock # s
    /\ \A rd \in reads : rd.sock # s
Untouched(s) == down[s] = <<>> /\ Unheard(s)
Greeted(s) == down[s] # <<>> /\ down[s][1].type \in {"CLIENT_VARS", "DISCONNECT"}

(* The browser that has no collab client yet is told nothing before         *)
(* CLIENT_VARS, or is sent away.                                            *)
GreetedFirst(c) ==
    ~receivedClientVars[c] =>
        /\ rev[c] = 0 /\ mode[c] # "on"
        /\ SocketOf(c) \in open => Untouched(SocketOf(c)) \/ Greeted(SocketOf(c))

(* Sockets that are not opened yet. *)
FutureSocketsUntouched == \A s \in Sockets : s[2] > conn[s[1]] => Untouched(s)

GreetingInv == FutureSocketsUntouched /\ \A c \in Clients : GreetedFirst(c)

LEMMA GreetingInit == Init => GreetingInv
<1> SUFFICES ASSUME Init PROVE GreetingInv
  OBVIOUS
<1>1. /\ Len(padChannel) = 0 /\ task.pc = "idle" /\ reads = {}
      /\ room = Joined \X {1}
      /\ \A s \in Sockets : /\ up[s] = <<>> /\ Len(up[s]) = 0 /\ down[s] = <<>>
                            /\ arriving[s].pc = "none"
  BY DEF Init, ClientInit, ServerInit, Idle, NotArriving
<1>2. ASSUME NEW s \in Sockets, s[2] > conn[s[1]]
      PROVE  Untouched(s)
  <2>1. s \notin room
    BY <1>1, <1>2 DEF Init, ClientInit, Sockets
  <2> QED
    BY <1>1, <2>1 DEF Untouched, Unheard
<1>3. ASSUME NEW c \in Clients, ~receivedClientVars[c]
      PROVE  rev[c] = 0 /\ mode[c] # "on" /\ SocketOf(c) \notin open
  BY <1>3 DEF Init, ClientInit, SocketOf
<1> QED
  BY <1>2, <1>3 DEF GreetingInv, FutureSocketsUntouched, GreetedFirst

(* A handler touches a socket it has not heard of only to greet it. *)
LEMMA UnheardStep ==
  ASSUME TypeInv, NEW s \in Sockets, Unheard(s), Server \/ ApiCaller, ~JoinPad(s)
  PROVE  Unheard(s)'
<1>1. ServerTypeOK /\ NetTypeOK /\ [Next]_vars
  BY DEF TypeInv, TypeOK, Next
<1>2. task'.pc # "idle" => task'.sock # s
  BY <1>1, TaskOrigin DEF Unheard, Idle
<1>3. \A n \in 1..Len(padChannel') : padChannel'[n].sock # s
  <2> SUFFICES ASSUME NEW n \in 1..Len(padChannel') PROVE padChannel'[n].sock # s
    OBVIOUS
  <2>1. \A t \in Sockets : 1 \in 1..Len(up[t]) /\ up[t][1].type = "USER_CHANGES" => t # s
    BY DEF Unheard
  <2> QED
    BY <1>1, <2>1, QueueOrigin DEF Unheard
<1>4. \A rd \in reads' : rd.sock # s
  <2>1. CASE UNCHANGED reads
    BY <2>1 DEF Unheard
  <2>2. ASSUME NEW o, updatePadClients(o)
        PROVE  \A rd \in reads' : rd.sock # s
    BY <2>2 DEF updatePadClients, Unheard
  <2>3. ASSUME NEW rd \in reads, SendRevision(rd)
        PROVE  \A q \in reads' : q.sock # s
    <3>1. rd \in [origin: Origins, sock: Sockets, rev: Nat] /\ rd.sock # s
      BY <1>1 DEF ServerTypeOK, Unheard
    <3>2. \A r : [rd EXCEPT !.rev = r].sock = rd.sock
      BY <3>1
    <3> QED
      BY <2>3, <3>1, <3>2 DEF SendRevision, Unheard
  <2>4. \/ UNCHANGED reads \/ \E o : updatePadClients(o)
        \/ \E rd \in reads : SendRevision(rd)
    BY DEF Server, ServerStep, UserChangesStep, SocketStep, ApiCaller, ApiAppend,
           ApiUpdateClients, StartUserChanges, Rebase, AppendChanges, CorrectMarkers,
           AcceptCommit, FlushChanges, FinishUserChanges, HandleDisconnect,
           HandleMessage, EnterPad, AbandonEntry, SendMissed, JoinPad, CatchUp
  <2> QED
    BY <2>1, <2>2, <2>3, <2>4
<1>5. /\ s \notin room'
      /\ arriving'[s].pc \notin {"joined", "returning"}
      /\ arriving'[s].pc = "entered" => ~arriving'[s].reconnect
      /\ \A n \in 1..Len(up'[s]) : up'[s][n].type = "CLIENT_READY" /\ ~up'[s][n].reconnect
  <2>1. CASE UNCHANGED <<up, room, arriving>>
    BY <2>1 DEF Unheard
  <2>2. ASSUME NEW t \in Sockets, SocketStep(t), t # s
        PROVE  up'[s] = up[s] /\ arriving'[s] = arriving[s] /\ s \notin room'
    BY <1>1, <2>2 DEF SocketStep, HandleDisconnect, HandleMessage, EnterPad, RoomWithout,
            AbandonEntry, SendMissed, JoinPad, CatchUp, netVars, ServerTypeOK, NetTypeOK,
            Unheard
  <2>3. CASE HandleDisconnect(s)
    BY <1>1, <2>3 DEF HandleDisconnect, NetTypeOK, Unheard
  <2>4. CASE HandleMessage(s)
    <3>1. up[s] \in Seq(UpMessages) /\ up[s] # <<>> /\ up'[s] = Tail(up[s])
      BY <1>1, <2>4 DEF HandleMessage, NetTypeOK
    <3>2. /\ Head(up[s]) = up[s][1] /\ 1 \in 1..Len(up[s])
          /\ \A n \in 1..Len(up'[s]) : n + 1 \in 1..Len(up[s]) /\ up'[s][n] = up[s][n + 1]
      BY <3>1, HeadTailProperties
    <3>3. /\ arriving'[s].pc = "entered" /\ ~arriving'[s].reconnect
          /\ UNCHANGED room
      BY <1>1, <2>4, <3>2 DEF HandleMessage, ServerTypeOK, Unheard
    <3> QED
      BY <3>2, <3>3 DEF Unheard
  <2>5. CASE EnterPad(s)
    BY <1>1, <2>5 DEF EnterPad, RoomWithout, snapshot, ServerTypeOK, Unheard
  <2>6. CASE AbandonEntry(s)
    BY <1>1, <2>6 DEF AbandonEntry, NotArriving, netVars, ServerTypeOK, Unheard
  <2>7. ~SendMissed(s) /\ ~CatchUp(s)
    BY DEF SendMissed, CatchUp, Unheard
  <2>8. UNCHANGED <<up, room, arriving>> \/ \E t \in Sockets : SocketStep(t)
    BY DEF Server, ServerStep, UserChangesStep, ApiCaller, ApiAppend, ApiUpdateClients,
           StartUserChanges, Rebase, AppendChanges, CorrectMarkers, AcceptCommit,
           FlushChanges, FinishUserChanges, SendRevision, netVars
  <2> QED
    BY <2>1, <2>2, <2>3, <2>4, <2>5, <2>6, <2>7, <2>8 DEF SocketStep, Unheard
<1> QED
  BY <1>2, <1>3, <1>4, <1>5 DEF Unheard

LEMMA UntouchedStep ==
  ASSUME TypeInv, NEW s \in Sockets, Untouched(s), Server \/ ApiCaller
  PROVE  /\ arriving[s].pc # "joining" => Untouched(s)'
         /\ s \in open => Untouched(s)' \/ Greeted(s)'
<1>1. down \in [Sockets -> Seq(DownMessages)]
  BY DEF TypeInv, TypeOK, NetTypeOK
<1>2. CASE ~JoinPad(s)
  <2>1. Unheard(s)'
    BY <1>2, UnheardStep DEF Untouched
  <2>2. PICK msgs \in Seq(DownMessages) : /\ down'[s] = down[s] \o msgs
                                         /\ \A i \in 1..Len(msgs) : Sound(s, msgs[i])
    BY ServerAdds DEF Adds
  <2>3. down'[s] = msgs
    BY <2>2 DEF Untouched
  <2>4. ASSUME msgs # <<>>
        PROVE  msgs[1].type = "CLIENT_VARS" /\ arriving[s].pc = "joining"
    <3>1. 1 \in 1..Len(msgs) /\ msgs[1] \in DownMessages
      BY <2>2, <2>4
    <3>2. Sound(s, msgs[1])
      BY <2>2, <3>1
    <3>3. msgs[1].type \in {"CLIENT_VARS", "NEW_CHANGES", "ACCEPT_COMMIT",
                           "CLIENT_RECONNECT", "DISCONNECT"}
      BY <3>1 DEF DownMessages
    <3> QED
      BY <3>2, <3>3 DEF Sound, Untouched, Unheard
  <2> QED
    BY <2>1, <2>3, <2>4 DEF Untouched, Greeted
<1>3. CASE JoinPad(s)
  <2>1. arriving[s].pc = "joining" /\ Emit(s, clientVarsOf(s))
        /\ clientVarsOf(s).type = "CLIENT_VARS"
    BY <1>3 DEF JoinPad, clientVarsOf
  <2>2. s \in open => down'[s] = <<clientVarsOf(s)>>
    BY <1>1, <2>1 DEF Emit, Emitted, Untouched
  <2>3. <<clientVarsOf(s)>> # <<>> /\ <<clientVarsOf(s)>>[1] = clientVarsOf(s)
    OBVIOUS
  <2> QED
    BY <2>1, <2>2, <2>3 DEF Greeted
<1> QED
  BY <1>2, <1>3

LEMMA GreetedStep ==
  ASSUME TypeInv, NEW s \in Sockets, Greeted(s), Server \/ ApiCaller
  PROVE  Greeted(s)'
<1>1. down[s] \in Seq(DownMessages)
  BY DEF TypeInv, TypeOK, NetTypeOK
<1>2. PICK msgs \in Seq(DownMessages) : down'[s] = down[s] \o msgs
  BY ServerAdds DEF Adds
<1>3. down'[s] # <<>> /\ down'[s][1] = down[s][1]
  BY <1>1, <1>2 DEF Greeted
<1> QED
  BY <1>3 DEF Greeted

(* What other browsers do leaves a socket as it is. *)
LEMMA SocketUntouched ==
  ASSUME NEW s \in Sockets, down'[s] = down[s], up'[s] = up[s],
         UNCHANGED <<room, arriving, padChannel, task, reads>>
  PROVE  /\ Untouched(s) => Untouched(s)'
         /\ Greeted(s) => Greeted(s)'
BY DEF Untouched, Unheard, Greeted

LEMMA GreetingServer ==
  ASSUME TypeInv, SessionInv, GreetingInv, (Server \/ ApiCaller)
  PROVE  GreetingInv'
<1>1. UNCHANGED <<conn, open, clientVars>>
  BY DEF Server, ServerStep, UserChangesStep, SocketStep, ApiCaller, ApiAppend,
         ApiUpdateClients, StartUserChanges, Rebase, AppendChanges, CorrectMarkers,
         AcceptCommit, FlushChanges, FinishUserChanges, SendRevision, HandleDisconnect,
         HandleMessage, EnterPad, AbandonEntry, SendMissed, JoinPad, CatchUp, netVars
<1>2. ASSUME NEW s \in Sockets, s[2] > conn[s[1]]
      PROVE  Untouched(s)'
  <2>1. arriving[s].pc # "joining"
    BY <1>2 DEF SessionInv, EntersOnce, NotArriving
  <2> QED
    BY <1>2, <2>1, UntouchedStep DEF GreetingInv, FutureSocketsUntouched
<1>3. ASSUME NEW c \in Clients, ~receivedClientVars[c], SocketOf(c) \in open
      PROVE  Untouched(SocketOf(c))' \/ Greeted(SocketOf(c))'
  <2>1. PICK s \in Sockets : s = SocketOf(c) /\ s = SocketOf(c)'
    BY <1>1, <1>3 DEF SocketOf, TypeInv, TypeOK, NetTypeOK
  <2>2. (Untouched(s) \/ Greeted(s)) /\ s \in open
    BY <1>3, <2>1 DEF GreetingInv, GreetedFirst
  <2>3. Untouched(s)' \/ Greeted(s)'
    BY <2>2, UntouchedStep, GreetedStep
  <2> QED
    BY <2>1, <2>3 DEF Untouched, Unheard, Greeted
<1> QED
  BY <1>1, <1>2, <1>3 DEF GreetingInv, FutureSocketsUntouched, GreetedFirst, clientVars,
                          SocketOf

(* What a browser without a collab client does. *)
LEMMA GreetingBrowser ==
  ASSUME TypeInv, NEW c \in Clients, GreetedFirst(c), ~receivedClientVars[c],
         Browser(c) \/ Environment(c), ~receivedClientVars'[c]
  PROVE  /\ rev'[c] = 0 /\ mode'[c] # "on"
         /\ SocketOf(c) \in open' => UNCHANGED <<up, down>> /\ SocketOf(c) \in open
<1>1. NetTypeOK /\ ClientTypeOK /\ rev[c] = 0 /\ mode[c] # "on"
  BY DEF TypeInv, TypeOK, GreetedFirst
<1>2. CASE Type(c)
  BY <1>1, <1>2 DEF Type, netVars
<1>3. CASE Disconnected(c, "lost") /\ Close(c)
  BY <1>1, <1>3 DEF Disconnected, Close, ClientTypeOK
<1>4. CASE Disconnected(c, "gone") /\ Close(c)
  BY <1>1, <1>4 DEF Disconnected, Close, ClientTypeOK
<1>5. ASSUME NEW msg \in Incoming(c)
      PROVE  msg.type \in {"CLIENT_VARS", "DISCONNECT"}
  <2>1. SocketOf(c) \in Sockets /\ msg = Head(down[SocketOf(c)])
    BY <1>1, IncomingType
  <2>2. down[SocketOf(c)] \in Seq(DownMessages) /\ down[SocketOf(c)] # <<>>
        /\ SocketOf(c) \in open
    BY <1>1, <2>1 DEF Incoming, Connected, NetTypeOK
  <2>3. msg = down[SocketOf(c)][1]
    BY <2>1, <2>2, HeadTailProperties
  <2> QED
    BY <2>2, <2>3 DEF GreetedFirst, Untouched, Greeted
<1>6. ~ReceiveNewChanges(c) /\ ~ReceiveAcceptCommit(c) /\ ~ReceiveClientReconnect(c)
  BY <1>5 DEF ReceiveNewChanges, ReceiveAcceptCommit, ReceiveClientReconnect
<1>7. ~ReceiveClientVars(c) /\ ~GiveUp(c) /\ ~SlowCommit(c) /\ ~handleUserChanges(c)
  BY <1>1 DEF ReceiveClientVars, GiveUp, SlowCommit, handleUserChanges, MaySend,
              ClientTypeOK
<1> QED
  BY <1>2, <1>3, <1>4, <1>6, <1>7
     DEF Browser, ClientStep, Environment, ClientEnvironment, Lose, ReceiveDisconnect

LEMMA GreetingClient ==
  ASSUME TypeInv, GreetingInv, NEW c \in Clients, Browser(c) \/ Environment(c)
  PROVE  GreetingInv'
<1>1. /\ NetTypeOK /\ ClientTypeOK /\ open' \subseteq open
      /\ UNCHANGED <<conn, room, arriving, padChannel, task, reads>>
  BY DEF TypeInv, TypeOK, Browser, ClientStep, Environment, ClientEnvironment, Lose,
         GiveUp, Type, SlowCommit, ReceiveDisconnect, Close, ReceiveClientVars,
         handleUserChanges, ReceiveNewChanges, ReceiveAcceptCommit,
         ReceiveClientReconnect, ReceiveMissedRevision, IgnoreMessage, Handle, netVars,
         serverVars
<1>2. ASSUME NEW s \in Sockets, s # SocketOf(c)
      PROVE  /\ Untouched(s) => Untouched(s)'
             /\ Greeted(s) => Greeted(s)'
  <2>1. down'[s] = down[s] /\ up'[s] = up[s]
    BY <1>1, <1>2
       DEF Browser, ClientStep, Environment, ClientEnvironment, Lose, GiveUp, Type,
           SlowCommit, ReceiveDisconnect, Close, ReceiveClientVars, handleUserChanges,
           Send, ReceiveNewChanges, ReceiveAcceptCommit, ReceiveClientReconnect,
           ReceiveMissedRevision, IgnoreMessage, Handle, Take, netVars, NetTypeOK
  <2> QED
    BY <1>1, <2>1, SocketUntouched
<1>3. ASSUME NEW s \in Sockets, s[2] > conn'[s[1]]
      PROVE  Untouched(s)'
  <2>1. s # SocketOf(c)
    BY <1>1, <1>3 DEF SocketOf, NetTypeOK
  <2> QED
    BY <1>1, <1>2, <1>3, <2>1 DEF GreetingInv, FutureSocketsUntouched
<1>4. ASSUME NEW d \in Clients, ~receivedClientVars'[d]
      PROVE  /\ ~receivedClientVars[d]
             /\ d # c => rev'[d] = rev[d] /\ mode'[d] = mode[d]
  BY <1>1, <1>4
     DEF Browser, ClientStep, Environment, ClientEnvironment, Lose, GiveUp, Type,
         SlowCommit, ReceiveDisconnect, Disconnected, ReceiveClientVars,
         handleUserChanges, ReceiveNewChanges, ReceiveAcceptCommit,
         ReceiveClientReconnect, ReceiveMissedRevision, IgnoreMessage, Handle,
         ClientTypeOK
<1>5. ASSUME NEW d \in Clients, ~receivedClientVars'[d]
      PROVE  GreetedFirst(d)'
  <2>1. GreetedFirst(d) /\ ~receivedClientVars[d]
    BY <1>4, <1>5 DEF GreetingInv
  <2>2. rev'[d] = 0 /\ mode'[d] # "on"
    BY <1>4, <1>5, <2>1, GreetingBrowser DEF GreetedFirst
  <2>3. ASSUME SocketOf(d)' \in open'
        PROVE  Untouched(SocketOf(d))' \/ Greeted(SocketOf(d))'
    <3>1. PICK s \in Sockets : s = SocketOf(d) /\ s = SocketOf(d)'
      BY <1>1, <2>3 DEF SocketOf, NetTypeOK
    <3>2. s \in open /\ (Untouched(s) \/ Greeted(s))
      BY <1>1, <2>1, <2>3, <3>1 DEF GreetedFirst
    <3>3. CASE d = c
      <4>1. UNCHANGED <<up, down>>
        BY <1>5, <2>1, <2>3, <3>1, <3>3, GreetingBrowser
      <4>2. Untouched(s)' \/ Greeted(s)'
        BY <1>1, <3>2, <4>1, SocketUntouched
      <4> QED
        BY <3>1, <4>2 DEF Untouched, Unheard, Greeted
    <3>4. CASE d # c
      <4>1. s # SocketOf(c)
        BY <3>1, <3>4 DEF SocketOf
      <4>2. Untouched(s)' \/ Greeted(s)'
        BY <1>2, <3>2, <4>1
      <4> QED
        BY <3>1, <4>2 DEF Untouched, Unheard, Greeted
    <3> QED
      BY <3>3, <3>4
  <2> QED
    BY <2>2, <2>3 DEF GreetedFirst
<1> QED
  BY <1>3, <1>5 DEF GreetingInv, FutureSocketsUntouched, GreetedFirst

LEMMA GreetingOpen ==
  ASSUME TypeInv, GreetingInv, NEW c \in Clients, OpenConnection(c)
  PROVE  GreetingInv'
<1>1. /\ NetTypeOK /\ ClientTypeOK /\ conn[c] \in Nat
      /\ UNCHANGED <<down, room, arriving, padChannel, task, reads, receivedClientVars, rev>>
  <2>1. NetTypeOK /\ ClientTypeOK /\ conn[c] \in Nat
    BY ConnectionsAssumption DEF TypeInv, TypeOK, NetTypeOK
  <2> QED
    BY <2>1 DEF OpenConnection, Connect, Reconnect, Open, HandleConnect
<1>2. PICK m : /\ Open(c, m) /\ m.type = "CLIENT_READY"
               /\ m.reconnect => receivedClientVars[c]
  BY DEF OpenConnection, Connect, Reconnect, clientReady, ClientTypeOK
<1>3. PICK s \in Sockets :
         /\ s = <<c, conn[c] + 1>> /\ conn' = [conn EXCEPT ![c] = @ + 1]
         /\ open' = open \cup {s} /\ up' = [up EXCEPT ![s] = Append(@, m)]
  <2>1. <<c, conn[c] + 1>> \in Sockets
    BY <1>1, <1>2, ConnectionsAssumption DEF Open, Sockets
  <2> QED
    BY <1>2, <2>1 DEF Open
<1>4. Untouched(s)
  BY <1>1, <1>3 DEF GreetingInv, FutureSocketsUntouched
<1>5. ASSUME NEW t \in Sockets, t # s
      PROVE  /\ Untouched(t) => Untouched(t)'
             /\ Greeted(t) => Greeted(t)'
  <2>1. down'[t] = down[t] /\ up'[t] = up[t]
    BY <1>1, <1>3, <1>5 DEF NetTypeOK
  <2> QED
    BY <1>1, <2>1, SocketUntouched
<1>6. ~receivedClientVars[c] => Untouched(s)'
  <2> SUFFICES ASSUME ~receivedClientVars[c] PROVE Untouched(s)'
    OBVIOUS
  <2>1. up[s] \in Seq(UpMessages) /\ up'[s] = Append(up[s], m)
    BY <1>1, <1>3 DEF NetTypeOK
  <2>2. /\ Len(up'[s]) = Len(up[s]) + 1 /\ up'[s][Len(up[s]) + 1] = m /\ Len(up[s]) \in Nat
        /\ \A n \in 1..Len(up[s]) : up'[s][n] = up[s][n]
    BY <2>1
  <2>3. ASSUME NEW n \in 1..Len(up'[s])
        PROVE  up'[s][n].type = "CLIENT_READY" /\ ~up'[s][n].reconnect
    <3>1. n \in 1..Len(up[s]) \/ n = Len(up[s]) + 1
      BY <2>2
    <3> QED
      BY <1>2, <1>4, <2>2, <3>1 DEF Untouched, Unheard
  <2> QED
    BY <1>1, <1>4, <2>3 DEF Untouched, Unheard
<1>7. ASSUME NEW t \in Sockets, t[2] > conn'[t[1]]
      PROVE  Untouched(t)'
  <2>1. t # s /\ t[2] > conn[t[1]]
    BY <1>1, <1>3, <1>7, ConnectionsAssumption DEF NetTypeOK, Sockets
  <2> QED
    BY <1>5, <2>1 DEF GreetingInv, FutureSocketsUntouched
<1>8. ASSUME NEW d \in Clients, ~receivedClientVars'[d]
      PROVE  GreetedFirst(d)'
  <2>1. GreetedFirst(d) /\ ~receivedClientVars[d]
    BY <1>1, <1>8 DEF GreetingInv
  <2>2. rev'[d] = 0 /\ mode'[d] # "on"
    BY <1>1, <2>1 DEF GreetedFirst, OpenConnection, Connect, Reconnect, ClientTypeOK
  <2>3. ASSUME SocketOf(d)' \in open'
        PROVE  Untouched(SocketOf(d))' \/ Greeted(SocketOf(d))'
    <3>1. CASE d = c
      <4>1. SocketOf(d)' = s
        BY <1>1, <1>3, <3>1 DEF SocketOf, NetTypeOK
      <4>2. Untouched(s)'
        BY <1>6, <2>1, <3>1
      <4> QED
        BY <4>1, <4>2 DEF Untouched, Unheard
    <3>2. CASE d # c
      <4>1. PICK t \in Sockets : t = SocketOf(d) /\ t = SocketOf(d)' /\ t # s /\ t \in open
        BY <1>1, <1>3, <2>3, <3>2 DEF SocketOf, NetTypeOK
      <4>2. Untouched(t)' \/ Greeted(t)'
        BY <1>5, <2>1, <4>1 DEF GreetedFirst
      <4> QED
        BY <4>1, <4>2 DEF Untouched, Unheard, Greeted
    <3> QED
      BY <3>1, <3>2
  <2> QED
    BY <2>2, <2>3 DEF GreetedFirst
<1> QED
  BY <1>7, <1>8 DEF GreetingInv, FutureSocketsUntouched, GreetedFirst

LEMMA GreetingStep ==
  ASSUME TypeInv, SessionInv, GreetingInv, [Next]_vars
  PROVE  GreetingInv'
<1>1. CASE UNCHANGED vars
  BY <1>1 DEF vars, netVars, clientVars, serverVars, GreetingInv, FutureSocketsUntouched,
              GreetedFirst, Untouched, Unheard, Greeted, SocketOf
<1> QED
  BY <1>1, GreetingServer, GreetingClient, GreetingOpen DEF Next

LEMMA GreetingInvHolds == Spec => [](TypeInv /\ SessionInv /\ GreetingInv)
<1>1. TypeInv /\ SessionInv /\ [Next]_vars => SessionInv'
  BY SessionStep
<1>2. TypeInv /\ SessionInv /\ GreetingInv /\ [Next]_vars => GreetingInv'
  BY GreetingStep
<1> QED
  BY <1>1, <1>2, SessionInit, GreetingInit, TypeInvHolds, PTL DEF Spec

(* A browser never moves back to an earlier revision: the one step that     *)
(* could, CLIENT_VARS, comes before every revision it is sent.              *)
THEOREM RevisionsMoveForward == Spec => RevNeverGoesBack
<1>1. ASSUME TypeInv, GreetingInv, [Next]_vars
      PROVE  [\A c \in Clients : rev'[c] >= rev[c]]_vars
  <2>1. ClientTypeOK /\ NetTypeOK
    BY <1>1 DEF TypeInv, TypeOK
  <2>2. CASE UNCHANGED rev
    BY <2>1, <2>2 DEF ClientTypeOK
  <2>3. ASSUME NEW d \in Clients, Browser(d)
        PROVE  \A c \in Clients : rev'[c] >= rev[c]
    <3>1. ASSUME NEW n \in Nat, rev' = [rev EXCEPT ![d] = n], n >= rev[d]
          PROVE  \A c \in Clients : rev'[c] >= rev[c]
      BY <2>1, <3>1 DEF ClientTypeOK
    <3>2. ASSUME NEW msg \in Incoming(d)
          PROVE  msg \in DownMessages
      BY <2>1, <3>2, IncomingType
    <3>3. rev[d] \in Nat /\ (UNCHANGED rev => \A c \in Clients : rev'[c] >= rev[c])
      BY <2>1 DEF ClientTypeOK
    <3>4. CASE ReceiveClientVars(d)
      <4>1. PICK msg \in Incoming(d) : /\ msg.type = "CLIENT_VARS" /\ ~receivedClientVars[d]
                                      /\ rev' = [rev EXCEPT ![d] = msg.rev]
        BY <3>4 DEF ReceiveClientVars
      <4>2. rev[d] = 0 /\ msg.rev \in Nat
        BY <1>1, <3>2, <4>1, MessageFields DEF GreetingInv, GreetedFirst
      <4>3. msg.rev >= rev[d]
        BY <4>2
      <4> QED
        BY <3>1, <4>1, <4>2, <4>3
    <3>5. CASE ReceiveNewChanges(d) \/ ReceiveAcceptCommit(d) \/ ReceiveClientReconnect(d)
      <4>1. PICK msg \in Incoming(d) :
               \/ UNCHANGED rev
               \/ rev' = [rev EXCEPT ![d] = msg.newRev] /\ msg.newRev \in {rev[d], rev[d] + 1}
        BY <3>5 DEF ReceiveNewChanges, ReceiveAcceptCommit, ReceiveClientReconnect,
                    ReceiveMissedRevision, IgnoreMessage, IsNext
      <4> QED
        BY <3>1, <3>3, <4>1
    <3>6. UNCHANGED rev \/ ReceiveClientVars(d) \/ ReceiveNewChanges(d)
          \/ ReceiveAcceptCommit(d) \/ ReceiveClientReconnect(d)
      BY <2>3 DEF Browser, ClientStep, ReceiveDisconnect, Disconnected, handleUserChanges
    <3> QED
      BY <3>3, <3>4, <3>5, <3>6
  <2>4. UNCHANGED rev \/ (\E d \in Clients : Browser(d))
    BY <1>1 DEF Next, Server, ApiCaller, OpenConnection, Connect, Reconnect, Environment,
         ClientEnvironment, Lose, GiveUp, Type, SlowCommit, Disconnected, clientVars, vars
  <2> QED
    BY <2>2, <2>3, <2>4
<1> QED
  BY <1>1, GreetingInvHolds, PTL DEF Spec, RevNeverGoesBack

-----------------------------------------------------------------------------
(* A second tab of an author kicks the first. *)

(* Who arrives while other tabs of its author do not: a tab that opens the  *)
(* pad keeps its connection, and the author's others are there to stay.     *)
TabsTakeTurns ==
    /\ ~Authenticated
    /\ \A c, d \in Joined : AuthorOf[c] = AuthorOf[d] => c = d
    /\ \A c \in Clients \ Joined :
          /\ c \notin Flaky
          /\ \A d \in Clients : AuthorOf[d] = AuthorOf[c] => d = c \/ d \in Joined \ Flaky

Arriving(s) ==
    \/ arriving[s].pc # "none"
    \/ \E n \in 1..Len(up[s]) : up[s][n].type = "CLIENT_READY"
AsNewcomer(s) ==
    \/ arriving[s].pc = "joining"
    \/ arriving[s].pc = "entered" /\ ~arriving[s].reconnect
    \/ \E n \in 1..Len(up[s]) : up[s][n].type = "CLIENT_READY" /\ ~up[s][n].reconnect

(* Who opens a connection, and why. *)
ConnectsOnce(c) ==
    /\ c \in Joined => receivedClientVars[c]
    /\ mode[c] = "out" => c \notin Joined /\ conn[c] = 0
    /\ mode[c] = "lost" \/ conn[c] > 1 => c \in Flaky
ArrivesOnce(s) ==
    /\ Arriving(s) => ClientOf(s) \notin Joined \/ ClientOf(s) \in Flaky
    /\ AsNewcomer(s) => ClientOf(s) \notin Joined
ConnectionInv ==
    /\ \A c \in Clients : ConnectsOnce(c)
    /\ \A s \in Sockets : ArrivesOnce(s)

(* The room has no tab of an author whose new tab has looked at it. *)
JoinsAlone ==
    \A s \in Sockets : arriving[s].pc = "joining" =>
        \A t \in room : AuthorOf[ClientOf(s)] # AuthorOf[ClientOf(t)]

LEMMA ConnectionInit == Init => ConnectionInv
<1> SUFFICES ASSUME Init PROVE ConnectionInv
  OBVIOUS
<1>1. ASSUME NEW c \in Clients PROVE ConnectsOnce(c)
  <2>1. c \in Joined => receivedClientVars[c] /\ mode[c] = "on" /\ conn[c] = 1
    BY <1>1 DEF Init, ClientInit
  <2>2. c \notin Joined => mode[c] = "out" /\ conn[c] = 0
    BY <1>1 DEF Init, ClientInit
  <2> QED
    BY <2>1, <2>2 DEF ConnectsOnce
<1>2. ASSUME NEW s \in Sockets PROVE ~Arriving(s) /\ ~AsNewcomer(s)
  <2>1. Len(up[s]) = 0 /\ arriving[s].pc = "none"
    BY <1>2 DEF Init, ClientInit, ServerInit, NotArriving
  <2> QED
    BY <2>1 DEF Arriving, AsNewcomer
<1> QED
  BY <1>1, <1>2 DEF ConnectionInv, ArrivesOnce

LEMMA ConnectionStep ==
  ASSUME TypeInv, ConnectionInv, [Next]_vars
  PROVE  ConnectionInv'
<1>1. NetTypeOK /\ ClientTypeOK /\ ServerTypeOK
  BY DEF TypeInv, TypeOK
<1>2. ASSUME NEW c \in Clients
      PROVE  ConnectsOnce(c)'
  <2>1. ConnectsOnce(c) /\ conn[c] \in Nat
    BY <1>1, ConnectionsAssumption DEF ConnectionInv, NetTypeOK
  <2>2. CASE UNCHANGED <<receivedClientVars, mode, conn>>
    BY <2>1, <2>2 DEF ConnectsOnce
  <2>3. ASSUME NEW d \in Clients, d # c, OpenConnection(d) \/ Browser(d) \/ Environment(d)
        PROVE  ConnectsOnce(c)'
    <3>1. /\ receivedClientVars'[c] = receivedClientVars[c] /\ mode'[c] = mode[c]
          /\ conn'[c] = conn[c]
      BY <1>1, <2>3
         DEF OpenConnection, Connect, Reconnect, Open, Browser, ClientStep, Environment,
             ClientEnvironment, Lose, GiveUp, Type, SlowCommit, ReceiveDisconnect,
             Disconnected, ReceiveClientVars, handleUserChanges, ReceiveNewChanges,
             ReceiveAcceptCommit, ReceiveClientReconnect, ReceiveMissedRevision,
             IgnoreMessage, Handle, netVars, ClientTypeOK, NetTypeOK
    <3> QED
      BY <2>1, <3>1 DEF ConnectsOnce
  <2>4. CASE OpenConnection(c)
    <3>1. CASE Connect(c)
      BY <1>1, <2>1, <3>1 DEF Connect, Open, ConnectsOnce, ClientTypeOK, NetTypeOK
    <3>2. CASE Reconnect(c)
      BY <1>1, <2>1, <3>2 DEF Reconnect, Open, ConnectsOnce, ClientTypeOK, NetTypeOK
    <3> QED
      BY <2>4, <3>1, <3>2 DEF OpenConnection
  <2>5. CASE Browser(c) \/ Environment(c)
    <3>1. /\ conn' = conn /\ (receivedClientVars[c] => receivedClientVars'[c])
          /\ \/ mode'[c] \in {mode[c], "gone", "on"}
             \/ mode'[c] = "lost" /\ c \in Flaky
      BY <1>1, <2>5
         DEF Browser, ClientStep, Environment, ClientEnvironment, Lose, GiveUp, Type,
             SlowCommit, ReceiveDisconnect, Disconnected, ReceiveClientVars,
             handleUserChanges, ReceiveNewChanges, ReceiveAcceptCommit,
             ReceiveClientReconnect, ReceiveMissedRevision, IgnoreMessage, Handle,
             netVars, ClientTypeOK
    <3> QED
      BY <2>1, <3>1 DEF ConnectsOnce
  <2> QED
    BY <2>2, <2>3, <2>4, <2>5
       DEF Next, Server, ServerStep, UserChangesStep, SocketStep, ApiCaller, ApiAppend,
           ApiUpdateClients, StartUserChanges, Rebase, AppendChanges, CorrectMarkers,
           AcceptCommit, FlushChanges, FinishUserChanges, SendRevision, HandleDisconnect,
           HandleMessage, EnterPad, AbandonEntry, SendMissed, JoinPad, CatchUp, netVars,
           clientVars, vars
<1>3. ASSUME NEW s \in Sockets
      PROVE  ArrivesOnce(s)'
  <2>1. ArrivesOnce(s)
    BY DEF ConnectionInv
  <2>2. ASSUME NEW n \in 1..Len(up'[s]), up'[s][n].type = "CLIENT_READY"
        PROVE  /\ ClientOf(s) \notin Joined \/ ClientOf(s) \in Flaky
               /\ ~up'[s][n].reconnect => ClientOf(s) \notin Joined
    <3>1. ASSUME NEW c \in Clients, OpenConnection(c), s = <<c, conn[c] + 1>>,
                 ~up'[s][n].reconnect => ~receivedClientVars[c] \/ mode[c] = "out"
          PROVE  /\ ClientOf(s) \notin Joined \/ ClientOf(s) \in Flaky
                 /\ ~up'[s][n].reconnect => ClientOf(s) \notin Joined
      <4>1. ConnectsOnce(c) /\ ClientOf(s) = c /\ mode[c] \in {"out", "lost"}
        BY <3>1 DEF ConnectionInv, ClientOf, OpenConnection, Connect, Reconnect
      <4> QED
        BY <3>1, <4>1 DEF ConnectsOnce
    <3> QED
      BY <2>1, <2>2, <3>1, UpMessage DEF ArrivesOnce, Arriving, AsNewcomer
  <2>3. \/ arriving'[s].pc = "none"
        \/ arriving[s].pc # "none" /\ arriving'[s].pc = "joined"
        \/ arriving'[s] = arriving[s]
        \/ arriving[s].pc # "none" /\ arriving'[s].pc = "returning"
        \/ AsNewcomer(s) /\ arriving[s].pc # "none" /\ arriving'[s].pc = "joining"
        \/ \E n \in 1..Len(up[s]) : /\ up[s][n].type = "CLIENT_READY"
                                    /\ arriving'[s].pc = "entered"
                                    /\ arriving'[s].reconnect = up[s][n].reconnect
    <3>1. ASSUME NEW t \in Sockets, SocketStep(t), t # s
          PROVE  arriving'[s] = arriving[s]
      BY <1>1, <3>1 DEF SocketStep, HandleDisconnect, HandleMessage, EnterPad,
              AbandonEntry, SendMissed, JoinPad, CatchUp, ServerTypeOK
    <3>2. CASE HandleMessage(s)
      <4>1. up[s] \in Seq(UpMessages) /\ up[s] # <<>>
        BY <1>1, <3>2 DEF HandleMessage, NetTypeOK
      <4>2. Head(up[s]) = up[s][1] /\ 1 \in 1..Len(up[s])
        BY <4>1, HeadTailProperties
      <4> QED
        BY <1>1, <3>2, <4>2 DEF HandleMessage, ServerTypeOK
    <3>3. CASE EnterPad(s)
      BY <1>1, <3>3 DEF EnterPad, returning, snapshot, AsNewcomer, ServerTypeOK
    <3>4. CASE AbandonEntry(s) \/ SendMissed(s) \/ JoinPad(s) \/ CatchUp(s)
      BY <1>1, <3>4 DEF AbandonEntry, SendMissed, JoinPad, CatchUp, NotArriving,
                        ServerTypeOK
    <3>5. CASE UNCHANGED arriving
      BY <3>5
    <3>6. UNCHANGED arriving \/ (\E t \in Sockets : SocketStep(t))
      BY DEF Next, Server, ServerStep, UserChangesStep, ApiCaller, ApiAppend,
             ApiUpdateClients, StartUserChanges, Rebase, AppendChanges, CorrectMarkers,
             AcceptCommit, FlushChanges, FinishUserChanges, SendRevision, OpenConnection,
             HandleConnect, Browser, Environment, serverVars, vars
    <3> QED
      BY <3>1, <3>2, <3>3, <3>4, <3>5, <3>6 DEF SocketStep, HandleDisconnect
  <2>4. /\ arriving'[s].pc # "none" => ClientOf(s) \notin Joined \/ ClientOf(s) \in Flaky
        /\ arriving'[s].pc = "joining"
              \/ (arriving'[s].pc = "entered" /\ ~arriving'[s].reconnect)
              => ClientOf(s) \notin Joined
    BY <2>1, <2>3 DEF ArrivesOnce, Arriving, AsNewcomer
  <2> QED
    BY <2>2, <2>4 DEF ArrivesOnce, Arriving, AsNewcomer
<1> QED
  BY <1>2, <1>3 DEF ConnectionInv

(* Of an author with a newcomer, only the newcomer arrives. *)
LEMMA NewcomerAlone ==
  ASSUME TabsTakeTurns, TypeInv, SessionInv, ConnectionInv,
         NEW s \in Sockets, NEW t \in Sockets, arriving[s].pc # "none",
         arriving[t].pc = "joining", AuthorOf[ClientOf(s)] = AuthorOf[ClientOf(t)]
  PROVE  s = t
<1>1. /\ ArrivesOnce(s) /\ ArrivesOnce(t) /\ Arriving(s) /\ AsNewcomer(t)
      /\ EntersOnce(s) /\ EntersOnce(t)
  BY DEF ConnectionInv, SessionInv, Arriving, AsNewcomer
<1>2. /\ s = <<s[1], s[2]>> /\ t = <<t[1], t[2]>> /\ s[1] \in Clients /\ t[1] \in Clients
      /\ s[2] \in Nat /\ t[2] \in Nat /\ s[2] >= 1 /\ t[2] >= 1
  BY ConnectionsAssumption DEF Sockets
<1>3. t[1] \in Clients \ Joined /\ t[1] \notin Flaky
  BY <1>1, <1>2 DEF ArrivesOnce, ClientOf, TabsTakeTurns
<1>4. s[1] = t[1]
  BY <1>1, <1>2, <1>3 DEF ArrivesOnce, ClientOf, TabsTakeTurns
<1>5. ~(conn[t[1]] > 1) /\ conn[t[1]] \in Nat
  BY <1>2, <1>3, ConnectionsAssumption
     DEF ConnectionInv, ConnectsOnce, TypeInv, TypeOK, NetTypeOK
<1>6. ~(s[2] > conn[s[1]]) /\ ~(t[2] > conn[t[1]])
  BY <1>1 DEF EntersOnce, NotArriving
<1>7. s[2] = 1 /\ t[2] = 1
  BY <1>2, <1>4, <1>5, <1>6
<1> QED
  BY <1>2, <1>4, <1>7

LEMMA TabsStep ==
  ASSUME TabsTakeTurns, TypeInv, SessionInv, ConnectionInv, OneTabPerAuthor, JoinsAlone,
         [Next]_vars
  PROVE  OneTabPerAuthor' /\ JoinsAlone'
<1>1. ServerTypeOK /\ RoomSocketsHaveSessions
  BY DEF TypeInv, TypeOK, ServerTypeOK, SessionInv, EntersOnce, RoomSocketsHaveSessions
<1>2. CASE /\ room' \subseteq room
           /\ \A s \in Sockets : arriving'[s].pc = "joining" => arriving[s].pc = "joining"
  BY <1>2 DEF OneTabPerAuthor, JoinsAlone
<1>3. ASSUME NEW s \in Sockets, EnterPad(s)
      PROVE  OneTabPerAuthor' /\ JoinsAlone'
  <2>1. /\ arriving[s].pc = "entered" /\ s \notin room
        /\ room' \subseteq (room \ Duplicates(s)) \cup {s}
        /\ ~arriving[s].reconnect => s \notin room'
    BY <1>3 DEF EnterPad, RoomWithout, SessionInv, EntersOnce, Entering
  <2>2. \A t \in room \ Duplicates(s) : AuthorOf[ClientOf(t)] # AuthorOf[ClientOf(s)]
    BY <1>1, <2>1 DEF Duplicates, RoomSocketsHaveSessions, TabsTakeTurns
  <2>3. OneTabPerAuthor'
    BY <2>1, <2>2 DEF OneTabPerAuthor
  <2>4. \A u \in Sockets \ {s} : arriving'[u] = arriving[u]
    BY <1>1, <1>3 DEF EnterPad, ServerTypeOK
  <2>5. ASSUME NEW u \in Sockets, arriving'[u].pc = "joining", NEW t \in room'
        PROVE  AuthorOf[ClientOf(u)] # AuthorOf[ClientOf(t)]
    <3>1. CASE u = s
      <4>1. ~arriving[s].reconnect
        BY <1>1, <1>3, <2>5, <3>1 DEF EnterPad, returning, ServerTypeOK
      <4> QED
        BY <2>1, <2>2, <3>1, <4>1
    <3>2. CASE u # s /\ t = s
      BY <2>1, <2>4, <2>5, <3>2, NewcomerAlone
    <3>3. CASE u # s /\ t # s
      BY <2>1, <2>4, <2>5, <3>3 DEF JoinsAlone
    <3> QED
      BY <3>1, <3>2, <3>3
  <2> QED
    BY <2>3, <2>5 DEF JoinsAlone
<1>4. ASSUME NEW s \in Sockets, JoinPad(s)
      PROVE  OneTabPerAuthor' /\ JoinsAlone'
  <2>1. /\ arriving[s].pc = "joining" /\ room' \subseteq room \cup {s}
        /\ arriving'[s].pc = "joined" /\ \A u \in Sockets \ {s} : arriving'[u] = arriving[u]
    BY <1>1, <1>4 DEF JoinPad, ServerTypeOK
  <2>2. \A t \in room : AuthorOf[ClientOf(s)] # AuthorOf[ClientOf(t)]
    BY <2>1 DEF JoinsAlone
  <2>3. OneTabPerAuthor'
    BY <2>1, <2>2 DEF OneTabPerAuthor
  <2>4. ASSUME NEW u \in Sockets, arriving'[u].pc = "joining", NEW t \in room'
        PROVE  AuthorOf[ClientOf(u)] # AuthorOf[ClientOf(t)]
    <3>1. u # s /\ arriving[u].pc = "joining" /\ (t \in room \/ t = s)
      BY <2>1, <2>4
    <3> QED
      BY <2>1, <3>1, NewcomerAlone DEF JoinsAlone
  <2> QED
    BY <2>3, <2>4 DEF JoinsAlone
<1>5. ASSUME NEW s \in Sockets, SocketStep(s), ~EnterPad(s), ~JoinPad(s)
      PROVE  /\ room' \subseteq room
             /\ \A t \in Sockets : arriving'[t].pc = "joining" => arriving[t].pc = "joining"
  <2>1. room' \subseteq room
    BY <1>5 DEF SocketStep, HandleDisconnect, HandleMessage, AbandonEntry, SendMissed, CatchUp
  <2>2. CASE HandleMessage(s)
    BY <1>1, <2>1, <2>2 DEF HandleMessage, ServerTypeOK
  <2>3. CASE AbandonEntry(s) \/ SendMissed(s) \/ CatchUp(s)
    <3>1. arriving' = [arriving EXCEPT ![s] = NotArriving]
      BY <2>3 DEF AbandonEntry, SendMissed, CatchUp
    <3> QED
      BY <1>1, <2>1, <3>1 DEF NotArriving, ServerTypeOK
  <2>4. CASE HandleDisconnect(s)
    BY <2>1, <2>4 DEF HandleDisconnect
  <2> QED
    BY <1>5, <2>2, <2>3, <2>4 DEF SocketStep
<1>6. UNCHANGED <<room, arriving>> \/ (\E s \in Sockets : SocketStep(s))
  BY DEF Next, Server, ServerStep, UserChangesStep, ApiCaller, ApiAppend, ApiUpdateClients,
         StartUserChanges, Rebase, AppendChanges, CorrectMarkers, AcceptCommit,
         FlushChanges, FinishUserChanges, SendRevision, OpenConnection, HandleConnect,
         Browser, Environment, serverVars, vars
<1> QED
  BY <1>2, <1>3, <1>4, <1>5, <1>6

(* A second tab of an author kicks the first, and stays the only one, when  *)
(* no third tab arrives meanwhile: the duplicates are looked up before the  *)
(* awaits after which the tab joins, and two that arrive together do not    *)
(* see each other.                                                          *)
THEOREM OneTabAtATime ==
  ASSUME TabsTakeTurns
  PROVE  Spec => []OneTabPerAuthor
<1>1. Init => OneTabPerAuthor /\ JoinsAlone
  <2> SUFFICES ASSUME Init PROVE OneTabPerAuthor /\ JoinsAlone
    OBVIOUS
  <2>1. room = Joined \X {1} /\ \A s \in Sockets : arriving[s].pc = "none"
    BY DEF Init, ServerInit, NotArriving
  <2> QED
    BY <2>1 DEF OneTabPerAuthor, JoinsAlone, TabsTakeTurns, ClientOf
<1>2. /\ TypeInv /\ SessionInv /\ ConnectionInv /\ OneTabPerAuthor /\ JoinsAlone /\ [Next]_vars
      => OneTabPerAuthor' /\ JoinsAlone'
  BY TabsStep
<1>3. TypeInv /\ ConnectionInv /\ [Next]_vars => ConnectionInv'
  BY ConnectionStep
<1>4. TypeInv /\ SessionInv /\ [Next]_vars => SessionInv'
  BY SessionStep
<1> QED
  BY <1>1, <1>2, <1>3, <1>4, SessionInit, ConnectionInit, TypeInvHolds, PTL DEF Spec
=============================================================================

-------------------------- MODULE PadSafety_proofs --------------------------
(***************************************************************************)
(* Safety of PadCollab for every set of clients and every bound: what is   *)
(* stored always applies, readers see it, and in a steady pad commits are  *)
(* accepted in order, nothing typed is lost, stored twice or shown twice,  *)
(* and the pad is the abstract log of CollabLog.                           *)
(***************************************************************************)
EXTENDS SteadyPad, PadCollab_proofs

(* Stored revisions apply to one another. *)

LEMMA AppendApplies ==
  ASSUME ServerTypeOK, HistoryApplies, NEW cs \in Changesets,
         NEW author \in Authors \cup {Api}, appendRevision(cs, author),
         cs.oldLen = LengthAt(revisions, head)
  PROVE  HistoryApplies'
<1> DEFINE new == [changeset |-> cs, author |-> author]
<1>1. revisions' = Append(revisions, new)
  BY DEF appendRevision
<1>2. new \in Revisions /\ new.changeset = cs
  BY DEF Revisions
<1> HIDE DEF new
<1>3. /\ Len(revisions') = head + 1 /\ head' = head + 1 /\ head \in Nat
      /\ \A i \in 1..head : revisions'[i] = revisions[i]
      /\ revisions'[head + 1] = new
  BY <1>1, <1>2, AppendProperties, HeadType DEF ServerTypeOK, head
<1>4. \A i \in 0..head : LengthAt(revisions', i) = LengthAt(revisions, i)
  BY <1>3 DEF LengthAt
<1>5. ASSUME NEW i \in 1..head + 1
      PROVE  revisions'[i].changeset.oldLen = LengthAt(revisions', i - 1)
  <2>1. CASE i \in 1..head
    <3>1. i - 1 \in 0..head
      BY <1>3, <2>1
    <3> QED
      BY <1>3, <1>4, <2>1, <3>1 DEF HistoryApplies
  <2>2. CASE i = head + 1
    <3>1. i - 1 = head /\ head \in 0..head
      BY <1>3, <2>2
    <3> QED
      BY <1>2, <1>3, <1>4, <2>2, <3>1
  <2> QED
    BY <1>3, <2>1, <2>2
<1> QED
  BY <1>3, <1>5 DEF HistoryApplies

LEMMA HistoryStep ==
  ASSUME TypeInv, HistoryApplies, [Next]_vars
  PROVE  HistoryApplies'
<1>1. ServerTypeOK
  BY DEF TypeInv, TypeOK
<1>2. CASE UNCHANGED revisions
  BY <1>2 DEF HistoryApplies, head
<1>3. CASE AppendChanges
  <2>1. /\ task \in [pc: {"rebase"}, sock: Sockets, r: Nat, canonicalCs: Changesets,
                     changeset: Changesets]
        /\ thisAuthor \in Authors \cup {Api}
    <3>1. task \in [pc: {"rebase"}, sock: Sockets, r: Nat, canonicalCs: Changesets,
                    changeset: Changesets]
      BY <1>1, <1>3, RebaseTaskType DEF AppendChanges
    <3> QED
      BY <3>1, AuthorType DEF thisAuthor
  <2>2. CASE appendRevision(task.changeset, thisAuthor)
             /\ task.changeset.oldLen = LengthAt(revisions, head)
    BY <1>1, <2>1, <2>2, AppendApplies
  <2> QED
    BY <1>2, <1>3, <2>2 DEF AppendChanges, Applies
<1>4. CASE CorrectMarkers
  <2> DEFINE fix == [edits |-> {<<Fix, Cardinality(Corrections) + 1>>},
                     oldLen |-> LengthAt(revisions, head)]
  <2>1. fix \in Changesets /\ thisAuthor \in Authors \cup {Api}
    BY <1>1, <1>4, CorrectionType
  <2>2. appendRevision(fix, thisAuthor) /\ fix.oldLen = LengthAt(revisions, head)
    BY <1>4 DEF CorrectMarkers
  <2> QED
    BY <1>1, <2>1, <2>2, AppendApplies
<1>5. ASSUME NEW k \in 1..MaxApi, ApiAppend(k)
      PROVE  HistoryApplies'
  <2> DEFINE cs == [edits |-> {<<Api, k>>}, oldLen |-> LengthAt(revisions, head)]
  <2>1. cs \in Changesets
    BY <1>1, HeadType DEF Changesets, Edits, ApiEdits
  <2>2. appendRevision(cs, Api) /\ cs.oldLen = LengthAt(revisions, head)
    BY <1>5 DEF ApiAppend, apiChangeset
  <2> QED
    BY <1>1, <2>1, <2>2, AppendApplies
<1>6. UNCHANGED revisions \/ AppendChanges \/ CorrectMarkers
      \/ \E k \in 1..MaxApi : ApiAppend(k)
  BY DEF Next, Server, ServerStep, UserChangesStep, SocketStep, ApiCaller, OpenConnection,
         Browser, Environment, vars, serverVars, HandleConnect, StartUserChanges, Rebase,
         AcceptCommit, FlushChanges, FinishUserChanges, HandleDisconnect, HandleMessage,
         EnterPad, AbandonEntry, SendMissed, JoinPad, CatchUp, SendRevision, ApiUpdateClients
<1> QED
  BY <1>2, <1>3, <1>4, <1>5, <1>6

(* Whatever clients, API callers and corrections do at the same time, every *)
(* stored revision applies to the revision before it.                       *)
THEOREM HistoryAlwaysApplies == Spec => []HistoryApplies
<1>1. Init => HistoryApplies
  BY DEF Init, ServerInit, HistoryApplies, head
<1> QED
  BY <1>1, TypeInvHolds, HistoryStep, PTL DEF Spec

-----------------------------------------------------------------------------
(* A browser that only reads shows the pad, in every situation. *)

(* Stored revisions stay as they are. *)
Kept == head \in Nat /\ head' \in Nat /\ head <= head'
        /\ \A i \in 1..head : revisions'[i] = revisions[i]

LEMMA RevisionsGrow ==
  ASSUME TypeInv, [Next]_vars
  PROVE  \/ UNCHANGED revisions
         \/ \E cs \in Changesets, author \in Authors \cup {Api} :
               /\ appendRevision(cs, author)
               /\ author = Api \/ (task.pc \in {"rebase", "appended"} /\ author = thisAuthor)
<1>1. ServerTypeOK
  BY DEF TypeInv, TypeOK
<1>2. CASE AppendChanges /\ ~UNCHANGED revisions
  <2>1. /\ task \in [pc: {"rebase"}, sock: Sockets, r: Nat, canonicalCs: Changesets,
                     changeset: Changesets]
        /\ thisAuthor \in Authors
    <3>1. task \in [pc: {"rebase"}, sock: Sockets, r: Nat, canonicalCs: Changesets,
                    changeset: Changesets]
      BY <1>1, <1>2, RebaseTaskType DEF AppendChanges
    <3> QED
      BY <3>1, AuthorType DEF thisAuthor
  <2> QED
    BY <1>2, <2>1 DEF AppendChanges
<1>3. CASE CorrectMarkers
  <2>1. [edits |-> {<<Fix, Cardinality(Corrections) + 1>>},
         oldLen |-> LengthAt(revisions, head)] \in Changesets
        /\ thisAuthor \in Authors \cup {Api}
    BY <1>1, <1>3, CorrectionType
  <2> QED
    BY <1>3, <2>1 DEF CorrectMarkers
<1>4. ASSUME NEW k \in 1..MaxApi, ApiAppend(k)
      PROVE  \E cs \in Changesets : appendRevision(cs, Api)
  <2>1. apiChangeset(k) \in Changesets
    BY <1>1, HeadType DEF apiChangeset, Changesets, Edits, ApiEdits
  <2> QED
    BY <1>4, <2>1 DEF ApiAppend
<1>5. UNCHANGED revisions \/ AppendChanges \/ CorrectMarkers
      \/ \E k \in 1..MaxApi : ApiAppend(k)
  BY DEF Next, Server, ServerStep, UserChangesStep, SocketStep, ApiCaller, OpenConnection,
         Browser, Environment, vars, serverVars, HandleConnect, StartUserChanges, Rebase,
         AcceptCommit, FlushChanges, FinishUserChanges, HandleDisconnect, HandleMessage,
         EnterPad, AbandonEntry, SendMissed, JoinPad, CatchUp, SendRevision, ApiUpdateClients
<1> QED
  BY <1>2, <1>3, <1>4, <1>5

LEMMA AppendKeeps ==
  ASSUME TypeInv, NEW cs \in Changesets, NEW author \in Authors \cup {Api},
         appendRevision(cs, author)
  PROVE  /\ Kept /\ head' = head + 1
         /\ revisions'[head'] = [changeset |-> cs, author |-> author]
<1> DEFINE new == [changeset |-> cs, author |-> author]
<1>1. revisions' = Append(revisions, new) /\ new \in Revisions
  BY DEF appendRevision, Revisions
<1> HIDE DEF new
<1>2. ServerTypeOK /\ head \in Nat
  BY HeadType DEF TypeInv, TypeOK
<1>3. /\ Len(revisions') = head + 1 /\ revisions'[head + 1] = new
      /\ \A i \in 1..head : revisions'[i] = revisions[i]
  BY <1>1, <1>2, AppendProperties DEF ServerTypeOK, head
<1> QED
  BY <1>2, <1>3 DEF Kept, head, new

LEMMA RevisionsKept ==
  ASSUME TypeInv, [Next]_vars
  PROVE  Kept
<1>1. CASE UNCHANGED revisions
  <2>1. head \in Nat
    BY HeadType DEF TypeInv, TypeOK
  <2> QED
    BY <1>1, <2>1 DEF Kept, head
<1> QED
  BY <1>1, RevisionsGrow, AppendKeeps

LEMMA TextKept ==
  ASSUME Kept, NEW r \in 0..head
  PROVE  r \in 0..head' /\ TextAt(revisions', r) = TextAt(revisions, r)
<1>1. \A i \in 1..r : revisions'[i] = revisions[i]
  BY DEF Kept
<1>2. \A e \in Edits : {i \in 1..r : e \in revisions'[i].changeset.edits}
                       = {i \in 1..r : e \in revisions[i].changeset.edits}
  BY <1>1
<1>3. LengthAt(revisions', r) = LengthAt(revisions, r)
  <2>1. r = 0 \/ r \in 1..r
    BY DEF Kept
  <2> QED
    BY <1>1, <2>1 DEF LengthAt
<1>4. r \in 0..head'
  BY DEF Kept
<1>5. [e \in Edits |-> Cardinality({i \in 1..r : e \in revisions'[i].changeset.edits})]
      = [e \in Edits |-> Cardinality({i \in 1..r : e \in revisions[i].changeset.edits})]
  BY <1>2
<1> QED
  BY <1>3, <1>4, <1>5 DEF TextAt

(* Applying a revision to the text before it gives its text. *)
LEMMA NextText ==
  ASSUME TypeInv, HistoryApplies, NEW r \in 1..head
  PROVE  /\ Fits(revisions[r].changeset, TextAt(revisions, r - 1))
         /\ ApplyToText(revisions[r].changeset, TextAt(revisions, r - 1))
              = TextAt(revisions, r)
<1>1. /\ ServerTypeOK /\ head \in Nat /\ r - 1 \in Nat /\ r # 0
      /\ revisions[r].changeset \in Changesets
  BY HeadType, RevisionType DEF TypeInv, TypeOK
<1>2. /\ revisions[r].changeset.oldLen = LengthAt(revisions, r - 1)
      /\ LengthAt(revisions, r)
           = LengthAt(revisions, r - 1) + Cardinality(revisions[r].changeset.edits)
  BY <1>1 DEF HistoryApplies, LengthAt, NewLen
<1>3. ASSUME NEW e \in Edits
      PROVE  Cardinality({i \in 1..r : e \in revisions[i].changeset.edits})
               = Cardinality({i \in 1..(r - 1) : e \in revisions[i].changeset.edits})
                 + IF e \in revisions[r].changeset.edits THEN 1 ELSE 0
  <2> DEFINE S == {i \in 1..(r - 1) : e \in revisions[i].changeset.edits}
  <2>1. IsFiniteSet(S) /\ Cardinality(S) \in Nat /\ r \notin S
    <3>1. IsFiniteSet(1..(r - 1))
      BY <1>1, FS_Interval
    <3>2. S \subseteq 1..(r - 1) /\ r \notin 1..(r - 1)
      BY <1>1
    <3> HIDE DEF S
    <3> QED
      BY <3>1, <3>2, FS_Subset, FS_CardinalityType
  <2>2. CASE e \in revisions[r].changeset.edits
    <3>1. {i \in 1..r : e \in revisions[i].changeset.edits} = S \cup {r}
      BY <1>1, <2>2
    <3>2. Cardinality(S \cup {r}) = Cardinality(S) + 1
      BY <2>1, FS_AddElement
    <3> QED
      BY <2>2, <3>1, <3>2
  <2>3. CASE e \notin revisions[r].changeset.edits
    <3>1. {i \in 1..r : e \in revisions[i].changeset.edits} = S
      BY <1>1, <2>3
    <3>2. Cardinality({i \in 1..r : e \in revisions[i].changeset.edits}) = Cardinality(S) + 0
      BY <2>1, <3>1
    <3> QED
      BY <2>3, <3>2
  <2> QED
    BY <2>2, <2>3
<1> DEFINE before == [e \in Edits |->
                        Cardinality({i \in 1..(r - 1) : e \in revisions[i].changeset.edits})]
           after == [e \in Edits |->
                        Cardinality({i \in 1..r : e \in revisions[i].changeset.edits})]
<1>4. after = [e \in Edits |-> before[e]
                  + IF e \in revisions[r].changeset.edits THEN 1 ELSE 0]
  BY <1>3
<1>5. /\ TextAt(revisions, r - 1) = [has |-> before, len |-> LengthAt(revisions, r - 1)]
      /\ TextAt(revisions, r) = [has |-> after, len |-> LengthAt(revisions, r)]
  BY DEF TextAt
<1> HIDE DEF before, after
<1> QED
  BY <1>2, <1>4, <1>5 DEF Fits, ApplyToText

(* Only writers send changesets, and revisions bear their names. *)
OnlyWritersSend ==
    /\ \A c \in Clients \ Writers : submitted[c] = {} /\ user[c] = {}
    /\ \A s \in Sockets : \A n \in 1..Len(up[s]) :
          up[s][n].type = "USER_CHANGES" => ClientOf(s) \in Writers
    /\ \A n \in 1..Len(padChannel) : ClientOf(padChannel[n].sock) \in Writers
    /\ task.pc # "idle" => ClientOf(task.sock) \in Writers
    /\ \A r \in 1..head : revisions[r].author \in WriterAuthors \cup {Api}

(* Whatever is on its way to a browser is, still, what the pad holds. *)
TrueSnapshot(x) == x.rev \in 0..head /\ x.text = TextAt(revisions, x.rev)
TrueMessage(s, m) ==
    /\ m.type = "NEW_CHANGES" => StoredRevision(m)
    /\ m.type = "CLIENT_RECONNECT" => (m.noChanges \/ StoredRevision(m))
    /\ m.type = "CLIENT_VARS" => TrueSnapshot(m)
    /\ m.type = "ACCEPT_COMMIT" => ClientOf(s) \in Writers
MessagesTrue ==
    \A s \in Sockets :
        /\ arriving[s].pc = "joining" => TrueSnapshot(arriving[s])
        /\ \A n \in 1..Len(down[s]) : TrueMessage(s, down[s][n])

ReaderInv == OnlyWritersSend /\ MessagesTrue /\ ReadersShowPad

LEMMA ReaderInit == Init => ReaderInv
<1> SUFFICES ASSUME Init PROVE ReaderInv
  OBVIOUS
<1>1. /\ head = 0 /\ \A s \in Sockets : Len(up[s]) = 0 /\ Len(down[s]) = 0
      /\ Len(padChannel) = 0 /\ task.pc = "idle"
      /\ \A s \in Sockets : arriving[s].pc = "none"
  BY DEF Init, ClientInit, ServerInit, head, Idle, NotArriving
<1>2. OnlyWritersSend
  BY <1>1 DEF OnlyWritersSend, Init, ClientInit
<1>3. MessagesTrue
  BY <1>1 DEF MessagesTrue
<1>4. EmptyText = TextAt(revisions, 0)
  <2>1. \A e \in Edits : {i \in 1..0 : e \in revisions[i].changeset.edits} = {}
    OBVIOUS
  <2>2. \A e \in Edits : Cardinality({i \in 1..0 : e \in revisions[i].changeset.edits}) = 0
    BY <2>1, FS_EmptySet
  <2> QED
    BY <2>2 DEF EmptyText, TextAt, LengthAt
<1>5. ReadersShowPad
  BY <1>1, <1>4 DEF ReadersShowPad, Readers, Init, ClientInit
<1> QED
  BY <1>2, <1>3, <1>5 DEF ReaderInv

(* What a writer sends is handled in its name. *)
LEMMA SendersStep ==
  ASSUME TypeInv, OnlyWritersSend, [Next]_vars
  PROVE  OnlyWritersSend'
<1>1. NetTypeOK /\ ClientTypeOK /\ ServerTypeOK
  BY DEF TypeInv, TypeOK
<1>2. \A r \in 1..head' : revisions'[r].author \in WriterAuthors \cup {Api}
  <2>1. CASE UNCHANGED revisions
    BY <2>1 DEF OnlyWritersSend, head
  <2>2. ASSUME NEW cs \in Changesets, NEW author \in Authors \cup {Api},
               appendRevision(cs, author),
               author = Api \/ (task.pc \in {"rebase", "appended"} /\ author = thisAuthor)
        PROVE  \A r \in 1..head' : revisions'[r].author \in WriterAuthors \cup {Api}
    <3>1. author \in WriterAuthors \cup {Api}
      BY <2>2 DEF OnlyWritersSend, thisAuthor, WriterAuthors
    <3>2. /\ Kept /\ head' = head + 1
          /\ revisions'[head'] = [changeset |-> cs, author |-> author]
      BY <2>2, AppendKeeps
    <3>3. ASSUME NEW r \in 1..head'
          PROVE  r \in 1..head \/ r = head'
      BY <3>2 DEF Kept
    <3> QED
      BY <3>1, <3>2, <3>3 DEF OnlyWritersSend, Kept
  <2> QED
    BY <2>1, <2>2, RevisionsGrow
<1>3. \A c \in Clients \ Writers : submitted'[c] = {} /\ user'[c] = {}
  <2>1. CASE UNCHANGED <<submitted, user>>
    BY <2>1 DEF OnlyWritersSend
  <2>2. ASSUME NEW d \in Clients, Browser(d) \/ Environment(d)
        PROVE  \A c \in Clients \ Writers : submitted'[c] = {} /\ user'[c] = {}
    <3>1. CASE Type(d)
      BY <1>1, <3>1 DEF Type, OnlyWritersSend, ClientTypeOK
    <3>2. CASE handleUserChanges(d)
      BY <1>1, <3>2 DEF handleUserChanges, OnlyWritersSend, ClientTypeOK
    <3>3. CASE acceptCommit(d) /\ UNCHANGED user
      BY <1>1, <3>3 DEF acceptCommit, OnlyWritersSend, ClientTypeOK
    <3>4. \/ UNCHANGED <<submitted, user>> \/ Type(d) \/ handleUserChanges(d)
          \/ acceptCommit(d) /\ UNCHANGED user
      BY <2>2 DEF Browser, ClientStep, Environment, ClientEnvironment, Lose, GiveUp,
                  Disconnected, SlowCommit, ReceiveDisconnect, ReceiveClientVars,
                  ReceiveNewChanges, ReceiveAcceptCommit, ReceiveClientReconnect,
                  ReceiveMissedRevision, IgnoreMessage, Handle, applyChangesToBase
    <3> QED
      BY <2>1, <3>1, <3>2, <3>3, <3>4
  <2>3. UNCHANGED <<submitted, user>> \/ \E d \in Clients : Browser(d) \/ Environment(d)
    BY DEF Next, Server, ApiCaller, OpenConnection, Connect, Reconnect, clientVars, vars
  <2> QED
    BY <2>1, <2>2, <2>3
<1>4. ASSUME NEW s \in Sockets, NEW n \in 1..Len(up'[s]), up'[s][n].type = "USER_CHANGES"
      PROVE  ClientOf(s) \in Writers
  <2>1. ASSUME NEW c \in Clients, handleUserChanges(c)
        PROVE  c \in Writers
    BY <2>1 DEF handleUserChanges, prepareUserChangeset, IsIdentity, OnlyWritersSend
  <2>2. \A c \in Clients : ClientOf(SocketOf(c)) = c
    BY DEF ClientOf, SocketOf
  <2> QED
    BY <1>4, <2>1, <2>2, UpMessage DEF OnlyWritersSend
<1>5. \A n \in 1..Len(padChannel') : ClientOf(padChannel'[n].sock) \in Writers
  BY QueueOrigin DEF OnlyWritersSend
<1>6. task'.pc # "idle" => ClientOf(task'.sock) \in Writers
  BY TaskOrigin DEF OnlyWritersSend, Idle
<1> QED
  BY <1>2, <1>3, <1>4, <1>5, <1>6 DEF OnlyWritersSend

(* What is true stays true as the pad grows. *)
LEMMA TrueMessageKept ==
  ASSUME TypeInv, Kept, NEW s \in Sockets, NEW m, TrueMessage(s, m)
  PROVE  TrueMessage(s, m)'
<1>1. StoredRevision(m) => StoredRevision(m)'
  BY DEF StoredRevision, Kept
<1>2. TrueSnapshot(m) => TrueSnapshot(m)'
  BY TextKept DEF TrueSnapshot
<1> QED
  BY <1>1, <1>2 DEF TrueMessage

LEMMA MessagesStep ==
  ASSUME TypeInv, OnlyWritersSend, MessagesTrue, [Next]_vars
  PROVE  MessagesTrue'
<1>1. NetTypeOK /\ ServerTypeOK /\ Kept
  BY RevisionsKept DEF TypeInv, TypeOK
<1>2. ASSUME NEW s \in Sockets, arriving'[s].pc = "joining"
      PROVE  TrueSnapshot(arriving[s])'
  <2>1. CASE arriving'[s] = arriving[s]
    <3>1. TrueSnapshot(arriving[s])
      BY <1>2, <2>1 DEF MessagesTrue
    <3> QED
      BY <1>1, <2>1, <3>1, TextKept DEF TrueSnapshot
  <2>2. CASE EnterPad(s) /\ ~arriving[s].reconnect
    <3>1. arriving'[s] = snapshot /\ UNCHANGED revisions
      BY <1>1, <2>2 DEF EnterPad, ServerTypeOK
    <3>2. head' = head /\ head \in 0..head
      BY <1>1, <3>1, HeadType DEF head
    <3> QED
      BY <3>1, <3>2 DEF TrueSnapshot, snapshot
  <2>3. arriving'[s] = arriving[s] \/ (EnterPad(s) /\ ~arriving[s].reconnect)
    <3>1. ASSUME NEW t \in Sockets, SocketStep(t)
          PROVE  arriving'[s] = arriving[s] \/ (EnterPad(s) /\ ~arriving[s].reconnect)
      <4>1. CASE EnterPad(t)
        <5>1. CASE s = t
          BY <1>1, <1>2, <4>1, <5>1 DEF EnterPad, ServerTypeOK, returning
        <5>2. CASE s # t
          BY <1>1, <4>1, <5>2 DEF EnterPad, ServerTypeOK
        <5> QED
          BY <5>1, <5>2
      <4>2. CASE ~EnterPad(t)
        <5>1. CASE UNCHANGED arriving
          BY <5>1
        <5>2. CASE HandleMessage(t)
          BY <1>1, <1>2, <5>2 DEF HandleMessage, ServerTypeOK
        <5>3. CASE AbandonEntry(t) \/ SendMissed(t) \/ JoinPad(t) \/ CatchUp(t)
          BY <1>1, <1>2, <5>3 DEF AbandonEntry, SendMissed, JoinPad, CatchUp, NotArriving,
                                  ServerTypeOK
        <5> QED
          BY <3>1, <4>2, <5>1, <5>2, <5>3 DEF SocketStep, HandleDisconnect
      <4> QED
        BY <4>1, <4>2
    <3>2. UNCHANGED arriving \/ \E t \in Sockets : SocketStep(t)
      BY DEF Next, Server, ServerStep, UserChangesStep, ApiCaller, ApiAppend,
             ApiUpdateClients, StartUserChanges, Rebase, AppendChanges, CorrectMarkers,
             AcceptCommit, FlushChanges, FinishUserChanges, SendRevision, OpenConnection,
             HandleConnect, Browser, Environment, serverVars, vars
    <3>3. CASE UNCHANGED arriving
      BY <3>3
    <3> QED
      BY <3>1, <3>2, <3>3
  <2> QED
    BY <2>1, <2>2, <2>3
<1>3. ASSUME NEW s \in Sockets, NEW n \in 1..Len(down'[s])
      PROVE  TrueMessage(s, down[s][n])'
  <2>1. down[s] \in Seq(DownMessages)
    BY <1>1 DEF NetTypeOK
  <2>2. ASSUME NEW i \in 1..Len(down[s]), down'[s][n] = down[s][i]
        PROVE  TrueMessage(s, down[s][n])'
    <3>1. TrueMessage(s, down[s][i])
      BY DEF MessagesTrue
    <3>2. \A m : TrueMessage(s, m) => TrueMessage(s, m)'
      BY <1>1, TrueMessageKept
    <3> QED
      BY <2>2, <3>1, <3>2 DEF TrueMessage, TrueSnapshot, StoredRevision
  <2>3. CASE down'[s] = down[s]
    BY <2>2, <2>3
  <2>4. ASSUME NEW c \in Clients, OpenConnection(c) \/ Browser(c) \/ Environment(c)
        PROVE  TrueMessage(s, down[s][n])'
    <3>1. CASE down'[s] = <<>>
      BY <3>1
    <3>2. CASE down[s] # <<>> /\ down'[s] = Tail(down[s])
      <4>1. n + 1 \in 1..Len(down[s]) /\ down'[s][n] = down[s][n + 1]
        BY <2>1, <3>2, HeadTailProperties
      <4> QED
        BY <2>2, <4>1
    <3> QED
      BY <2>3, <2>4, <3>1, <3>2, BrowserTakes DEF Takes
  <2>5. CASE Server \/ ApiCaller
    <3>1. PICK msgs \in Seq(DownMessages) :
             /\ down'[s] = down[s] \o msgs
             /\ \A i \in 1..Len(msgs) : Sound(s, msgs[i])
      BY <2>5, ServerAdds DEF Adds
    <3>2. \/ n \in 1..Len(down[s]) /\ down'[s][n] = down[s][n]
          \/ \E i \in 1..Len(msgs) : down'[s][n] = msgs[i]
      <4>1. /\ Len(down'[s]) = Len(down[s]) + Len(msgs)
            /\ Len(down[s]) \in Nat /\ Len(msgs) \in Nat
            /\ down'[s][n] = IF n <= Len(down[s]) THEN down[s][n]
                             ELSE msgs[n - Len(down[s])]
        BY <2>1, <3>1
      <4>2. CASE n <= Len(down[s])
        BY <4>1, <4>2
      <4>3. CASE ~(n <= Len(down[s]))
        <5>1. n - Len(down[s]) \in 1..Len(msgs)
          BY <4>1, <4>3
        <5> QED
          BY <4>1, <4>3, <5>1
      <4> QED
        BY <4>2, <4>3
    <3>3. ASSUME NEW i \in 1..Len(msgs), down'[s][n] = msgs[i]
          PROVE  TrueMessage(s, down[s][n])'
      <4>1. Sound(s, msgs[i])
        BY <3>1
      <4>2. TrueMessage(s, msgs[i])
        <5>1. arriving[s].pc = "joining" => TrueSnapshot(arriving[s])
          BY DEF MessagesTrue
        <5>2. task.pc # "idle" => ClientOf(task.sock) \in Writers
          BY DEF OnlyWritersSend
        <5> QED
          BY <4>1, <5>1, <5>2 DEF Sound, TrueMessage, TrueSnapshot
      <4>3. \A m : TrueMessage(s, m) => TrueMessage(s, m)'
        BY <1>1, TrueMessageKept
      <4> QED
        BY <3>3, <4>2, <4>3 DEF TrueMessage, TrueSnapshot, StoredRevision
    <3> QED
      BY <2>2, <3>2, <3>3
  <2> QED
    BY <2>3, <2>4, <2>5 DEF Next, vars, netVars
<1> QED
  BY <1>2, <1>3 DEF MessagesTrue

(* A reader's own steps: it takes a snapshot or the next revision. *)
LEMMA ReaderStep ==
  ASSUME TypeInv, HistoryApplies, OnlyWritersSend, MessagesTrue,
         NEW c \in Readers, Browser(c),
         receivedClientVars[c] => rev[c] \in 0..head /\ base[c] = TextAt(revisions, rev[c]),
         receivedClientVars'[c]
  PROVE  rev'[c] \in 0..head /\ base'[c] = TextAt(revisions, rev'[c])
<1>1. NetTypeOK /\ ClientTypeOK /\ c \in Clients /\ head \in Nat
  BY HeadType DEF TypeInv, TypeOK, Readers
<1>2. ASSUME NEW msg \in Incoming(c)
      PROVE  msg \in DownMessages /\ TrueMessage(SocketOf(c), msg)
  <2>1. SocketOf(c) \in Sockets /\ msg \in DownMessages /\ msg = Head(down[SocketOf(c)])
    BY <1>1, <1>2, IncomingType
  <2>2. down[SocketOf(c)] \in Seq(DownMessages) /\ down[SocketOf(c)] # <<>>
    BY <1>1, <1>2, <2>1 DEF Incoming, NetTypeOK
  <2>3. msg = down[SocketOf(c)][1] /\ 1 \in 1..Len(down[SocketOf(c)])
    BY <2>1, <2>2, HeadTailProperties
  <2> QED
    BY <2>1, <2>3 DEF MessagesTrue
<1>3. CASE receivedClientVars[c] /\ rev'[c] = rev[c] /\ base'[c] = base[c]
  BY <1>3
<1>4. CASE ReceiveClientVars(c)
  <2>1. PICK msg \in Incoming(c) : /\ msg.type = "CLIENT_VARS"
                                  /\ rev' = [rev EXCEPT ![c] = msg.rev]
                                  /\ base' = [base EXCEPT ![c] = msg.text]
    BY <1>4 DEF ReceiveClientVars
  <2>2. rev'[c] = msg.rev /\ base'[c] = msg.text
    BY <1>1, <2>1 DEF ClientTypeOK
  <2> QED
    BY <1>2, <2>1, <2>2 DEF TrueMessage, TrueSnapshot
<1>5. ASSUME NEW msg \in Incoming(c), StoredRevision(msg), IsNext(c, msg),
             receivedClientVars[c], rev' = [rev EXCEPT ![c] = msg.newRev],
             applyChangesToBase(c, msg.changeset)
      PROVE  rev'[c] \in 0..head /\ base'[c] = TextAt(revisions, rev'[c])
  <2>1. /\ rev'[c] = msg.newRev /\ msg.newRev = rev[c] + 1 /\ msg.newRev \in 1..head
        /\ msg.changeset = revisions[msg.newRev].changeset /\ rev[c] \in Nat
    BY <1>1, <1>5 DEF ClientTypeOK, StoredRevision, IsNext
  <2>2. rev[c] = msg.newRev - 1
    BY <2>1
  <2>3. base[c] = TextAt(revisions, msg.newRev - 1)
    BY <1>5, <2>2
  <2>4. /\ Fits(msg.changeset, base[c])
        /\ ApplyToText(msg.changeset, base[c]) = TextAt(revisions, msg.newRev)
    BY <2>1, <2>3, NextText
  <2>5. base'[c] = ApplyToText(msg.changeset, base[c])
    BY <1>1, <1>5, <2>4 DEF applyChangesToBase, ClientTypeOK
  <2> QED
    BY <1>1, <2>1, <2>4, <2>5
<1>6. CASE ReceiveNewChanges(c)
  <2>1. PICK msg \in Incoming(c) :
           /\ msg.type = "NEW_CHANGES" /\ UNCHANGED receivedClientVars
           /\ \/ UNCHANGED <<rev, base>>
              \/ /\ IsNext(c, msg) /\ rev' = [rev EXCEPT ![c] = msg.newRev]
                 /\ applyChangesToBase(c, msg.changeset)
    BY <1>6 DEF ReceiveNewChanges, IgnoreMessage, Handle
  <2>2. StoredRevision(msg)
    BY <1>2, <2>1 DEF TrueMessage
  <2> QED
    BY <1>3, <1>5, <2>1, <2>2
<1>7. CASE ReceiveAcceptCommit(c)
  <2>1. PICK msg \in Incoming(c) : msg.type = "ACCEPT_COMMIT"
    BY <1>7 DEF ReceiveAcceptCommit
  <2>2. ClientOf(SocketOf(c)) \in Writers
    BY <1>2, <2>1 DEF TrueMessage
  <2> QED
    BY <2>2 DEF ClientOf, SocketOf, Readers
<1>8. CASE ReceiveClientReconnect(c)
  <2>1. PICK msg \in Incoming(c) :
           /\ msg.type = "CLIENT_RECONNECT" /\ UNCHANGED receivedClientVars
           /\ \/ UNCHANGED <<rev, base>>
              \/ /\ ~msg.noChanges /\ IsNext(c, msg)
                 /\ ReceiveMissedRevision(c, msg)
    BY <1>8 DEF ReceiveClientReconnect, IgnoreMessage, ReceiveMissedRevision, Handle
  <2>2. CASE UNCHANGED <<rev, base>>
    BY <1>3, <2>1, <2>2
  <2>3. CASE ~msg.noChanges /\ IsNext(c, msg) /\ ReceiveMissedRevision(c, msg)
    <3>1. StoredRevision(msg)
      BY <1>2, <2>1, <2>3 DEF TrueMessage
    <3>2. msg.author \in WriterAuthors \cup {Api}
      BY <3>1 DEF StoredRevision, OnlyWritersSend
    <3>3. ~IsOwn(c, msg)
      BY <3>2 DEF IsOwn, Readers
    <3>4. rev' = [rev EXCEPT ![c] = msg.newRev] /\ applyChangesToBase(c, msg.changeset)
      BY <2>3, <3>3 DEF ReceiveMissedRevision
    <3> QED
      BY <1>5, <2>1, <2>3, <3>1, <3>4
  <2> QED
    BY <2>1, <2>2, <2>3
<1>9. CASE UNCHANGED <<receivedClientVars, rev, base>>
  BY <1>3, <1>9
<1> QED
  BY <1>4, <1>6, <1>7, <1>8, <1>9
     DEF Browser, ClientStep, ReceiveDisconnect, Disconnected, handleUserChanges

LEMMA ReadersStep ==
  ASSUME TypeInv, HistoryApplies, ReaderInv, [Next]_vars
  PROVE  ReadersShowPad'
<1>1. ClientTypeOK /\ Kept
  BY RevisionsKept DEF TypeInv, TypeOK
<1> SUFFICES ASSUME NEW c \in Readers, receivedClientVars'[c]
             PROVE  rev'[c] \in 0..head' /\ base'[c] = TextAt(revisions', rev'[c])
  BY DEF ReadersShowPad
<1>2. c \in Clients
  BY DEF Readers
<1>3. receivedClientVars[c] => rev[c] \in 0..head /\ base[c] = TextAt(revisions, rev[c])
  BY DEF ReaderInv, ReadersShowPad
<1>4. CASE Browser(c)
  <2>1. rev'[c] \in 0..head /\ base'[c] = TextAt(revisions, rev'[c])
    BY <1>3, <1>4, ReaderStep DEF ReaderInv
  <2> QED
    BY <1>1, <2>1, TextKept
<1>5. CASE /\ receivedClientVars'[c] = receivedClientVars[c]
           /\ rev'[c] = rev[c] /\ base'[c] = base[c]
  BY <1>1, <1>3, <1>5, TextKept
<1>6. ASSUME NEW d \in Clients, Browser(d), d # c
      PROVE  /\ receivedClientVars'[c] = receivedClientVars[c]
             /\ rev'[c] = rev[c] /\ base'[c] = base[c]
  BY <1>1, <1>2, <1>6
     DEF Browser, ClientStep, ReceiveDisconnect, Disconnected, handleUserChanges,
         ReceiveClientVars, ReceiveNewChanges, ReceiveAcceptCommit, acceptCommit,
         ReceiveClientReconnect, ReceiveMissedRevision, IgnoreMessage, Handle,
         applyChangesToBase, ClientTypeOK
<1>7. CASE UNCHANGED <<receivedClientVars, rev, base>>
  BY <1>5, <1>7
<1>8. UNCHANGED <<receivedClientVars, rev, base>> \/ \E d \in Clients : Browser(d)
  BY DEF Next, Server, ApiCaller, OpenConnection, Connect, Reconnect, Environment,
         ClientEnvironment, Lose, GiveUp, Type, SlowCommit, Disconnected, clientVars, vars
<1> QED
  BY <1>4, <1>5, <1>6, <1>7, <1>8

(* A browser whose user only reads shows the text of its revision whatever  *)
(* happens: flushes that overlap, connections that break and come back,     *)
(* API calls, second tabs.  None of the assumptions SteadyCommitsInOrder    *)
(* and its like need is made.                                               *)
THEOREM ReadersSeeThePad == Spec => []ReadersShowPad
<1>1. TypeInv /\ HistoryApplies /\ ReaderInv /\ [Next]_vars => ReaderInv'
  <2> SUFFICES ASSUME TypeInv, HistoryApplies, ReaderInv, [Next]_vars PROVE ReaderInv'
    OBVIOUS
  <2>1. OnlyWritersSend' /\ MessagesTrue' /\ ReadersShowPad'
    BY SendersStep, MessagesStep, ReadersStep DEF ReaderInv
  <2> QED
    BY <2>1 DEF ReaderInv
<1>2. ReaderInv => ReadersShowPad
  BY DEF ReaderInv
<1> QED
  BY <1>1, <1>2, ReaderInit, TypeInvHolds, HistoryAlwaysApplies, PTL DEF Spec

-----------------------------------------------------------------------------
(* Commits are accepted in order in a steady pad. *)

LEMMA SteadyInit ==
  ASSUME Steady, Init
  PROVE  SteadyInv
<1> USE DEF Init, ClientInit, ServerInit
<1>1. Sockets = Joined \X {1}
  BY DEF Steady, Sockets
<1>2. head = 0 /\ \A s \in Sockets : Len(up[s]) = 0
  BY DEF head
<1>3. NobodyArrives
  <2>1. \A s \in Sockets : arriving[s] = NotArriving /\ sessioninfos[s] = "ready"
    BY <1>1
  <2>2. \A c \in Clients : conn[c] = 1
    BY DEF Steady
  <2> QED
    BY <1>1, <1>2, <2>1, <2>2 DEF NobodyArrives
<1>4. SessionsAtHead
  BY <1>1, <1>2 DEF SessionsAtHead, Idle
<1>5. FlushReachesAll
  BY DEF FlushReachesAll, Idle
<1> QED
  BY <1>3, <1>4, <1>5 DEF SteadyInv

(* The steps that a steady pad does not take. *)
LEMMA SteadySteps ==
  ASSUME Steady, TypeInv, SteadyInv, Next
  PROVE  \/ /\ UNCHANGED clientVars
            /\ \/ UserChangesStep
               \/ \E s \in Sockets : HandleDisconnect(s) \/ HandleMessage(s)
               \/ \E rd \in reads : SendRevision(rd)
         \/ UNCHANGED serverVars /\ \E c \in Clients : Browser(c) \/ Environment(c)
<1>1. MaxConn = 1 /\ MaxApi = 0 /\ 1..MaxApi = {}
  BY DEF Steady
<1>2. \A c \in Clients : ~OpenConnection(c)
  <2>1. \A c \in Clients : ~(conn[c] < MaxConn)
    BY <1>1 DEF SteadyInv, NobodyArrives
  <2>2. ASSUME NEW c \in Clients, NEW m, Open(c, m)
        PROVE  conn[c] < MaxConn
    BY <2>2 DEF Open
  <2>3. ASSUME NEW c \in Clients, OpenConnection(c)
        PROVE  \E m : Open(c, m)
    BY <2>3 DEF OpenConnection, Connect, Reconnect
  <2> QED
    BY <2>1, <2>2, <2>3
<1>3. \A s \in Sockets : arriving[s].pc = "none"
  BY DEF SteadyInv, NobodyArrives, NotArriving
<1>4. ASSUME NEW s \in Sockets, SocketStep(s)
      PROVE  HandleDisconnect(s) \/ HandleMessage(s)
  <2>1. arriving[s].pc = "none"
    BY <1>3
  <2>2. ~EnterPad(s) /\ ~AbandonEntry(s) /\ ~JoinPad(s) /\ ~CatchUp(s)
    BY <2>1 DEF EnterPad, AbandonEntry, JoinPad, CatchUp
  <2>3. ~SendMissed(s)
    BY <2>1 DEF SendMissed
  <2> QED
    BY <1>4, <2>2, <2>3 DEF SocketStep
<1>5. ~ApiCaller /\ ~(\E k \in 1..MaxApi : ApiUpdateClients(k))
  BY <1>1 DEF ApiCaller
<1>6. ASSUME Server
      PROVE  /\ UNCHANGED clientVars
             /\ \/ UserChangesStep
                \/ \E s \in Sockets : SocketStep(s)
                \/ \E rd \in reads : SendRevision(rd)
  BY <1>5, <1>6 DEF Server, ServerStep
<1>7. \A c \in Clients : Browser(c) \/ Environment(c) => UNCHANGED serverVars
  BY DEF Browser, Environment
<1> QED
  BY <1>2, <1>4, <1>5, <1>6, <1>7 DEF Next

(* Nobody arrives. *)
LEMMA SteadyArrivals ==
  ASSUME Steady, TypeInv, SteadyInv, [Next]_vars
  PROVE  NobodyArrives'
<1>1. CASE UNCHANGED vars
  BY <1>1 DEF vars, netVars, serverVars, SteadyInv, NobodyArrives
<1>2. CASE UNCHANGED serverVars /\ \E c \in Clients : Browser(c) \/ Environment(c)
  <2>1. PICK c \in Clients : Browser(c) \/ Environment(c)
    BY <1>2
  <2>2. UNCHANGED conn
    BY <2>1 DEF Browser, ClientStep, Environment, ClientEnvironment, Lose, GiveUp, Type,
                SlowCommit, ReceiveDisconnect, ReceiveClientVars, handleUserChanges,
                ReceiveNewChanges, ReceiveAcceptCommit, ReceiveClientReconnect,
                ReceiveMissedRevision, IgnoreMessage, Handle, netVars
  <2>3. \/ UNCHANGED up
        \/ \E cs : Send(SocketOf(c), [type |-> "USER_CHANGES", baseRev |-> rev[c],
                                      changeset |-> cs])
    BY <2>1 DEF Browser, ClientStep, Environment, ClientEnvironment, Lose, GiveUp, Type,
                SlowCommit, ReceiveDisconnect, ReceiveClientVars, handleUserChanges,
                ReceiveNewChanges, ReceiveAcceptCommit, ReceiveClientReconnect,
                ReceiveMissedRevision, IgnoreMessage, Handle, netVars
  <2>4. ASSUME NEW s \in Sockets
        PROVE  \A i \in 1..Len(up'[s]) : up'[s][i].type = "USER_CHANGES"
    <3>1. \A i \in 1..Len(up[s]) : up[s][i].type = "USER_CHANGES"
      BY DEF SteadyInv, NobodyArrives
    <3>2. CASE up'[s] = up[s]
      BY <3>1, <3>2
    <3>3. ASSUME NEW m, m.type = "USER_CHANGES", up'[s] = Append(up[s], m)
          PROVE  \A i \in 1..Len(up'[s]) : up'[s][i].type = "USER_CHANGES"
      <4>1. up[s] \in Seq(UpMessages)
        BY DEF TypeInv, TypeOK, NetTypeOK
      <4>2. /\ Len(up'[s]) = Len(up[s]) + 1
            /\ \A i \in 1..Len(up[s]) : up'[s][i] = up[s][i]
            /\ up'[s][Len(up[s]) + 1] = m
        BY <3>3, <4>1
      <4>3. Len(up[s]) \in Nat
        BY <4>1
      <4> QED
        BY <3>1, <3>3, <4>2, <4>3
    <3>4. \/ up'[s] = up[s]
          \/ \E m : m.type = "USER_CHANGES" /\ up'[s] = Append(up[s], m)
      <4>1. CASE UNCHANGED up
        BY <4>1
      <4>2. ASSUME NEW cs, Send(SocketOf(c), [type |-> "USER_CHANGES", baseRev |-> rev[c],
                                              changeset |-> cs])
            PROVE  \/ up'[s] = up[s]
                   \/ \E m : m.type = "USER_CHANGES" /\ up'[s] = Append(up[s], m)
        <5> DEFINE m == [type |-> "USER_CHANGES", baseRev |-> rev[c], changeset |-> cs]
        <5>1. m.type = "USER_CHANGES"
          OBVIOUS
        <5>2. up'[s] = up[s] \/ up'[s] = Append(up[s], m)
          <6>1. up \in [Sockets -> Seq(UpMessages)]
            BY DEF TypeInv, TypeOK, NetTypeOK
          <6> QED
            BY <4>2, <6>1 DEF Send
        <5> QED
          BY <5>1, <5>2
      <4> QED
        BY <2>3, <4>1, <4>2
    <3> QED
      BY <3>2, <3>3, <3>4
  <2> QED
    BY <1>2, <2>2, <2>4 DEF serverVars, SteadyInv, NobodyArrives
<1>3. ASSUME NEW s \in Sockets, HandleDisconnect(s)
      PROVE  NobodyArrives'
  BY <1>3 DEF HandleDisconnect, SteadyInv, NobodyArrives, TypeInv, TypeOK, NetTypeOK,
              ServerTypeOK
<1>4. ASSUME NEW s \in Sockets, HandleMessage(s)
      PROVE  NobodyArrives'
  <2>1. up[s] \in Seq(UpMessages) /\ up[s] # <<>>
    BY <1>4 DEF HandleMessage, TypeInv, TypeOK, NetTypeOK
  <2>2. \A i \in 1..Len(up[s]) : up[s][i].type = "USER_CHANGES"
    BY DEF SteadyInv, NobodyArrives
  <2>3. /\ Head(up[s]) = up[s][1] /\ Len(up[s]) \in Nat /\ Len(up[s]) >= 1
        /\ Len(Tail(up[s])) = Len(up[s]) - 1
        /\ \A i \in 1..Len(Tail(up[s])) : Tail(up[s])[i] = up[s][i + 1]
    BY <2>1, HeadTailProperties
  <2>4. Head(up[s]).type = "USER_CHANGES"
    BY <2>2, <2>3
  <2>5. UNCHANGED <<sessioninfos, arriving, conn, room>>
    BY <1>4, <2>4 DEF HandleMessage
  <2>6. \A i \in 1..Len(Tail(up[s])) : Tail(up[s])[i].type = "USER_CHANGES"
    BY <2>2, <2>3
  <2>7. \A t \in Sockets : up'[t] = IF t = s THEN Tail(up[s]) ELSE up[t]
    BY <1>4 DEF HandleMessage, TypeInv, TypeOK, NetTypeOK
  <2> QED
    BY <2>5, <2>6, <2>7 DEF SteadyInv, NobodyArrives
<1>5. CASE UserChangesStep \/ \E rd \in reads : SendRevision(rd)
  <2>1. UNCHANGED <<conn, up, sessioninfos, arriving, room>>
    BY <1>5 DEF UserChangesStep, StartUserChanges, Rebase, AppendChanges, CorrectMarkers,
                AcceptCommit, FlushChanges, FinishUserChanges, SendRevision, netVars
  <2> QED
    BY <2>1 DEF SteadyInv, NobodyArrives
<1> QED
  BY <1>1, <1>2, <1>3, <1>4, <1>5, SteadySteps

(* The parts of a step that SessionsAtHead and FlushReachesAll speak of. *)
LEMMA QuietStep ==
  ASSUME SteadyInv, UNCHANGED <<revisions, sessionRev, task, reads>>, room' \subseteq room
  PROVE  SessionsAtHead' /\ FlushReachesAll'
<1>1. head' = head
  BY DEF head
<1> QED
  BY <1>1 DEF SteadyInv, SessionsAtHead, FlushReachesAll

(* No read is under way while the task has not begun to flush. *)
LEMMA NoReads ==
  ASSUME SteadyInv, task.pc # "flushing"
  PROVE  reads = {}
BY DEF SteadyInv, FlushReachesAll

LEMMA SteadyTask ==
  ASSUME TypeInv, SteadyInv, UserChangesStep
  PROVE  SessionsAtHead' /\ FlushReachesAll'
<1>1. /\ ServerTypeOK /\ SessionsAtHead /\ FlushReachesAll /\ NobodyArrives
      /\ head \in Nat /\ \A s \in room : s \in Sockets /\ sessionRev[s] \in Nat
  BY HeadType DEF TypeInv, TypeOK, SteadyInv, ServerTypeOK
<1>2. Idle.pc = "idle"
  BY DEF Idle
<1>3. CASE StartUserChanges
  <2> DEFINE queued == Head(padChannel)
  <2>1. queued \in [sock: Sockets, baseRev: Nat, changeset: Changesets]
    BY <1>1, <1>3, HeadTailProperties DEF ServerTypeOK, StartUserChanges
  <2>2. sessioninfos[queued.sock] # "empty"
    BY <1>1, <2>1 DEF NobodyArrives
  <2>3. /\ UNCHANGED <<revisions, sessionRev, room, reads>> /\ task = Idle
        /\ \/ task' = task
           \/ /\ task'.pc = "rebase" /\ task'.sock = queued.sock
              /\ queued.sock \in room
    BY <1>1, <1>3, <2>1, <2>2 DEF StartUserChanges, NobodyArrives
  <2>4. head' = head
    BY <2>3 DEF head
  <2>5. reads = {}
    BY <1>2, <2>3, NoReads
  <2> QED
    BY <1>1, <1>2, <2>3, <2>4, <2>5 DEF SessionsAtHead, FlushReachesAll
<1>4. CASE Rebase
  <2>1. task.pc = "rebase" /\ UNCHANGED <<revisions, sessionRev, room, reads>>
    BY <1>4 DEF Rebase
  <2>2. \/ task' = Idle
        \/ task'.pc = "rebase" /\ task'.sock = task.sock
    <3>1. task \in [pc: {"rebase"}, sock: Sockets, r: Nat, canonicalCs: Changesets,
                    changeset: Changesets]
      BY <1>1, <2>1, RebaseTaskType
    <3> QED
      BY <1>4, <2>1, <3>1 DEF Rebase, BadChangeset
  <2>3. head' = head /\ reads = {}
    BY <2>1, NoReads DEF head
  <2> QED
    BY <1>1, <1>2, <2>1, <2>2, <2>3 DEF SessionsAtHead, FlushReachesAll
<1>5. CASE AppendChanges
  <2>1. /\ task.pc = "rebase" /\ task.r = head
        /\ UNCHANGED <<sessionRev, room, reads>>
    BY <1>5 DEF AppendChanges
  <2>2. reads = {} /\ sessionRev[task.sock] = head /\ \A s \in room : sessionRev[s] = head
    BY <1>1, <2>1, NoReads DEF SessionsAtHead
  <2>3. CASE task' = Idle /\ UNCHANGED revisions
    BY <1>1, <1>2, <2>1, <2>2, <2>3 DEF SessionsAtHead, FlushReachesAll, head
  <2>4. ASSUME NEW n \in Nat, head' >= n, head' \in Nat, head' >= head,
               task' = [pc |-> "appended", sock |-> task.sock, r |-> task.r, newRev |-> n]
        PROVE  SessionsAtHead' /\ FlushReachesAll'
    <3>1. /\ task'.pc = "appended" /\ task'.sock = task.sock /\ task'.r = task.r
          /\ task'.newRev = n
      BY <2>4
    <3> QED
      BY <1>1, <2>1, <2>2, <2>4, <3>1 DEF SessionsAtHead, FlushReachesAll
  <2>5. CASE /\ task' = [pc |-> "appended", sock |-> task.sock, r |-> task.r,
                         newRev |-> head]
             /\ UNCHANGED revisions
    <3>1. head' = head
      BY <2>5 DEF head
    <3> QED
      BY <1>1, <2>4, <2>5, <3>1
  <2>6. CASE /\ appendRevision(task.changeset, thisAuthor)
             /\ task' = [pc |-> "appended", sock |-> task.sock, r |-> task.r,
                         newRev |-> head + 1]
    <3>1. head' = head + 1
      BY <1>1, <2>6, AppendProperties DEF appendRevision, head, ServerTypeOK, Revisions
    <3> QED
      BY <1>1, <2>4, <2>6, <3>1
  <2> QED
    BY <1>5, <2>3, <2>5, <2>6 DEF AppendChanges, BadChangeset
<1>6. CASE CorrectMarkers
  <2>1. /\ task.pc = "appended" /\ task' = [task EXCEPT !.pc = "corrected"]
        /\ UNCHANGED <<sessionRev, room, reads>>
    BY <1>6 DEF CorrectMarkers
  <2>2. /\ task'.pc = "corrected" /\ task'.sock = task.sock /\ task'.r = task.r
        /\ task'.newRev = task.newRev /\ task.newRev \in Nat
    <3>1. task \in LateTasks
      BY <1>1, <2>1, LateTaskType
    <3> QED
      BY <2>1, <3>1 DEF LateTasks
  <2>3. head' = head + 1
    BY <1>1, <1>6, AppendProperties DEF CorrectMarkers, appendRevision, head, ServerTypeOK
  <2>4. reads = {}
    BY <2>1, NoReads
  <2> QED
    BY <1>1, <2>1, <2>2, <2>3, <2>4 DEF SessionsAtHead, FlushReachesAll
<1>7. CASE AcceptCommit
  <2>1. task \in LateTasks /\ task.pc \in {"appended", "corrected"}
    BY <1>1, <1>7, LateTaskType DEF AcceptCommit
  <2>2. sessionRev[task.sock] = task.r /\ task.newRev <= head /\ reads = {}
    BY <1>1, <2>1, NoReads DEF SessionsAtHead
  <2>3. /\ sessionRev' = [sessionRev EXCEPT ![task.sock] = task.newRev]
        /\ task' = [task EXCEPT !.pc = "accepted"]
        /\ UNCHANGED <<revisions, room, reads>>
    BY <1>7, <2>2 DEF AcceptCommit
  <2>4. task'.pc = "accepted" /\ task'.newRev = task.newRev /\ head' = head
    BY <2>1, <2>3 DEF LateTasks, head
  <2>5. \A s \in room : sessionRev'[s] = IF s = task.sock THEN task.newRev ELSE sessionRev[s]
    BY <1>1, <2>3 DEF ServerTypeOK
  <2> QED
    BY <1>1, <2>2, <2>3, <2>4, <2>5 DEF SessionsAtHead, FlushReachesAll
<1>8. CASE FlushChanges
  <2>1. task \in LateTasks /\ task.pc = "accepted" /\ reads = {}
    BY <1>1, <1>8, LateTaskType, NoReads DEF FlushChanges
  <2>2. task'.pc = "flushing"
    BY <1>8, <2>1 DEF FlushChanges, LateTasks
  <2>3. /\ UNCHANGED <<revisions, sessionRev, room>> /\ head' = head
        /\ reads' = {[origin |-> TaskFlush, sock |-> s, rev |-> sessionRev[s] + 1] :
                        s \in {t \in room : sessioninfos[t] = "ready"
                                            /\ sessionRev[t] < head}}
    BY <1>8, <2>1 DEF FlushChanges, updatePadClients, head
  <2>4. ASSUME NEW s \in room
        PROVE  sessionRev[s] = head \/ \E rd \in reads' : rd.sock = s
    <3>1. sessioninfos[s] = "ready" /\ (sessionRev[s] = head \/ sessionRev[s] < head)
      BY <1>1 DEF NobodyArrives, SessionsAtHead
    <3>2. CASE sessionRev[s] < head
      <4>1. [origin |-> TaskFlush, sock |-> s, rev |-> sessionRev[s] + 1] \in reads'
        BY <2>3, <3>1, <3>2
      <4> QED
        BY <4>1
    <3> QED
      BY <3>1, <3>2
  <2>5. \A rd \in reads' : rd.origin = TaskFlush /\ rd.rev = sessionRev[rd.sock] + 1
    BY <2>3
  <2>6. SessionsAtHead'
    BY <1>1, <2>2, <2>3 DEF SessionsAtHead
  <2> QED
    BY <2>2, <2>3, <2>4, <2>5, <2>6 DEF FlushReachesAll
<1>9. CASE FinishUserChanges
  <2>1. /\ task.pc = "flushing" /\ task' = Idle
        /\ UNCHANGED <<revisions, sessionRev, room, reads>> /\ head' = head
    BY <1>9 DEF FinishUserChanges, head
  <2>2. reads = {}
    BY <1>1, <1>9 DEF FinishUserChanges, Flushing, FlushReachesAll
  <2> QED
    BY <1>1, <1>2, <2>1, <2>2 DEF SessionsAtHead, FlushReachesAll
<1> QED
  BY <1>3, <1>4, <1>5, <1>6, <1>7, <1>8, <1>9 DEF UserChangesStep

LEMMA SteadySend ==
  ASSUME TypeInv, SteadyInv, NEW rd \in reads, SendRevision(rd)
  PROVE  SessionsAtHead' /\ FlushReachesAll'
<1>1. /\ ServerTypeOK /\ SessionsAtHead /\ FlushReachesAll /\ PendingRevisionsExist
      /\ head \in Nat /\ \A s \in room : s \in Sockets /\ sessionRev[s] \in Nat
  BY HeadType DEF TypeInv, TypeOK, SteadyInv, ServerTypeOK
<1>2. /\ rd \in [origin: Origins, sock: Sockets, rev: Nat] /\ rd.rev \in 1..head
      /\ task.pc = "flushing" /\ rd.origin = TaskFlush /\ rd.rev = sessionRev[rd.sock] + 1
  BY <1>1 DEF ServerTypeOK, PendingRevisionsExist, FlushReachesAll
<1>3. /\ UNCHANGED <<revisions, task, room>> /\ head' = head
      /\ sessionRev' = [sessionRev EXCEPT ![rd.sock] = rd.rev]
      /\ reads' = (reads \ {rd}) \cup
                  {[rd EXCEPT !.rev = r] : r \in {rd.rev + 1} \cap 1..head}
  BY DEF SendRevision, head
<1>4. \A s \in Sockets : sessionRev'[s] = IF s = rd.sock THEN rd.rev ELSE sessionRev[s]
  BY <1>1, <1>3 DEF ServerTypeOK
<1>5. ASSUME NEW q \in reads, q # rd
      PROVE  q.sock # rd.sock
  <2>1. /\ q \in [origin: Origins, sock: Sockets, rev: Nat]
        /\ q.origin = TaskFlush /\ q.rev = sessionRev[q.sock] + 1
    BY <1>1 DEF ServerTypeOK, FlushReachesAll
  <2>2. q.sock = rd.sock => q = rd
    BY <1>2, <2>1
  <2> QED
    BY <1>5, <2>2
<1>6. SessionsAtHead'
  BY <1>1, <1>2, <1>3, <1>4 DEF SessionsAtHead
<1>7. ASSUME NEW q \in reads'
      PROVE  q.origin = TaskFlush /\ q.rev = sessionRev'[q.sock] + 1
  <2>1. CASE q \in reads /\ q # rd
    <3>1. q.sock \in Sockets /\ q.origin = TaskFlush /\ q.rev = sessionRev[q.sock] + 1
      BY <1>1, <2>1 DEF ServerTypeOK, FlushReachesAll
    <3> QED
      BY <1>4, <1>5, <2>1, <3>1
  <2>2. ASSUME NEW r \in {rd.rev + 1} \cap 1..head, q = [rd EXCEPT !.rev = r]
        PROVE  q.origin = TaskFlush /\ q.rev = sessionRev'[q.sock] + 1
    <3>1. q.origin = rd.origin /\ q.sock = rd.sock /\ q.rev = rd.rev + 1
      BY <1>2, <2>2
    <3> QED
      BY <1>2, <1>4, <3>1
  <2> QED
    BY <1>3, <2>1, <2>2
<1>8. ASSUME NEW s \in room
      PROVE  sessionRev'[s] = head \/ \E q \in reads' : q.sock = s
  <2>1. CASE s # rd.sock
    <3>1. sessionRev[s] = head \/ \E q \in reads : q.sock = s
      BY <1>1, <1>2 DEF FlushReachesAll
    <3> QED
      BY <1>1, <1>3, <1>4, <2>1, <3>1
  <2>2. CASE s = rd.sock
    <3>1. CASE rd.rev = head
      BY <1>1, <1>4, <2>2, <3>1
    <3>2. CASE rd.rev # head
      <4>1. rd.rev + 1 \in {rd.rev + 1} \cap 1..head
        BY <1>1, <1>2, <3>2
      <4>2. [rd EXCEPT !.rev = rd.rev + 1] \in reads'
        BY <1>3, <4>1
      <4>3. [rd EXCEPT !.rev = rd.rev + 1].sock = rd.sock
        BY <1>2
      <4> QED
        BY <2>2, <4>2, <4>3
    <3> QED
      BY <3>1, <3>2
  <2> QED
    BY <2>1, <2>2
<1> QED
  BY <1>2, <1>3, <1>6, <1>7, <1>8 DEF FlushReachesAll

LEMMA SteadyStep ==
  ASSUME Steady, TypeInv, SteadyInv, [Next]_vars
  PROVE  SteadyInv'
<1>1. NobodyArrives'
  BY SteadyArrivals
<1>2. CASE UNCHANGED serverVars
  <2>1. UNCHANGED <<revisions, sessionRev, task, reads, room>>
    BY <1>2 DEF serverVars
  <2> QED
    BY <1>1, <2>1, QuietStep DEF SteadyInv
<1>3. ASSUME NEW s \in Sockets, HandleDisconnect(s) \/ HandleMessage(s)
      PROVE  SteadyInv'
  <2>1. UNCHANGED <<revisions, sessionRev, task, reads>> /\ room' \subseteq room
    BY <1>3 DEF HandleDisconnect, HandleMessage
  <2> QED
    BY <1>1, <2>1, QuietStep DEF SteadyInv
<1>4. CASE UserChangesStep
  BY <1>1, <1>4, SteadyTask DEF SteadyInv
<1>5. ASSUME NEW rd \in reads, SendRevision(rd)
      PROVE  SteadyInv'
  BY <1>1, <1>5, SteadySend DEF SteadyInv
<1>6. UNCHANGED vars => UNCHANGED serverVars
  BY DEF vars
<1> QED
  BY <1>2, <1>3, <1>4, <1>5, <1>6, SteadySteps

(* assert.equal(thisSession.rev, r) never fails for a pad nobody joins or   *)
(* returns to and no API call writes to: every flush has reached every      *)
(* session before the next USER_CHANGES starts.  Each of the three          *)
(* assumptions is needed.                                                   *)
THEOREM SteadyCommitsInOrder ==
  ASSUME Steady
  PROVE  Spec => []CommitsInOrder
<1>1. Init => SteadyInv
  BY SteadyInit
<1>2. TypeInv /\ SteadyInv /\ [Next]_vars => SteadyInv'
  BY SteadyStep
<1>3. SteadyInv => CommitsInOrder
  BY DEF SteadyInv, SessionsAtHead, CommitsInOrder
<1> QED
  BY <1>1, <1>2, <1>3, TypeInvHolds, PTL DEF Spec

-----------------------------------------------------------------------------
(* Steady pads: the only socket of a browser. *)
SocketIs(c, s) == s = <<c, 1>> /\ s \in Sockets /\ SocketOf(c) = s /\ ClientOf(s) = c

LEMMA SteadySockets ==
  ASSUME Steady, NobodyArrives
  PROVE  /\ MaxConn = 1 /\ \A c \in Clients : SocketIs(c, <<c, 1>>)
         /\ \A s \in Sockets : ClientOf(s) \in Clients /\ SocketIs(ClientOf(s), s)
<1>1. MaxConn = 1 /\ Sockets = Clients \X {1} /\ \A c \in Clients : conn[c] = 1
  <2>1. 1..1 = {1}
    OBVIOUS
  <2> QED
    BY <2>1 DEF Steady, NobodyArrives, Sockets
<1> QED
  BY <1>1 DEF SocketIs, SocketOf, ClientOf

(* One message more, one message less. *)
LEMMA SeqElement ==
  ASSUME NEW S, NEW q \in Seq(S), NEW i \in 1..Len(q)
  PROVE  q[i] \in S
OBVIOUS

LEMMA AppendParts ==
  ASSUME NEW S, NEW q \in Seq(S), NEW m, NEW q2, q2 = Append(q, m)
  PROVE  /\ Len(q) \in Nat /\ Len(q2) = Len(q) + 1 /\ q2[Len(q) + 1] = m
         /\ \A i \in 1..Len(q) : q2[i] = q[i]
         /\ \A i \in 1..Len(q2) : i \in 1..Len(q) \/ i = Len(q) + 1
OBVIOUS

LEMMA TailParts ==
  ASSUME NEW S, NEW q \in Seq(S), q # <<>>, NEW q2, q2 = Tail(q)
  PROVE  /\ Len(q) \in Nat /\ 1 \in 1..Len(q) /\ Len(q2) = Len(q) - 1
         /\ \A i \in 1..Len(q2) : i + 1 \in 1..Len(q) /\ q2[i] = q[i + 1]
BY HeadTailProperties

(* Edits of one origin are not those of another. *)
LEMMA EditsApart ==
  ASSUME NEW c \in Clients
  PROVE  /\ EditsOf(c) \subseteq Edits
         /\ \A d \in Clients : d # c => EditsOf(c) \cap EditsOf(d) = {}
         /\ EditsOf(c) \cap FixEdits = {} /\ EditsOf(c) \cap ApiEdits = {}
BY OriginsAssumption DEF EditsOf, Edits, FixEdits, ApiEdits

LEMMA StoredType ==
  ASSUME TypeInv, NEW r \in 1..head
  PROVE  /\ revisions[r].changeset \in Changesets
         /\ StoredEdits(r) \subseteq Edits /\ IsFiniteSet(StoredEdits(r))
<1>1. revisions[r].changeset \in Changesets
  BY RevisionType DEF TypeInv, TypeOK
<1> QED
  BY <1>1, EditsFinite, FS_Subset DEF Changesets, StoredEdits

(* What stored revisions say of themselves stays as it is. *)
LEMMA StoredKept ==
  ASSUME Kept
  PROVE  \A r \in 1..head : /\ r \in 1..head'
                            /\ StoredEdits(r)' = StoredEdits(r)
                            /\ newChanges(r)' = newChanges(r)
                            /\ \A c \in Clients : IsOwnRevision(c, r)' = IsOwnRevision(c, r)
BY DEF Kept, StoredEdits, newChanges, IsOwnRevision

-----------------------------------------------------------------------------
LEMMA LosslessInit ==
  ASSUME Steady, Init
  PROVE  LosslessInv
<1>1. SteadyInv
  BY SteadyInit
<1>2. MaxConn = 1 /\ Sockets = Clients \X {1} /\ Joined = Clients
      /\ \A c \in Clients : <<c, 1>> \in Sockets
  <2>1. 1..1 = {1}
    OBVIOUS
  <2> QED
    BY <2>1 DEF Steady, Sockets
<1>3. head = 0 /\ 1..head = {}
  BY DEF Init, ServerInit, head
<1>4. /\ \A s \in Sockets : up[s] = <<>> /\ down[s] = <<>> /\ sessionRev[s] = 0
      /\ padChannel = <<>> /\ task.pc = "idle"
  BY DEF Init, ClientInit, ServerInit, Idle
<1>5. EveryoneConnected
  BY <1>2 DEF EveryoneConnected, Init, ClientInit, ServerInit
<1>6. EditsStoredOnce
  BY <1>3 DEF EditsStoredOnce
<1>7. OneSubmissionEach
  BY <1>4 DEF OneSubmissionEach, SubmissionSent, SubmissionQueued, SubmissionRebased,
              SubmissionAppended
<1>8. BaseMatchesRevision
  <2>1. EmptyText = TextAt(revisions, 0)
    <3>1. \A e \in Edits : Cardinality({i \in 1..0 : e \in revisions[i].changeset.edits}) = 0
      <4>1. \A e \in Edits : {i \in 1..0 : e \in revisions[i].changeset.edits} = {}
        OBVIOUS
      <4> QED
        BY <4>1, FS_EmptySet
    <3> QED
      BY <3>1 DEF EmptyText, TextAt, LengthAt
  <2> QED
    BY <1>3, <2>1 DEF BaseMatchesRevision, Init, ClientInit
<1>9. ASSUME NEW c \in Clients
      PROVE  OwnEditsInOnePlace(c) /\ DeliveredInOrder(c)
  <2>1. submitted[c] = {} /\ user[c] = {} /\ typed[c] = 0 /\ rev[c] = 0
    BY DEF Init, ClientInit
  <2>2. OwnEditsInOnePlace(c)
    BY <1>3, <2>1 DEF OwnEditsInOnePlace
  <2>3. DeliveredInOrder(c)
    BY <1>2, <1>3, <1>4, <2>1 DEF DeliveredInOrder
  <2> QED
    BY <2>2, <2>3
<1> QED
  BY <1>1, <1>5, <1>6, <1>7, <1>8, <1>9 DEF LosslessInv

-----------------------------------------------------------------------------
(* What the steps of a steady pad do. *)

(* The browser takes the next revision, as someone's changes or as its own. *)
SeesNext(c) ==
    /\ rev[c] + 1 \in 1..head /\ down[<<c, 1>>] # <<>>
    /\ down' = [down EXCEPT ![<<c, 1>>] = Tail(@)]
    /\ rev' = [rev EXCEPT ![c] = @ + 1]
    /\ base' = [base EXCEPT ![c] = TextAt(revisions, rev[c] + 1)]
    /\ IF IsOwnRevision(c, rev[c] + 1)
       THEN /\ submitted' = [submitted EXCEPT ![c] = {}]
            /\ committing' = [committing EXCEPT ![c] = FALSE]
       ELSE UNCHANGED <<submitted, committing>>
    /\ UNCHANGED <<conn, open, up, mode, receivedClientVars, user, isPendingRevision,
                   enabled, typed>>

(* The first message on its way, and the revision it is about. *)
LEMMA NextMessage ==
  ASSUME Steady, TypeInv, LosslessInv, NEW c \in Clients, NEW msg \in Incoming(c)
  PROVE  /\ down[<<c, 1>>] # <<>> /\ rev[c] + 1 \in 1..head
         /\ rev[c] \in 0..head
         /\ msg = delivered(c, rev[c] + 1)
<1> DEFINE s == <<c, 1>>
<1>1. SocketIs(c, s) /\ s \in room
  BY SteadySockets DEF LosslessInv, SteadyInv, EveryoneConnected, SocketIs
<1>2. down[s] # <<>> /\ msg = Head(down[s])
  BY <1>1 DEF Incoming, SocketIs
<1>3. down[s] \in Seq(DownMessages) /\ rev[c] \in Nat /\ head \in Nat
  BY <1>1, HeadType DEF SocketIs, TypeInv, TypeOK, NetTypeOK, ClientTypeOK
<1>4. Len(down[s]) \in Nat /\ 1 \in 1..Len(down[s]) /\ Head(down[s]) = down[s][1]
  BY <1>2, <1>3, HeadTailProperties
<1>5. sessionRev[s] = rev[c] + Len(down[s]) /\ sessionRev[s] <= head
  BY <1>1 DEF LosslessInv, SteadyInv, SessionsAtHead, DeliveredInOrder
<1>6. down[s][1] = delivered(c, rev[c] + 1)
  BY <1>4 DEF LosslessInv, DeliveredInOrder
<1>7. rev[c] + 1 \in 1..head /\ rev[c] \in 0..head
  BY <1>3, <1>4, <1>5
<1> QED
  BY <1>2, <1>4, <1>6, <1>7

LEMMA ReceiveSees ==
  ASSUME Steady, TypeInv, HistoryApplies, LosslessInv, NEW c \in Clients,
         ReceiveNewChanges(c) \/ ReceiveAcceptCommit(c)
  PROVE  SeesNext(c)
<1> DEFINE s == <<c, 1>>
           r == rev[c] + 1
<1>1. SocketOf(c) = s
  BY SteadySockets DEF LosslessInv, SteadyInv, SocketIs
<1>2. PICK msg \in Incoming(c) :
        \/ msg.type = "NEW_CHANGES" /\ ReceiveNewChanges(c)
        \/ msg.type = "ACCEPT_COMMIT" /\ ReceiveAcceptCommit(c)
  BY DEF ReceiveNewChanges, ReceiveAcceptCommit
<1>3. /\ \A m \in Incoming(c) : m = msg
      /\ down[s] # <<>> /\ r \in 1..head /\ rev[c] \in 0..head
      /\ msg = IF IsOwnRevision(c, r) THEN acceptedAt(r) ELSE newChanges(r)
  BY <1>2, NextMessage DEF delivered
<1>4. /\ base[c] = TextAt(revisions, rev[c]) /\ r - 1 = rev[c]
      /\ rev \in [Clients -> Nat] /\ base \in [Clients -> Texts]
      /\ receivedClientVars[c]
  BY <1>3 DEF LosslessInv, BaseMatchesRevision, EveryoneConnected, TypeInv, TypeOK,
              ClientTypeOK
<1>5. /\ Fits(revisions[r].changeset, base[c])
      /\ ApplyToText(revisions[r].changeset, base[c]) = TextAt(revisions, r)
  BY <1>3, <1>4, NextText
<1>6. /\ newChanges(r).type = "NEW_CHANGES" /\ newChanges(r).newRev = r
      /\ newChanges(r).changeset = revisions[r].changeset
      /\ acceptedAt(r).type = "ACCEPT_COMMIT" /\ acceptedAt(r).newRev = r
  BY DEF newChanges, acceptedAt
<1>7. CASE ReceiveNewChanges(c) /\ msg.type = "NEW_CHANGES"
  <2>1. ~IsOwnRevision(c, r) /\ msg = newChanges(r)
    BY <1>3, <1>6, <1>7
  <2>2. IsNext(c, msg)
    BY <1>6, <2>1 DEF IsNext
  <2>3. /\ Handle(c) /\ rev' = [rev EXCEPT ![c] = r]
        /\ applyChangesToBase(c, revisions[r].changeset)
        /\ UNCHANGED isPendingRevision
    BY <1>3, <1>6, <1>7, <2>1, <2>2 DEF ReceiveNewChanges
  <2>4. base' = [base EXCEPT ![c] = TextAt(revisions, r)]
    BY <1>4, <1>5, <2>3 DEF applyChangesToBase
  <2> QED
    BY <1>1, <1>3, <2>1, <2>3, <2>4 DEF SeesNext, Handle, Take, applyChangesToBase
<1>8. CASE ReceiveAcceptCommit(c) /\ msg.type = "ACCEPT_COMMIT"
  <2>1. IsOwnRevision(c, r) /\ msg = acceptedAt(r)
    BY <1>3, <1>6, <1>8
  <2>2. /\ Handle(c) /\ rev' = [rev EXCEPT ![c] = r]
        /\ acceptCommit(c) /\ UNCHANGED isPendingRevision
    BY <1>3, <1>6, <1>8, <2>1 DEF ReceiveAcceptCommit
  <2>3. r \in rev[c] + 1..head /\ StoredEdits(r) = submitted[c] /\ StoredEdits(r) # {}
    BY <1>3, <2>1 DEF LosslessInv, OwnEditsInOnePlace, EditsStoredOnce
  <2>4. ApplyToText([edits |-> submitted[c], oldLen |-> base[c].len], base[c])
          = TextAt(revisions, r)
    BY <1>5, <2>3 DEF ApplyToText, StoredEdits
  <2>5. /\ base' = [base EXCEPT ![c] = TextAt(revisions, r)]
        /\ submitted' = [submitted EXCEPT ![c] = {}]
        /\ committing' = [committing EXCEPT ![c] = FALSE]
    BY <1>4, <2>2, <2>3, <2>4 DEF acceptCommit, CanAccept
  <2> QED
    BY <1>1, <1>3, <2>1, <2>2, <2>5 DEF SeesNext, Handle, Take
<1> QED
  BY <1>2, <1>7, <1>8

LEMMA LosslessBrowser ==
  ASSUME Steady, TypeInv, HistoryApplies, LosslessInv, NEW c \in Clients,
         Browser(c) \/ Environment(c)
  PROVE  Type(c) \/ SlowCommit(c) \/ handleUserChanges(c) \/ SeesNext(c)
<1>1. /\ MaxConn = 1 /\ conn[c] = 1 /\ mode[c] = "on"
  BY DEF Steady, LosslessInv, SteadyInv, NobodyArrives, EveryoneConnected
<1>2. ~Lose(c) /\ ~GiveUp(c)
  BY <1>1 DEF Lose, GiveUp
<1>3. \A msg \in Incoming(c) : msg.type \in {"NEW_CHANGES", "ACCEPT_COMMIT"}
  <2>1. \A n : newChanges(n).type = "NEW_CHANGES" /\ acceptedAt(n).type = "ACCEPT_COMMIT"
    BY DEF newChanges, acceptedAt
  <2> QED
    BY <2>1, NextMessage DEF delivered
<1>4. ~ReceiveDisconnect(c) /\ ~ReceiveClientVars(c) /\ ~ReceiveClientReconnect(c)
  <2>1. \A m \in {"DISCONNECT", "CLIENT_VARS", "CLIENT_RECONNECT"} :
          ~(\E msg \in Incoming(c) : msg.type = m)
    BY <1>3
  <2> QED
    BY <2>1, Zenon DEF ReceiveDisconnect, ReceiveClientVars, ReceiveClientReconnect
<1> QED
  BY <1>2, <1>4, ReceiveSees DEF Browser, ClientStep, Environment, ClientEnvironment

(* The next changeset of the queue is taken up, rebased and appended, and   *)
(* its sender told: no handler ends with an error.                          *)
Starts ==
    /\ task.pc = "idle" /\ padChannel # <<>>
    /\ padChannel' = Tail(padChannel)
    /\ task' = [pc |-> "rebase", sock |-> padChannel[1].sock, r |-> padChannel[1].baseRev,
                canonicalCs |-> padChannel[1].changeset,
                changeset |-> padChannel[1].changeset]
    /\ UNCHANGED <<netVars, revisions, sessionRev>>
Rebases ==
    /\ task.pc = "rebase" /\ task.r + 1 \in 1..head
    /\ task' = [task EXCEPT !.r = @ + 1,
                            !.changeset = [edits |-> task.changeset.edits,
                                           oldLen |-> LengthAt(revisions, task.r + 1)]]
    /\ UNCHANGED <<netVars, revisions, sessionRev, padChannel>>
Appends ==
    /\ task.pc = "rebase" /\ task.r = head
    /\ appendRevision(task.changeset, thisAuthor)
    /\ task' = [pc |-> "appended", sock |-> task.sock, r |-> head, newRev |-> head + 1]
    /\ UNCHANGED <<netVars, sessionRev, padChannel>>
Corrects ==
    /\ CorrectMarkers
    /\ UNCHANGED <<netVars, sessionRev, padChannel>>
Accepts ==
    /\ task.pc \in {"appended", "corrected"} /\ sessionRev[task.sock] = task.r
    /\ down' = [down EXCEPT ![task.sock] = Append(@, acceptedAt(task.newRev))]
    /\ sessionRev' = [sessionRev EXCEPT ![task.sock] = task.newRev]
    /\ task' = [task EXCEPT !.pc = "accepted"]
    /\ UNCHANGED <<conn, open, up, revisions, padChannel>>
Flushes ==
    /\ task.pc \in {"accepted", "flushing"} /\ task'.pc \in {"idle", "flushing"}
    /\ UNCHANGED <<netVars, revisions, sessionRev, padChannel>>
Sends(rd) ==
    /\ task.pc = "flushing" /\ rd.sock \in Sockets
    /\ rd.rev = sessionRev[rd.sock] + 1 /\ rd.rev \in 1..head
    /\ down' = [down EXCEPT ![rd.sock] = Append(@, newChanges(rd.rev))]
    /\ sessionRev' = [sessionRev EXCEPT ![rd.sock] = rd.rev]
    /\ UNCHANGED <<conn, open, up, revisions, padChannel, task>>
Enqueues(s) ==
    /\ up[s] # <<>> /\ up' = [up EXCEPT ![s] = Tail(@)]
    /\ padChannel' = Append(padChannel, [sock |-> s, baseRev |-> up[s][1].baseRev,
                                         changeset |-> up[s][1].changeset])
    /\ UNCHANGED <<conn, open, down, revisions, sessionRev, task>>

LEMMA StartSteady ==
  ASSUME TypeInv, LosslessInv, StartUserChanges
  PROVE  Starts
<1>1. padChannel \in Seq([sock: Sockets, baseRev: Nat, changeset: Changesets])
  BY DEF TypeInv, TypeOK, ServerTypeOK
<1>2. Head(padChannel) = padChannel[1] /\ padChannel[1].sock \in Sockets
  <2>1. padChannel # <<>>
    BY DEF StartUserChanges
  <2>2. Head(padChannel) \in [sock: Sockets, baseRev: Nat, changeset: Changesets]
    BY <1>1, <2>1, HeadTailProperties
  <2>3. Head(padChannel) = padChannel[1]
    BY <1>1, <2>1
  <2> QED
    BY <2>2, <2>3
<1>3. sessioninfos[padChannel[1].sock] = "ready"
  BY <1>2 DEF LosslessInv, EveryoneConnected, SteadyInv, NobodyArrives
<1> QED
  BY <1>2, <1>3 DEF StartUserChanges, Starts, Idle, netVars

LEMMA RebaseSteady ==
  ASSUME TypeInv, HistoryApplies, LosslessInv, Rebase
  PROVE  Rebases
<1>1. /\ task \in [pc: {"rebase"}, sock: Sockets, r: Nat, canonicalCs: Changesets,
                   changeset: Changesets]
      /\ head \in Nat /\ task.pc = "rebase"
  BY RebaseTaskType, HeadType DEF TypeInv, TypeOK, Rebase
<1>2. task.r + 1 \in 1..head /\ task.r + 1 - 1 = task.r
  BY <1>1 DEF Rebase
<1> DEFINE c == revisions[task.r + 1]
<1>3. /\ Submission(task.sock, task.changeset, task.r)
      /\ task.canonicalCs.edits = task.changeset.edits
  BY <1>1 DEF LosslessInv, OneSubmissionEach, SubmissionRebased
<1>4. c.changeset.edits \cap task.changeset.edits = {} /\ task.changeset.edits # {}
  BY <1>2, <1>3 DEF Submission, StoredEdits
<1>5. ~IsRetransmission(c)
  BY <1>3, <1>4 DEF IsRetransmission
<1>6. CanFollow(c.changeset, task.changeset)
  <2>1. \A i \in 1..head : i = task.r + 1 =>
           revisions[i].changeset.oldLen = LengthAt(revisions, task.r)
    <3>1. \A i \in 1..head : i = task.r + 1 => i - 1 = task.r
      BY <1>1
    <3> QED
      BY <3>1 DEF HistoryApplies
  <2> QED
    BY <1>2, <1>3, <2>1 DEF CanFollow, Submission
<1>7. LengthAt(revisions, task.r + 1) = NewLen(c.changeset)
  BY <1>1, <1>2 DEF LengthAt
<1>8. task' = [task EXCEPT !.r = @ + 1, !.changeset = Follow(c.changeset, task.changeset)]
      /\ UNCHANGED down
  BY <1>5, <1>6 DEF Rebase
<1> QED
  BY <1>1, <1>2, <1>7, <1>8 DEF Rebases, Rebase, Follow, netVars

LEMMA AppendSteady ==
  ASSUME TypeInv, LosslessInv, AppendChanges
  PROVE  Appends
<1>1. task.pc = "rebase" /\ task.r = head
  BY DEF AppendChanges
<1>2. Submission(task.sock, task.changeset, task.r)
  BY <1>1 DEF LosslessInv, OneSubmissionEach, SubmissionRebased
<1>3. Applies /\ ~IsIdentity(task.changeset)
  BY <1>1, <1>2 DEF Applies, IsIdentity, Submission
<1> QED
  BY <1>1, <1>3 DEF AppendChanges, Appends, netVars

LEMMA EmitAppends ==
  ASSUME TypeInv, NEW s \in open, NEW m, Emit(s, m)
  PROVE  down' = [down EXCEPT ![s] = Append(@, m)]
<1>1. down \in [Sockets -> Seq(DownMessages)] /\ s \in Sockets
  BY DEF TypeInv, TypeOK, NetTypeOK
<1>2. down[s] \o <<m>> = Append(down[s], m)
  BY <1>1
<1> QED
  BY <1>1, <1>2 DEF Emit, Emitted

LEMMA AcceptSteady ==
  ASSUME TypeInv, LosslessInv, AcceptCommit
  PROVE  Accepts
<1>1. task \in LateTasks /\ task.pc \in {"appended", "corrected"} /\ task.sock \in Sockets
  BY LateTaskType DEF AcceptCommit, TypeInv, TypeOK, LateTasks
<1>2. sessionRev[task.sock] = task.r /\ task.sock \in open
  BY <1>1 DEF LosslessInv, EveryoneConnected, SteadyInv, SessionsAtHead
<1>3. Emit(task.sock, acceptedAt(task.newRev))
  BY <1>2 DEF AcceptCommit, acceptedAt
<1>4. down' = [down EXCEPT ![task.sock] = Append(@, acceptedAt(task.newRev))]
  BY <1>2, <1>3, EmitAppends
<1> QED
  BY <1>1, <1>2, <1>4 DEF AcceptCommit, Accepts

LEMMA SendSteady ==
  ASSUME TypeInv, LosslessInv, NEW rd \in reads, SendRevision(rd)
  PROVE  Sends(rd)
<1>1. /\ task.pc = "flushing" /\ rd.rev = sessionRev[rd.sock] + 1 /\ rd.rev \in 1..head
      /\ rd.sock \in Sockets /\ rd.sock \in open
  BY DEF LosslessInv, EveryoneConnected, SteadyInv, FlushReachesAll, TypeInv, TypeOK,
         PendingRevisionsExist, ServerTypeOK
<1>2. down' = [down EXCEPT ![rd.sock] = Append(@, newChanges(rd.rev))]
  BY <1>1, EmitAppends DEF SendRevision
<1> QED
  BY <1>1, <1>2 DEF SendRevision, Sends

LEMMA MessageSteady ==
  ASSUME TypeInv, LosslessInv, NEW s \in Sockets, HandleMessage(s)
  PROVE  Enqueues(s)
<1>1. up[s] \in Seq(UpMessages) /\ up[s] # <<>>
  BY DEF HandleMessage, TypeInv, TypeOK, NetTypeOK
<1>2. 1 \in 1..Len(up[s]) /\ Head(up[s]) = up[s][1]
  BY <1>1, HeadTailProperties
<1>3. Head(up[s]).type = "USER_CHANGES" /\ sessioninfos[s] = "ready"
  BY <1>2 DEF LosslessInv, EveryoneConnected, SteadyInv, NobodyArrives
<1> QED
  BY <1>1, <1>2, <1>3 DEF HandleMessage, Enqueues

LEMMA LosslessSteps ==
  ASSUME Steady, TypeInv, HistoryApplies, LosslessInv, Next
  PROVE  \/ /\ UNCHANGED <<clientVars, open, room>>
            /\ \/ Starts \/ Rebases \/ Appends \/ Corrects \/ Accepts \/ Flushes
               \/ \E rd \in reads : Sends(rd)
               \/ \E s \in Sockets : Enqueues(s)
         \/ /\ UNCHANGED serverVars
            /\ \E c \in Clients :
                  Type(c) \/ SlowCommit(c) \/ handleUserChanges(c) \/ SeesNext(c)
<1>1. SteadyInv
  BY DEF LosslessInv
<1>2. UserChangesStep => Starts \/ Rebases \/ Appends \/ Corrects \/ Accepts \/ Flushes
  <2>1. FlushChanges \/ FinishUserChanges => Flushes
    <3>1. FlushChanges => task \in LateTasks
      BY LateTaskType DEF FlushChanges, TypeInv, TypeOK
    <3> QED
      BY <3>1 DEF FlushChanges, FinishUserChanges, Flushes, Idle, LateTasks
  <2>2. CorrectMarkers => Corrects
    BY DEF CorrectMarkers, Corrects
  <2> QED
    BY <2>1, <2>2, StartSteady, RebaseSteady, AppendSteady, AcceptSteady DEF UserChangesStep
<1>3. \A s \in Sockets : ~HandleDisconnect(s)
  BY DEF HandleDisconnect, LosslessInv, EveryoneConnected
<1>4. /\ UserChangesStep => UNCHANGED <<open, room>>
      /\ \A rd \in reads : SendRevision(rd) => UNCHANGED <<open, room>>
      /\ \A s \in Sockets : HandleMessage(s) => UNCHANGED <<open, room>>
  BY DEF UserChangesStep, StartUserChanges, Rebase, AppendChanges, CorrectMarkers,
         AcceptCommit, FlushChanges, FinishUserChanges, SendRevision, HandleMessage, netVars
<1> QED
  BY <1>1, <1>2, <1>3, <1>4, SteadySteps, SendSteady, MessageSteady, LosslessBrowser

-----------------------------------------------------------------------------
(* What a new revision stores was stored nowhere. *)

Stores(E) ==
    /\ Kept /\ head' = head + 1 /\ StoredEdits(head)' = E
    /\ E # {} /\ \A q \in 1..head : StoredEdits(q) \cap E = {}

LEMMA AppendsStores ==
  ASSUME Steady, TypeInv, LosslessInv, Appends
  PROVE  /\ ClientOf(task.sock) \in Clients
         /\ Stores(submitted[ClientOf(task.sock)])
<1>1. task \in [pc: {"rebase"}, sock: Sockets, r: Nat, canonicalCs: Changesets,
                changeset: Changesets]
  BY RebaseTaskType DEF TypeInv, TypeOK, Appends
<1>2. task.changeset \in Changesets /\ thisAuthor \in Authors \cup {Api}
      /\ ClientOf(task.sock) \in Clients
  BY <1>1, AuthorType, SteadySockets DEF thisAuthor, LosslessInv, SteadyInv
<1>3. /\ Kept /\ head' = head + 1
      /\ revisions'[head'] = [changeset |-> task.changeset, author |-> thisAuthor]
  BY <1>2, AppendKeeps DEF Appends
<1>4. Submission(task.sock, task.changeset, task.r)
  BY DEF LosslessInv, OneSubmissionEach, SubmissionRebased, Appends
<1> QED
  BY <1>2, <1>3, <1>4 DEF Stores, Submission, StoredEdits

LEMMA CorrectionsCounted ==
  ASSUME TypeInv
  PROVE  IsFiniteSet(Corrections) /\ Cardinality(Corrections) \in Nat
<1>1. head \in Nat
  BY HeadType DEF TypeInv, TypeOK
<1>2. IsFiniteSet(1..head) /\ Corrections \subseteq 1..head
  BY <1>1, FS_Interval DEF Corrections
<1> QED
  BY <1>2, FS_Subset, FS_CardinalityType

LEMMA CorrectsStores ==
  ASSUME TypeInv, LosslessInv, Corrects
  PROVE  /\ Cardinality(Corrections) + 1 \in 1..MaxFix
         /\ Stores({<<Fix, Cardinality(Corrections) + 1>>})
<1> DEFINE k == Cardinality(Corrections) + 1
           cs == [edits |-> {<<Fix, k>>}, oldLen |-> LengthAt(revisions, head)]
<1>1. k \in 1..MaxFix /\ k - 1 = Cardinality(Corrections)
  BY CorrectionsCounted, BoundsAssumption DEF Corrects, CorrectMarkers
<1>2. cs \in Changesets /\ thisAuthor \in Authors \cup {Api}
  BY CorrectionType DEF TypeInv, TypeOK, Corrects
<1>3. /\ Kept /\ head' = head + 1
      /\ revisions'[head'] = [changeset |-> cs, author |-> thisAuthor]
  BY <1>2, AppendKeeps DEF Corrects, CorrectMarkers
<1>4. ASSUME NEW q \in 1..head
      PROVE  <<Fix, k>> \notin StoredEdits(q)
  BY <1>1 DEF LosslessInv, EditsStoredOnce
<1> QED
  BY <1>1, <1>3, <1>4 DEF Stores, StoredEdits

LEMMA StoredThen ==
  ASSUME NEW E, Stores(E)
  PROVE  /\ head \in Nat /\ head' = head + 1
         /\ \A r \in 1..head' : r \in 1..head \/ r = head'
         /\ \A r \in 1..head' : StoredEdits(r)' = IF r = head' THEN E ELSE StoredEdits(r)
<1>1. /\ head \in Nat /\ head' = head + 1
      /\ \A r \in 1..head' : r \in 1..head \/ r = head'
  BY DEF Stores, Kept
<1>2. \A r \in 1..head : r # head' /\ StoredEdits(r)' = StoredEdits(r)
  BY <1>1, StoredKept DEF Stores
<1>3. \A r : r = head' => StoredEdits(r)' = E
  BY DEF Stores, StoredEdits
<1> QED
  BY <1>1, <1>2, <1>3

LEMMA StoresOnce ==
  ASSUME TypeInv, EditsStoredOnce, NEW E, Stores(E),
         \/ E \cap FixEdits = {}
         \/ /\ Cardinality(Corrections) + 1 \in 1..MaxFix
            /\ E = {<<Fix, Cardinality(Corrections) + 1>>}
  PROVE  EditsStoredOnce'
<1>1. /\ head \in Nat /\ head' = head + 1 /\ head' \in 1..head'
      /\ \A r \in 1..head' : r \in 1..head \/ r = head'
      /\ \A r \in 1..head : r \in 1..head' /\ r # head'
      /\ \A r \in 1..head' : StoredEdits(r)' = IF r = head' THEN E ELSE StoredEdits(r)
  BY StoredThen
<1>2. \A r \in 1..head' : StoredEdits(r)' # {}
  BY <1>1 DEF EditsStoredOnce, Stores
<1>3. \A q, r \in 1..head' : StoredEdits(q)' \cap StoredEdits(r)' # {} => q = r
  <2>1. ASSUME NEW q \in 1..head', NEW r \in 1..head',
               StoredEdits(q)' \cap StoredEdits(r)' # {}
        PROVE  q = r
    <3>1. CASE q \in 1..head /\ r \in 1..head
      BY <1>1, <2>1, <3>1 DEF EditsStoredOnce
    <3>2. CASE q \in 1..head /\ r = head'
      BY <1>1, <2>1, <3>2 DEF Stores
    <3>3. CASE r \in 1..head /\ q = head'
      BY <1>1, <2>1, <3>3 DEF Stores
    <3> QED
      BY <1>1, <3>1, <3>2, <3>3
  <2> QED
    BY <2>1
<1>4. Corrections' = {r \in 1..head' : StoredEdits(r)' \subseteq FixEdits}
      /\ Corrections = {r \in 1..head : StoredEdits(r) \subseteq FixEdits}
  BY DEF Corrections, StoredEdits
<1>5. IsFiniteSet(Corrections) /\ Cardinality(Corrections) \in Nat
  BY CorrectionsCounted
<1>6. CASE E \cap FixEdits = {}
  <2>1. ~(E \subseteq FixEdits)
    BY <1>6 DEF Stores
  <2>2. Corrections' = Corrections
    BY <1>1, <1>4, <2>1
  <2>3. \A k \in 1..MaxFix : <<Fix, k>> \in FixEdits
    BY DEF FixEdits
  <2> QED
    BY <1>1, <1>2, <1>3, <1>6, <2>2, <2>3 DEF EditsStoredOnce
<1>7. CASE /\ Cardinality(Corrections) + 1 \in 1..MaxFix
           /\ E = {<<Fix, Cardinality(Corrections) + 1>>}
  <2>1. E \subseteq FixEdits
    BY <1>7 DEF FixEdits
  <2>2. Corrections' = Corrections \cup {head'} /\ head' \notin Corrections
    BY <1>1, <1>4, <2>1
  <2>3. Cardinality(Corrections') = Cardinality(Corrections) + 1
    BY <1>5, <2>2, FS_AddElement
  <2>4. ASSUME NEW r \in 1..head', NEW k \in 1..MaxFix, <<Fix, k>> \in StoredEdits(r)'
        PROVE  k <= Cardinality(Corrections)'
    <3>1. CASE r \in 1..head
      <4>1. k <= Cardinality(Corrections)
        BY <1>1, <2>4, <3>1 DEF EditsStoredOnce
      <4> QED
        BY <1>5, <2>3, <4>1
    <3>2. CASE r = head'
      BY <1>1, <1>7, <2>3, <2>4, <3>2
    <3> QED
      BY <1>1, <3>1, <3>2
  <2> QED
    BY <1>2, <1>3, <2>4 DEF EditsStoredOnce
<1> QED
  BY <1>6, <1>7

-----------------------------------------------------------------------------
(* Each edit of a user stays in one place. *)

LEMMA OwnEditsUnmoved ==
  ASSUME NEW c \in Clients, OwnEditsInOnePlace(c), UNCHANGED revisions,
         submitted'[c] = submitted[c], user'[c] = user[c], typed'[c] = typed[c],
         rev'[c] = rev[c], committing'[c] = committing[c]
  PROVE  OwnEditsInOnePlace(c)'
<1>1. /\ head' = head
      /\ \A r : StoredEdits(r)' = StoredEdits(r)
      /\ \A r : IsOwnRevision(c, r)' = IsOwnRevision(c, r)
  BY DEF head, StoredEdits, IsOwnRevision
<1> QED
  BY <1>1 DEF OwnEditsInOnePlace

LEMMA OwnEditsStored ==
  ASSUME TypeInv, NEW c \in Clients, OwnEditsInOnePlace(c), rev[c] <= head,
         UNCHANGED clientVars, NEW E, Stores(E),
         E \cap EditsOf(c) # {} => E = submitted[c]
  PROVE  OwnEditsInOnePlace(c)'
<1>1. /\ head \in Nat /\ head' = head + 1
      /\ \A r \in 1..head' : r \in 1..head \/ r = head'
      /\ \A r \in 1..head' : StoredEdits(r)' = IF r = head' THEN E ELSE StoredEdits(r)
  BY StoredThen
<1>2. rev[c] \in Nat
  BY DEF TypeInv, TypeOK, ClientTypeOK
<1>3. \A r \in 1..rev[c] : r \in 1..head' /\ r # head' /\ StoredEdits(r)' = StoredEdits(r)
  BY <1>1, <1>2
<1>4. UNCHANGED <<submitted, user, typed, rev, committing>>
  BY DEF clientVars
<1>5. ASSUME NEW r \in rev[c] + 1..head', IsOwnRevision(c, r)'
      PROVE  StoredEdits(r)' = submitted[c]
  <2>1. r \in 1..head' /\ StoredEdits(r)' \cap EditsOf(c) # {}
    BY <1>1, <1>2, <1>5 DEF IsOwnRevision
  <2>2. CASE r = head'
    BY <1>1, <2>1, <2>2
  <2>3. CASE r # head'
    <3>1. r \in rev[c] + 1..head /\ IsOwnRevision(c, r)
      BY <1>1, <1>2, <2>1, <2>3 DEF IsOwnRevision
    <3> QED
      BY <1>1, <2>1, <2>3, <3>1 DEF OwnEditsInOnePlace
  <2> QED
    BY <2>2, <2>3
<1> QED
  BY <1>3, <1>4, <1>5 DEF OwnEditsInOnePlace

LEMMA OwnEditsTyped ==
  ASSUME TypeInv, NEW c \in Clients, OwnEditsInOnePlace(c), Type(c), UNCHANGED revisions
  PROVE  OwnEditsInOnePlace(c)'
<1> DEFINE e == <<c, typed[c] + 1>>
<1>1. /\ typed[c] \in Nat /\ typed[c] < MaxEdits /\ MaxEdits \in Nat
      /\ typed'[c] = typed[c] + 1 /\ user'[c] = user[c] \cup {e}
      /\ UNCHANGED <<submitted, rev, committing>>
  BY BoundsAssumption DEF TypeInv, TypeOK, ClientTypeOK, Type
<1>2. /\ head' = head
      /\ \A r : StoredEdits(r)' = StoredEdits(r)
      /\ \A r : IsOwnRevision(c, r)' = IsOwnRevision(c, r)
  BY DEF head, StoredEdits, IsOwnRevision
<1>3. typed[c] + 1 \in 1..MaxEdits /\ e \in EditsOf(c)
  BY <1>1 DEF EditsOf
<1>4. e \notin submitted[c] \cup user[c] /\ \A r \in 1..rev[c] : e \notin StoredEdits(r)
  BY <1>1, <1>3 DEF OwnEditsInOnePlace
<1>5. ASSUME NEW n \in 1..MaxEdits
      PROVE  n <= typed'[c] <=> \/ <<c, n>> \in submitted[c] \cup user'[c]
                                \/ \E r \in 1..rev[c] : <<c, n>> \in StoredEdits(r)
  <2>1. n <= typed[c] <=> \/ <<c, n>> \in submitted[c] \cup user[c]
                          \/ \E r \in 1..rev[c] : <<c, n>> \in StoredEdits(r)
    BY DEF OwnEditsInOnePlace
  <2>2. n <= typed'[c] <=> n <= typed[c] \/ n = typed[c] + 1
    BY <1>1
  <2>3. n = typed[c] + 1 <=> <<c, n>> = e
    OBVIOUS
  <2> QED
    BY <1>1, <2>1, <2>2, <2>3
<1> QED
  BY <1>1, <1>2, <1>3, <1>4, <1>5 DEF OwnEditsInOnePlace

LEMMA OwnEditsSubmitted ==
  ASSUME TypeInv, NEW c \in Clients, OwnEditsInOnePlace(c), EditsStoredOnce,
         handleUserChanges(c), UNCHANGED revisions
  PROVE  /\ submitted[c] = {} /\ user[c] # {}
         /\ \A r \in 1..head : StoredEdits(r) \cap user[c] = {}
         /\ OwnEditsInOnePlace(c)'
<1>1. ~committing[c] /\ submitted[c] = {} /\ user[c] # {}
  BY DEF handleUserChanges, MaySend, OwnEditsInOnePlace, prepareUserChangeset, IsIdentity
<1>2. /\ submitted'[c] = user[c] /\ user'[c] = {} /\ committing'[c] = TRUE
      /\ UNCHANGED <<rev, typed>>
  BY <1>1 DEF handleUserChanges, TypeInv, TypeOK, ClientTypeOK
<1>3. /\ head' = head /\ head \in Nat /\ rev[c] \in Nat
      /\ \A r : StoredEdits(r)' = StoredEdits(r)
      /\ \A r : IsOwnRevision(c, r)' = IsOwnRevision(c, r)
  BY HeadType DEF head, StoredEdits, IsOwnRevision, TypeInv, TypeOK, ClientTypeOK
<1>4. \A r \in rev[c] + 1..head : ~IsOwnRevision(c, r)
  <2>1. \A r \in rev[c] + 1..head : r \in 1..head
    BY <1>3
  <2> QED
    BY <1>1, <2>1 DEF OwnEditsInOnePlace, EditsStoredOnce
<1>5. \A r \in 1..head : StoredEdits(r) \cap user[c] = {}
  <2>1. ASSUME NEW r \in 1..head, r \in rev[c] + 1..head
        PROVE  StoredEdits(r) \cap user[c] = {}
    BY <1>4, <2>1 DEF IsOwnRevision, OwnEditsInOnePlace
  <2>2. \A r \in 1..head : r \in 1..rev[c] \/ r \in rev[c] + 1..head
    BY <1>3
  <2> QED
    BY <2>1, <2>2 DEF OwnEditsInOnePlace
<1>6. OwnEditsInOnePlace(c)'
  <2>1. /\ submitted'[c] \cup user'[c] = submitted[c] \cup user[c]
        /\ submitted'[c] \cap user'[c] = {}
    BY <1>1, <1>2
  <2> QED
    BY <1>2, <1>3, <1>4, <2>1 DEF OwnEditsInOnePlace
<1> QED
  BY <1>1, <1>5, <1>6

LEMMA OwnEditsSeen ==
  ASSUME TypeInv, NEW c \in Clients, OwnEditsInOnePlace(c), EditsStoredOnce,
         SeesNext(c), UNCHANGED revisions
  PROVE  OwnEditsInOnePlace(c)'
<1> DEFINE k == rev[c] + 1
<1>1. /\ rev[c] \in Nat /\ head \in Nat /\ k \in 1..head /\ k \in rev[c] + 1..head
      /\ rev'[c] = k /\ UNCHANGED <<user, typed>>
      /\ \A r \in 1..k : r \in 1..rev[c] \/ r = k
      /\ \A r \in 1..rev[c] : r \in 1..k
      /\ \A r \in k + 1..head : r \in rev[c] + 1..head /\ r # k /\ r \in 1..head
  BY HeadType DEF SeesNext, TypeInv, TypeOK, ClientTypeOK
<1>2. /\ head' = head
      /\ \A r : StoredEdits(r)' = StoredEdits(r)
      /\ \A r : IsOwnRevision(c, r)' = IsOwnRevision(c, r)
  BY DEF head, StoredEdits, IsOwnRevision
<1> HIDE DEF k
<1>3. CASE IsOwnRevision(c, k)
  <2>1. submitted'[c] = {} /\ committing'[c] = FALSE /\ StoredEdits(k) = submitted[c]
        /\ StoredEdits(k) # {}
    BY <1>1, <1>3 DEF SeesNext, TypeInv, TypeOK, ClientTypeOK, OwnEditsInOnePlace,
                      EditsStoredOnce, k
  <2>2. \A r \in k + 1..head : ~IsOwnRevision(c, r)
    BY <1>1, <2>1 DEF OwnEditsInOnePlace, EditsStoredOnce
  <2>3. \A r \in 1..k : StoredEdits(r) \cap user[c] = {}
    BY <1>1, <2>1 DEF OwnEditsInOnePlace
  <2>4. ASSUME NEW n \in 1..MaxEdits
        PROVE  n <= typed[c] <=> \/ <<c, n>> \in user[c]
                                 \/ \E r \in 1..k : <<c, n>> \in StoredEdits(r)
    <3>1. n <= typed[c] <=> \/ <<c, n>> \in submitted[c] \cup user[c]
                            \/ \E r \in 1..rev[c] : <<c, n>> \in StoredEdits(r)
      BY DEF OwnEditsInOnePlace
    <3>2. (\E r \in 1..k : <<c, n>> \in StoredEdits(r))
            <=> \/ <<c, n>> \in submitted[c]
                \/ \E r \in 1..rev[c] : <<c, n>> \in StoredEdits(r)
      <4>1. k \in 1..k
        BY <1>1
      <4> QED
        BY <1>1, <2>1, <4>1
    <3> QED
      BY <3>1, <3>2
  <2> QED
    BY <1>1, <1>2, <2>1, <2>2, <2>3, <2>4 DEF OwnEditsInOnePlace
<1>4. CASE ~IsOwnRevision(c, k)
  <2>1. UNCHANGED <<submitted, committing>>
    BY <1>4 DEF SeesNext, k
  <2>2. StoredEdits(k) \cap EditsOf(c) = {}
    BY <1>4 DEF IsOwnRevision
  <2>3. \A r \in 1..k : StoredEdits(r) \cap (submitted[c] \cup user[c]) = {}
    BY <1>1, <2>2 DEF OwnEditsInOnePlace
  <2>4. ASSUME NEW n \in 1..MaxEdits
        PROVE  (\E r \in 1..k : <<c, n>> \in StoredEdits(r))
                 <=> \E r \in 1..rev[c] : <<c, n>> \in StoredEdits(r)
    <3>1. <<c, n>> \notin StoredEdits(k)
      BY <2>2 DEF EditsOf
    <3> QED
      BY <1>1, <3>1
  <2> QED
    BY <1>1, <1>2, <2>1, <2>3, <2>4 DEF OwnEditsInOnePlace
<1> QED
  BY <1>3, <1>4

-----------------------------------------------------------------------------
(* Messages stay in order. *)

LEMMA DeliveryUnmoved ==
  ASSUME NEW c \in Clients, DeliveredInOrder(c), UNCHANGED revisions, rev'[c] = rev[c],
         sessionRev'[<<c, 1>>] = sessionRev[<<c, 1>>], down'[<<c, 1>>] = down[<<c, 1>>],
         \/ UNCHANGED task
         \/ task.pc \notin {"appended", "corrected"} \/ task.sock # <<c, 1>>
  PROVE  DeliveredInOrder(c)'
<1>1. /\ head' = head /\ \A r : IsOwnRevision(c, r)' = IsOwnRevision(c, r)
      /\ \A r : delivered(c, r)' = delivered(c, r)
  BY DEF head, StoredEdits, IsOwnRevision, delivered, newChanges, acceptedAt
<1> QED
  BY <1>1 DEF DeliveredInOrder

LEMMA DeliveryStored ==
  ASSUME TypeInv, NEW c \in Clients, DeliveredInOrder(c), sessionRev[<<c, 1>>] <= head,
         UNCHANGED <<sessionRev, down, rev>>, <<c, 1>> \in Sockets,
         NEW E, Stores(E),
         \A r \in sessionRev[<<c, 1>>] + 1..head : IsOwnRevision(c, r) =>
            task'.pc = "corrected" /\ task'.sock = task.sock /\ task'.newRev = task.newRev,
         E \cap EditsOf(c) # {} =>
            task'.pc = "appended" /\ task'.sock = <<c, 1>> /\ task'.newRev = head'
  PROVE  DeliveredInOrder(c)'
<1> DEFINE s == <<c, 1>>
<1>1. /\ head \in Nat /\ head' = head + 1
      /\ \A r \in 1..head' : r \in 1..head \/ r = head'
      /\ \A r \in 1..head' : StoredEdits(r)' = IF r = head' THEN E ELSE StoredEdits(r)
  BY StoredThen
<1>2. /\ rev[c] \in Nat /\ sessionRev[s] \in Nat /\ Len(down[s]) \in Nat
      /\ sessionRev[s] = rev[c] + Len(down[s]) /\ sessionRev[s] <= head
  BY DEF TypeInv, TypeOK, ClientTypeOK, ServerTypeOK, NetTypeOK, DeliveredInOrder
<1>3. \A i \in 1..Len(down[s]) : rev[c] + i \in 1..head
  BY <1>1, <1>2
<1>4. \A r \in 1..head : /\ IsOwnRevision(c, r)' = IsOwnRevision(c, r)
                         /\ delivered(c, r)' = delivered(c, r)
  <2>1. \A r \in 1..head : /\ newChanges(r)' = newChanges(r)
                           /\ IsOwnRevision(c, r)' = IsOwnRevision(c, r)
    BY StoredKept DEF Stores
  <2> QED
    BY <2>1 DEF delivered, acceptedAt
<1>5. \A i \in 1..Len(down[s]) : down[s][i] = delivered(c, rev[c] + i)'
  BY <1>3, <1>4 DEF DeliveredInOrder
<1>6. ASSUME NEW r \in sessionRev[s] + 1..head', IsOwnRevision(c, r)'
      PROVE  task'.pc \in {"appended", "corrected"} /\ task'.sock = s /\ task'.newRev = r
  <2>1. r \in 1..head'
    BY <1>1, <1>2
  <2>2. CASE r = head'
    BY <1>1, <1>6, <2>1, <2>2 DEF IsOwnRevision
  <2>3. CASE r # head'
    <3>1. r \in 1..head /\ r \in sessionRev[s] + 1..head
      BY <1>1, <2>1, <2>3
    <3>2. IsOwnRevision(c, r)
      BY <1>4, <1>6, <3>1
    <3> QED
      BY <3>1, <3>2 DEF DeliveredInOrder
  <2> QED
    BY <2>2, <2>3
<1> QED
  BY <1>2, <1>5, <1>6 DEF DeliveredInOrder

(* One more revision is sent, while none after it is the user's own. *)
LEMMA DeliveryAdded ==
  ASSUME TypeInv, NEW c \in Clients, DeliveredInOrder(c), <<c, 1>> \in Sockets,
         NEW k \in Nat, k = sessionRev[<<c, 1>>] + 1,
         sessionRev' = [sessionRev EXCEPT ![<<c, 1>>] = k],
         down' = [down EXCEPT ![<<c, 1>>] = Append(@, delivered(c, k))],
         UNCHANGED <<revisions, rev>>,
         \A r \in k + 1..head : ~IsOwnRevision(c, r)
  PROVE  DeliveredInOrder(c)'
<1> DEFINE s == <<c, 1>>
<1>1. /\ head' = head /\ head \in Nat /\ \A r : IsOwnRevision(c, r)' = IsOwnRevision(c, r)
      /\ \A r : delivered(c, r)' = delivered(c, r)
  BY HeadType DEF head, StoredEdits, IsOwnRevision, delivered, newChanges, acceptedAt,
                  TypeInv, TypeOK
<1>2. /\ down[s] \in Seq(DownMessages) /\ rev[c] \in Nat /\ sessionRev[s] \in Nat
      /\ sessionRev'[s] = k /\ down'[s] = Append(down[s], delivered(c, k))
  BY DEF TypeInv, TypeOK, ClientTypeOK, ServerTypeOK, NetTypeOK
<1> DEFINE n == Len(down[s])
           m == delivered(c, k)
<1>3. sessionRev[s] = rev[c] + n /\ \A i \in 1..n : down[s][i] = delivered(c, rev[c] + i)
  BY DEF DeliveredInOrder
<1> HIDE DEF m
<1>4. /\ n \in Nat /\ Len(down'[s]) = n + 1 /\ down'[s][n + 1] = m
      /\ \A i \in 1..n : down'[s][i] = down[s][i]
      /\ \A i \in 1..Len(down'[s]) : i \in 1..n \/ i = n + 1
  BY <1>2, AppendParts DEF m
<1>5. rev[c] + (n + 1) = k
  <2> HIDE DEF n
  <2> QED
    BY <1>2, <1>3, <1>4
<1>6. \A i \in 1..Len(down'[s]) : down'[s][i] = delivered(c, rev[c] + i)
  BY <1>3, <1>4, <1>5 DEF m
<1>7. sessionRev'[s] = rev[c] + Len(down'[s])
  <2> HIDE DEF s, n
  <2> QED
    BY <1>2, <1>4, <1>5
<1> QED
  BY <1>1, <1>2, <1>6, <1>7 DEF DeliveredInOrder

LEMMA DeliverySeen ==
  ASSUME TypeInv, NEW c \in Clients, DeliveredInOrder(c), <<c, 1>> \in Sockets,
         SeesNext(c), UNCHANGED serverVars
  PROVE  DeliveredInOrder(c)'
<1> DEFINE s == <<c, 1>>
<1>1. /\ head' = head /\ \A r : IsOwnRevision(c, r)' = IsOwnRevision(c, r)
      /\ \A r : delivered(c, r)' = delivered(c, r)
      /\ UNCHANGED <<sessionRev, task>>
  BY DEF head, StoredEdits, IsOwnRevision, delivered, newChanges, acceptedAt, serverVars
<1>2. /\ down[s] \in Seq(DownMessages) /\ rev[c] \in Nat /\ down[s] # <<>>
      /\ rev'[c] = rev[c] + 1 /\ down'[s] = Tail(down[s])
  BY DEF TypeInv, TypeOK, ClientTypeOK, NetTypeOK, SeesNext
<1>3. /\ Len(down[s]) \in Nat /\ Len(down'[s]) = Len(down[s]) - 1
      /\ \A i \in 1..Len(down'[s]) : /\ i + 1 \in 1..Len(down[s])
                                     /\ down'[s][i] = down[s][i + 1]
  BY <1>2, TailParts
<1>4. ASSUME NEW i \in 1..Len(down'[s])
      PROVE  down'[s][i] = delivered(c, rev'[c] + i)
  <2>1. i + 1 \in 1..Len(down[s]) /\ rev[c] + (i + 1) = rev'[c] + i
    <3>1. i \in Nat /\ rev[c] \in Nat /\ rev'[c] = rev[c] + 1
      BY <1>2
    <3>2. \A a, j \in Nat : a + (j + 1) = (a + 1) + j
      OBVIOUS
    <3>3. rev[c] + (i + 1) = rev'[c] + i
      BY <3>1, <3>2
    <3> QED
      BY <1>3, <3>3
  <2>2. down[s][i + 1] = delivered(c, rev[c] + (i + 1))
    BY <2>1 DEF DeliveredInOrder
  <2> QED
    BY <1>3, <2>1, <2>2
<1>5. sessionRev'[s] = rev'[c] + Len(down'[s])
  BY <1>1, <1>2, <1>3 DEF DeliveredInOrder
<1> QED
  BY <1>1, <1>4, <1>5 DEF DeliveredInOrder

-----------------------------------------------------------------------------
(* Submissions. *)

LEMMA SubmissionTypes ==
  ASSUME TypeInv, NobodyArrives
  PROVE  /\ \A s \in Sockets : \A i \in 1..Len(up[s]) :
               up[s][i].baseRev \in Nat /\ up[s][i].changeset \in Changesets
         /\ \A n \in 1..Len(padChannel) :
               padChannel[n] \in [sock: Sockets, baseRev: Nat, changeset: Changesets]
         /\ task.pc = "rebase" =>
               task.sock \in Sockets /\ task.r \in Nat /\ task.changeset \in Changesets
         /\ task.pc \in {"appended", "corrected", "accepted", "flushing"} =>
               task.sock \in Sockets /\ task.r \in Nat /\ task.newRev \in Nat
<1>1. ASSUME NEW s \in Sockets, NEW i \in 1..Len(up[s])
      PROVE  up[s][i].baseRev \in Nat /\ up[s][i].changeset \in Changesets
  <2>1. up[s][i] \in UpMessages /\ up[s][i].type = "USER_CHANGES"
    BY <1>1 DEF TypeInv, TypeOK, NetTypeOK, NobodyArrives
  <2> QED
    BY <2>1 DEF UpMessages
<1>2. \A n \in 1..Len(padChannel) :
         padChannel[n] \in [sock: Sockets, baseRev: Nat, changeset: Changesets]
  <2>1. padChannel \in Seq([sock: Sockets, baseRev: Nat, changeset: Changesets])
    BY DEF TypeInv, TypeOK, ServerTypeOK
  <2> QED
    BY <2>1, SeqElement
<1>3. task.pc = "rebase" =>
        task.sock \in Sockets /\ task.r \in Nat /\ task.changeset \in Changesets
  BY RebaseTaskType DEF TypeInv, TypeOK
<1>4. task.pc \in {"appended", "corrected", "accepted", "flushing"} =>
        task.sock \in Sockets /\ task.r \in Nat /\ task.newRev \in Nat
  BY LateTaskType DEF TypeInv, TypeOK, LateTasks
<1> QED
  BY <1>1, <1>2, <1>3, <1>4

(* A submission stays one while its edits are not stored and stay where     *)
(* they are.                                                                *)
LEMMA SubmissionKept ==
  ASSUME NEW s, NEW cs, NEW r \in Nat, Submission(s, cs, r), Kept,
         submitted'[ClientOf(s)] = submitted[ClientOf(s)],
         \A q \in head + 1..head' : StoredEdits(q)' \cap cs.edits = {}
  PROVE  Submission(s, cs, r)'
<1>1. \A q \in 1..head' : q \in 1..head \/ q \in head + 1..head'
  BY DEF Kept
<1>2. \A q \in 1..head' : StoredEdits(q)' \cap cs.edits = {}
  BY <1>1, StoredKept DEF Submission
<1>3. r <= head /\ r <= head' /\ LengthAt(revisions', r) = LengthAt(revisions, r)
  <2>1. r \in 0..head /\ r <= head'
    BY DEF Submission, Kept
  <2>2. TextAt(revisions', r).len = TextAt(revisions, r).len
    BY <2>1, TextKept
  <2> QED
    BY <2>1, <2>2 DEF TextAt
<1> QED
  BY <1>2, <1>3 DEF Submission

(* Nothing of a browser is on its way if nothing is submitted, or what is   *)
(* submitted is stored already.                                             *)
NothingOnItsWay(s) ==
    /\ up[s] = <<>> /\ ~Rebasing(s)
    /\ \A n \in 1..Len(padChannel) : padChannel[n].sock # s

LEMMA NoSubmission ==
  ASSUME TypeInv, OneSubmissionEach, NEW s \in Sockets,
         \/ submitted[ClientOf(s)] = {}
         \/ \E q \in 1..head : StoredEdits(q) = submitted[ClientOf(s)]
  PROVE  NothingOnItsWay(s)
<1>1. \A cs, r : ~Submission(s, cs, r)
  BY DEF Submission
<1>2. \A i \in 1..Len(up[s]) : FALSE
  BY <1>1 DEF OneSubmissionEach, SubmissionSent
<1>3. up[s] = <<>>
  <2>1. up[s] \in Seq(UpMessages) /\ 1 \notin 1..Len(up[s])
    BY <1>2 DEF TypeInv, TypeOK, NetTypeOK
  <2> QED
    BY <2>1
<1>4. \A n \in 1..Len(padChannel) : padChannel[n].sock # s
  BY <1>1 DEF OneSubmissionEach, SubmissionQueued
<1>5. ~Rebasing(s)
  BY <1>1 DEF OneSubmissionEach, SubmissionRebased, Rebasing
<1> QED
  BY <1>3, <1>4, <1>5 DEF NothingOnItsWay

LEMMA SubmissionsUnmoved ==
  ASSUME OneSubmissionEach, UNCHANGED <<revisions, up, padChannel, submitted>>,
         task' = task \/ task'.pc \in {"idle", "accepted", "flushing"}
  PROVE  OneSubmissionEach'
<1>1. \A s, cs, r : Submission(s, cs, r)' <=> Submission(s, cs, r)
  BY DEF Submission, StoredEdits, head
<1>2. \A s : Rebasing(s)' => Rebasing(s)
  BY DEF Rebasing
<1>3. task'.pc \in {"rebase", "appended", "corrected"} => task' = task
  OBVIOUS
<1>4. \A s \in Sockets : \A i \in 1..Len(up[s]) : SubmissionSent(s, i)'
  BY <1>1, <1>2 DEF OneSubmissionEach, SubmissionSent
<1>5. \A n \in 1..Len(padChannel) : SubmissionQueued(n)'
  BY <1>1, <1>2 DEF OneSubmissionEach, SubmissionQueued
<1>6. SubmissionRebased'
  BY <1>1, <1>3 DEF OneSubmissionEach, SubmissionRebased
<1>7. SubmissionAppended'
  BY <1>3 DEF OneSubmissionEach, SubmissionAppended, StoredEdits
<1> QED
  BY <1>4, <1>5, <1>6, <1>7 DEF OneSubmissionEach

(* handleUserChanges: the browser had nothing on its way. *)
LEMMA SubmissionsSubmitted ==
  ASSUME Steady, TypeInv, LosslessInv, NEW c \in Clients, handleUserChanges(c),
         UNCHANGED serverVars
  PROVE  OneSubmissionEach'
<1> DEFINE t == <<c, 1>>
<1>1. /\ t \in Sockets /\ SocketOf(c) = t /\ ClientOf(t) = c
      /\ \A s \in Sockets : ClientOf(s) \in Clients /\ (ClientOf(s) = c => s = t)
      /\ OwnEditsInOnePlace(c) /\ EditsStoredOnce /\ OneSubmissionEach
  BY SteadySockets DEF SocketIs, LosslessInv, SteadyInv
<1>2. /\ submitted[c] = {} /\ user[c] # {}
      /\ \A r \in 1..head : StoredEdits(r) \cap user[c] = {}
  BY <1>1, OwnEditsSubmitted DEF serverVars
<1>3. NothingOnItsWay(t)
  BY <1>1, <1>2, NoSubmission
<1>4. /\ UNCHANGED <<revisions, padChannel, task>> /\ head' = head
      /\ \A r : StoredEdits(r)' = StoredEdits(r) /\ LengthAt(revisions', r) = LengthAt(revisions, r)
      /\ \A s : Rebasing(s)' = Rebasing(s)
  BY DEF serverVars, head, StoredEdits, Rebasing
<1>5. /\ submitted'[c] = user[c] /\ \A d \in Clients : d # c => submitted'[d] = submitted[d]
  BY <1>2 DEF handleUserChanges, TypeInv, TypeOK, ClientTypeOK
<1>6. \A s \in Sockets : \A cs, r : s # t => (Submission(s, cs, r)' <=> Submission(s, cs, r))
  BY <1>1, <1>4, <1>5 DEF Submission
<1>7. \A cs, r : cs = prepareUserChangeset(c) /\ r = rev[c] => Submission(t, cs, r)'
  <2>1. rev[c] <= head /\ base[c] = TextAt(revisions, rev[c])
    BY DEF BaseMatchesRevision, EveryoneConnected, LosslessInv
  <2>2. prepareUserChangeset(c) = [edits |-> user[c], oldLen |-> LengthAt(revisions, rev[c])]
    BY <1>2, <2>1 DEF prepareUserChangeset, TextAt
  <2> QED
    BY <1>1, <1>2, <1>4, <1>5, <2>1, <2>2 DEF Submission
<1>8. /\ Len(up'[t]) = 1 /\ up'[t][1].changeset = prepareUserChangeset(c)
      /\ up'[t][1].baseRev = rev[c]
      /\ \A s \in Sockets : s # t => up'[s] = up[s]
  <2> DEFINE msg == [type |-> "USER_CHANGES", baseRev |-> rev[c],
                     changeset |-> prepareUserChangeset(c)]
  <2>1. up' = [up EXCEPT ![t] = Append(@, msg)] /\ up[t] = <<>>
    BY <1>1, <1>3 DEF handleUserChanges, Send, NothingOnItsWay
  <2>2. msg.changeset = prepareUserChangeset(c) /\ msg.baseRev = rev[c]
    OBVIOUS
  <2> HIDE DEF msg
  <2>3. Append(<<>>, msg) = <<msg>> /\ Len(<<msg>>) = 1 /\ <<msg>>[1] = msg
    OBVIOUS
  <2> QED
    BY <1>1, <2>1, <2>2, <2>3 DEF TypeInv, TypeOK, NetTypeOK
<1>9. ASSUME NEW s \in Sockets, NEW i \in 1..Len(up'[s])
      PROVE  SubmissionSent(s, i)'
  <2>1. CASE s # t
    <3>1. i \in 1..Len(up[s]) /\ SubmissionSent(s, i)
      BY <1>1, <1>8, <1>9, <2>1 DEF OneSubmissionEach
    <3> QED
      BY <1>4, <1>6, <1>8, <2>1, <3>1 DEF SubmissionSent
  <2>2. CASE s = t
    <3>1. i = 1
      <4>1. Len(up'[s]) = 1
        BY <1>8, <2>2
      <4> QED
        BY <1>9, <4>1
    <3> QED
      BY <1>3, <1>4, <1>7, <1>8, <2>2, <3>1 DEF SubmissionSent, NothingOnItsWay
  <2> QED
    BY <2>1, <2>2
<1>10. ASSUME NEW n \in 1..Len(padChannel)
       PROVE  SubmissionQueued(n)'
  <2>1. SubmissionQueued(n) /\ padChannel[n].sock # t /\ padChannel[n].sock \in Sockets
    BY <1>1, <1>3, SubmissionTypes DEF OneSubmissionEach, NothingOnItsWay, LosslessInv,
                                       SteadyInv
  <2> QED
    BY <1>4, <1>6, <2>1 DEF SubmissionQueued
<1>11. SubmissionRebased'
  <2>1. task.pc = "rebase" => task.sock # t /\ task.sock \in Sockets
    BY <1>3, SubmissionTypes DEF NothingOnItsWay, Rebasing, LosslessInv, SteadyInv
  <2> QED
    BY <1>1, <1>4, <1>6, <2>1 DEF OneSubmissionEach, SubmissionRebased
<1>12. SubmissionAppended'
  <2>1. ASSUME task.pc \in {"appended", "corrected"}
        PROVE  ClientOf(task.sock) # c /\ ClientOf(task.sock) \in Clients
    <3>1. /\ task.sock \in Sockets /\ task.r \in Nat /\ task.newRev \in Nat
          /\ task.newRev <= head /\ head \in Nat /\ task.newRev = task.r + 1
          /\ StoredEdits(task.newRev) = submitted[ClientOf(task.sock)]
      BY <1>1, <2>1, SubmissionTypes, HeadType
         DEF LosslessInv, SteadyInv, SessionsAtHead, OneSubmissionEach, SubmissionAppended,
             TypeInv, TypeOK
    <3>2. task.newRev \in 1..head
      BY <3>1
    <3> QED
      BY <1>1, <1>2, <3>1, <3>2 DEF EditsStoredOnce
  <2> QED
    BY <1>1, <1>4, <1>5, <2>1 DEF OneSubmissionEach, SubmissionAppended, StoredEdits
<1> QED
  BY <1>4, <1>9, <1>10, <1>11, <1>12 DEF OneSubmissionEach

LEMMA SubmissionsSeen ==
  ASSUME Steady, TypeInv, LosslessInv, NEW c \in Clients, SeesNext(c), UNCHANGED serverVars
  PROVE  OneSubmissionEach'
<1> DEFINE t == <<c, 1>>
           k == rev[c] + 1
<1>1. /\ t \in Sockets /\ ClientOf(t) = c
      /\ \A s \in Sockets : ClientOf(s) \in Clients /\ (ClientOf(s) = c => s = t)
      /\ OwnEditsInOnePlace(c) /\ EditsStoredOnce /\ OneSubmissionEach
  BY SteadySockets DEF SocketIs, LosslessInv, SteadyInv
<1>2. /\ UNCHANGED <<revisions, up, padChannel, task>>
      /\ \A r : StoredEdits(r)' = StoredEdits(r)
      /\ \A s : Rebasing(s)' = Rebasing(s)
  BY DEF serverVars, head, StoredEdits, Rebasing, SeesNext
<1>3. CASE ~IsOwnRevision(c, k)
  <2>1. UNCHANGED submitted
    BY <1>3 DEF SeesNext
  <2> QED
    BY <1>1, <1>2, <2>1, SubmissionsUnmoved
<1>4. CASE IsOwnRevision(c, k)
  <2>1. k \in 1..head /\ rev[c] \in Nat /\ head \in Nat /\ k \in rev[c] + 1..head
    BY HeadType DEF SeesNext, TypeInv, TypeOK, ClientTypeOK
  <2>2. StoredEdits(k) = submitted[c]
    BY <1>1, <1>4, <2>1 DEF OwnEditsInOnePlace
  <2>3. NothingOnItsWay(t)
    BY <1>1, <2>1, <2>2, NoSubmission
  <2>4. \A d \in Clients : d # c => submitted'[d] = submitted[d]
    BY <1>4 DEF SeesNext, TypeInv, TypeOK, ClientTypeOK
  <2>5. \A s \in Sockets : \A cs, r : s # t /\ Submission(s, cs, r) => Submission(s, cs, r)'
    BY <1>1, <1>2, <2>4 DEF Submission, head
  <2>6. ASSUME NEW s \in Sockets, NEW i \in 1..Len(up[s])
        PROVE  SubmissionSent(s, i)'
    <3>1. s # t
      <4>1. up[t] = <<>> => Len(up[t]) = 0
        OBVIOUS
      <4> QED
        BY <2>3, <2>6, <4>1 DEF NothingOnItsWay
    <3> QED
      BY <1>1, <1>2, <2>5, <3>1 DEF SubmissionSent, OneSubmissionEach
  <2>7. ASSUME NEW n \in 1..Len(padChannel)
        PROVE  SubmissionQueued(n)'
    <3>1. SubmissionQueued(n) /\ padChannel[n].sock # t /\ padChannel[n].sock \in Sockets
      BY <1>1, <2>3, SubmissionTypes DEF OneSubmissionEach, NothingOnItsWay, LosslessInv,
                                         SteadyInv
    <3> QED
      BY <1>2, <2>5, <3>1 DEF SubmissionQueued
  <2>8. SubmissionRebased'
    <3>1. task.pc = "rebase" => task.sock # t /\ task.sock \in Sockets
      BY <2>3, SubmissionTypes DEF NothingOnItsWay, Rebasing, LosslessInv, SteadyInv
    <3> QED
      BY <1>1, <1>2, <2>5, <3>1 DEF OneSubmissionEach, SubmissionRebased
  <2>9. SubmissionAppended'
    <3>1. ASSUME task.pc \in {"appended", "corrected"}
          PROVE  ClientOf(task.sock) # c /\ ClientOf(task.sock) \in Clients
      <4>1. /\ task.sock \in Sockets /\ task.r \in Nat /\ task.newRev \in Nat
            /\ task.newRev <= head /\ task.newRev = task.r + 1
            /\ sessionRev[task.sock] = task.r
            /\ StoredEdits(task.newRev) = submitted[ClientOf(task.sock)]
        BY <1>1, <3>1, SubmissionTypes
           DEF LosslessInv, SteadyInv, SessionsAtHead, OneSubmissionEach, SubmissionAppended
      <4>2. task.newRev \in 1..head
        BY <2>1, <4>1
      <4>3. sessionRev[t] >= k
        <5>1. /\ down[t] \in Seq(DownMessages) /\ down[t] # <<>>
              /\ sessionRev[t] = rev[c] + Len(down[t])
          BY <1>1 DEF TypeInv, TypeOK, NetTypeOK, SeesNext, LosslessInv, DeliveredInOrder
        <5>2. Len(down[t]) \in Nat /\ Len(down[t]) >= 1
          BY <5>1, TailParts
        <5> QED
          BY <2>1, <5>1, <5>2
      <4>4. ClientOf(task.sock) # c
        <5>1. ASSUME ClientOf(task.sock) = c
              PROVE  FALSE
          <6>1. task.sock = t /\ StoredEdits(task.newRev) = StoredEdits(k)
            BY <1>1, <2>2, <4>1, <5>1
          <6>2. task.newRev = k
            BY <1>1, <2>1, <4>2, <6>1 DEF EditsStoredOnce
          <6> QED
            BY <2>1, <4>1, <4>3, <6>1, <6>2
        <5> QED
          BY <5>1
      <4> QED
        BY <1>1, <4>1, <4>4
    <3> QED
      BY <1>1, <1>2, <2>4, <3>1 DEF OneSubmissionEach, SubmissionAppended
  <2> QED
    BY <1>2, <2>6, <2>7, <2>8, <2>9 DEF OneSubmissionEach
<1> QED
  BY <1>3, <1>4

(* The queue takes the message of a connection. *)
LEMMA SubmissionsEnqueued ==
  ASSUME Steady, TypeInv, LosslessInv, NEW t \in Sockets, Enqueues(t), UNCHANGED clientVars
  PROVE  OneSubmissionEach'
<1> DEFINE N == Len(padChannel)
<1>1. OneSubmissionEach /\ NobodyArrives
  BY DEF LosslessInv, SteadyInv
<1>2. /\ UNCHANGED <<revisions, submitted, task>> /\ head' = head
      /\ \A r : StoredEdits(r)' = StoredEdits(r)
      /\ \A s : Rebasing(s)' = Rebasing(s)
      /\ \A s, cs, r : Submission(s, cs, r)' <=> Submission(s, cs, r)
  BY DEF clientVars, head, StoredEdits, Rebasing, Enqueues, Submission
<1>3. /\ up[t] \in Seq(UpMessages) /\ up[t] # <<>> /\ up'[t] = Tail(up[t])
      /\ \A s \in Sockets : s # t => up'[s] = up[s]
  BY DEF Enqueues, TypeInv, TypeOK, NetTypeOK
<1>4. /\ 1 \in 1..Len(up[t]) /\ \A i \in 1..Len(up'[t]) : i + 1 \in 1..Len(up[t])
      /\ SubmissionSent(t, 1)
  BY <1>1, <1>3, TailParts DEF OneSubmissionEach
<1>5. \A i \in 1..Len(up'[t]) : FALSE
  <2>1. \A i \in 1..Len(up'[t]) : i + 1 = 1 /\ i \in Nat /\ i # 0
    BY <1>1, <1>4 DEF OneSubmissionEach, SubmissionSent
  <2> QED
    BY <2>1
<1> DEFINE q == [sock |-> t, baseRev |-> up[t][1].baseRev, changeset |-> up[t][1].changeset]
<1>6. q.sock = t /\ q.baseRev = up[t][1].baseRev /\ q.changeset = up[t][1].changeset
  OBVIOUS
<1>7. padChannel' = Append(padChannel, q)
  BY DEF Enqueues
<1> HIDE DEF q
<1>8. padChannel \in Seq([sock: Sockets, baseRev: Nat, changeset: Changesets])
  BY DEF TypeInv, TypeOK, ServerTypeOK
<1>9. /\ N \in Nat /\ Len(padChannel') = N + 1 /\ padChannel'[N + 1] = q
      /\ \A n \in 1..N : padChannel'[n] = padChannel[n]
      /\ \A n \in 1..Len(padChannel') : n \in 1..N \/ n = N + 1
  BY <1>7, <1>8, AppendParts
<1> HIDE DEF N
<1>10. \A n \in 1..N : padChannel[n].sock # t
  BY <1>4 DEF SubmissionSent, N
<1>11. ASSUME NEW s \in Sockets, NEW i \in 1..Len(up'[s])
       PROVE  SubmissionSent(s, i)'
  <2>1. s # t
    BY <1>5, <1>11
  <2>2. up'[s] = up[s] /\ SubmissionSent(s, i)
    BY <1>1, <1>3, <1>11, <2>1 DEF OneSubmissionEach
  <2>3. \A n \in 1..Len(padChannel') : padChannel'[n].sock # s
    BY <1>6, <1>9, <2>1, <2>2 DEF SubmissionSent, N
  <2> QED
    BY <1>2, <2>2, <2>3 DEF SubmissionSent
<1>12. ASSUME NEW n \in 1..Len(padChannel')
       PROVE  SubmissionQueued(n)'
  <2>1. CASE n \in 1..N
    <3>1. SubmissionQueued(n) /\ padChannel'[n] = padChannel[n] /\ padChannel[n].sock # t
      BY <1>1, <1>9, <1>10, <2>1 DEF OneSubmissionEach, N
    <3>2. \A m \in 1..Len(padChannel') : padChannel'[m].sock = padChannel[n].sock => m = n
      BY <1>6, <1>9, <3>1 DEF SubmissionQueued, N
    <3> QED
      BY <1>2, <3>1, <3>2 DEF SubmissionQueued
  <2>2. CASE n = N + 1
    <3>1. /\ padChannel'[n] = q /\ ~Rebasing(t)
          /\ Submission(t, q.changeset, q.baseRev)
      BY <1>4, <1>6, <1>9, <2>2 DEF SubmissionSent
    <3>2. \A m \in 1..Len(padChannel') : padChannel'[m].sock = t => m = n
      BY <1>9, <1>10, <2>2
    <3> QED
      BY <1>2, <1>6, <3>1, <3>2 DEF SubmissionQueued
  <2> QED
    BY <1>9, <2>1, <2>2
<1>13. SubmissionRebased' /\ SubmissionAppended'
  BY <1>1, <1>2 DEF OneSubmissionEach, SubmissionRebased, SubmissionAppended
<1> QED
  BY <1>11, <1>12, <1>13 DEF OneSubmissionEach

(* The task takes the first of the queue. *)
LEMMA SubmissionsStarted ==
  ASSUME Steady, TypeInv, LosslessInv, Starts, UNCHANGED clientVars
  PROVE  OneSubmissionEach'
<1> DEFINE q == padChannel[1]
<1>1. OneSubmissionEach /\ NobodyArrives
  BY DEF LosslessInv, SteadyInv
<1>2. /\ UNCHANGED <<revisions, submitted, up>> /\ head' = head
      /\ \A s, cs, r : Submission(s, cs, r)' <=> Submission(s, cs, r)
  BY DEF clientVars, head, StoredEdits, Starts, Submission, netVars
<1>3. /\ padChannel \in Seq([sock: Sockets, baseRev: Nat, changeset: Changesets])
      /\ padChannel # <<>> /\ padChannel' = Tail(padChannel)
  BY DEF Starts, TypeInv, TypeOK, ServerTypeOK
<1>4. /\ 1 \in 1..Len(padChannel) /\ Len(padChannel') = Len(padChannel) - 1
      /\ \A n \in 1..Len(padChannel') : n + 1 \in 1..Len(padChannel)
                                        /\ padChannel'[n] = padChannel[n + 1]
  BY <1>3, TailParts
<1>5. /\ SubmissionQueued(1) /\ task.pc = "idle"
      /\ task'.pc = "rebase" /\ task'.sock = q.sock /\ task'.r = q.baseRev
      /\ task'.canonicalCs = q.changeset /\ task'.changeset = q.changeset
  BY <1>1, <1>4 DEF OneSubmissionEach, Starts
<1>6. \A s : Rebasing(s)' <=> s = q.sock
  BY <1>5 DEF Rebasing
<1>7. ASSUME NEW s \in Sockets, NEW i \in 1..Len(up[s])
      PROVE  SubmissionSent(s, i)'
  <2>1. SubmissionSent(s, i)
    BY <1>1 DEF OneSubmissionEach
  <2>2. q.sock # s /\ \A n \in 1..Len(padChannel') : padChannel'[n].sock # s
    BY <1>4, <2>1 DEF SubmissionSent
  <2> QED
    BY <1>2, <1>6, <2>1, <2>2 DEF SubmissionSent
<1>8. ASSUME NEW n \in 1..Len(padChannel')
      PROVE  SubmissionQueued(n)'
  <2>1. /\ n + 1 \in 1..Len(padChannel) /\ n + 1 # 1 /\ n \in Nat
        /\ padChannel'[n] = padChannel[n + 1] /\ SubmissionQueued(n + 1)
    BY <1>1, <1>4 DEF OneSubmissionEach
  <2>2. padChannel'[n].sock # q.sock
    BY <1>4, <2>1 DEF SubmissionQueued
  <2>3. ASSUME NEW m \in 1..Len(padChannel'), padChannel'[m].sock = padChannel'[n].sock
        PROVE  m = n
    <3>1. m + 1 \in 1..Len(padChannel) /\ padChannel'[m] = padChannel[m + 1] /\ m \in Nat
      BY <1>4
    <3>2. m + 1 = n + 1
      BY <2>1, <2>3, <3>1 DEF SubmissionQueued
    <3> QED
      BY <2>1, <3>1, <3>2
  <2>4. Submission(padChannel[n + 1].sock, padChannel[n + 1].changeset, padChannel[n + 1].baseRev)
    BY <2>1 DEF SubmissionQueued
  <2> QED
    BY <1>2, <1>6, <2>1, <2>2, <2>3, <2>4 DEF SubmissionQueued
<1>9. SubmissionRebased' /\ SubmissionAppended'
  BY <1>2, <1>5 DEF SubmissionQueued, SubmissionRebased, SubmissionAppended
<1> QED
  BY <1>2, <1>7, <1>8, <1>9 DEF OneSubmissionEach

LEMMA SubmissionsRebased ==
  ASSUME Steady, TypeInv, LosslessInv, Rebases, UNCHANGED clientVars
  PROVE  OneSubmissionEach'
<1>1. OneSubmissionEach /\ NobodyArrives
  BY DEF LosslessInv, SteadyInv
<1>2. /\ UNCHANGED <<revisions, submitted, up, padChannel>> /\ head' = head
      /\ \A s, cs, r : Submission(s, cs, r)' <=> Submission(s, cs, r)
  BY DEF clientVars, head, StoredEdits, Rebases, Submission, netVars
<1>3. task \in [pc: {"rebase"}, sock: Sockets, r: Nat, canonicalCs: Changesets,
                changeset: Changesets]
  BY RebaseTaskType DEF TypeInv, TypeOK, Rebases
<1>4. /\ task.pc = "rebase" /\ task'.pc = "rebase" /\ task'.sock = task.sock
      /\ task'.r = task.r + 1 /\ task'.canonicalCs = task.canonicalCs
      /\ task'.changeset.edits = task.changeset.edits
      /\ task'.changeset.oldLen = LengthAt(revisions, task.r + 1)
      /\ task.r + 1 <= head
  BY <1>3, HeadType DEF Rebases, TypeInv, TypeOK
<1>5. \A s : Rebasing(s)' = Rebasing(s)
  BY <1>4 DEF Rebasing
<1>6. SubmissionRebased' /\ SubmissionAppended'
  <2>1. Submission(task.sock, task.changeset, task.r)
        /\ task.canonicalCs.edits = task.changeset.edits
    BY <1>1, <1>4 DEF OneSubmissionEach, SubmissionRebased
  <2>2. \A s, cs, r : /\ s = task'.sock /\ cs = task'.changeset /\ r = task'.r
                      => Submission(s, cs, r)
    BY <1>4, <2>1 DEF Submission
  <2> QED
    BY <1>2, <1>4, <2>1, <2>2 DEF SubmissionRebased, SubmissionAppended
<1>7. /\ \A s \in Sockets : \A i \in 1..Len(up[s]) : SubmissionSent(s, i)'
      /\ \A n \in 1..Len(padChannel) : SubmissionQueued(n)'
  BY <1>1, <1>2, <1>5 DEF OneSubmissionEach, SubmissionSent, SubmissionQueued
<1> QED
  BY <1>2, <1>6, <1>7 DEF OneSubmissionEach

(* A revision is stored: that of the task's sender, or a correction. *)
LEMMA SubmissionsStored ==
  ASSUME Steady, TypeInv, LosslessInv, UNCHANGED <<clientVars, up, padChannel>>,
         NEW E, Stores(E), task'.pc \in {"appended", "corrected"},
         \A d \in Clients : E \cap EditsOf(d) # {} => Rebasing(<<d, 1>>),
         SubmissionAppended'
  PROVE  OneSubmissionEach'
<1>1. /\ OneSubmissionEach /\ NobodyArrives /\ Kept
      /\ \A s \in Sockets : ClientOf(s) \in Clients /\ <<ClientOf(s), 1>> = s
      /\ \A c \in Clients : OwnEditsInOnePlace(c)
  BY SteadySockets DEF LosslessInv, SteadyInv, Stores, SocketIs
<1>2. UNCHANGED <<submitted, up, padChannel>>
  BY DEF clientVars
<1>3. \A q \in head + 1..head' : StoredEdits(q)' = E
  <2>1. head \in Nat /\ head' = head + 1
    BY StoredThen
  <2>2. \A q \in head + 1..head' : q \in 1..head' /\ q = head'
    BY <2>1
  <2> QED
    BY <2>2, StoredThen
<1>4. ASSUME NEW s \in Sockets, NEW cs, NEW r \in Nat, Submission(s, cs, r), ~Rebasing(s)
      PROVE  Submission(s, cs, r)'
  <2>1. cs.edits \subseteq EditsOf(ClientOf(s)) /\ E \cap EditsOf(ClientOf(s)) = {}
    BY <1>1, <1>4 DEF Submission, OwnEditsInOnePlace
  <2> QED
    BY <1>1, <1>2, <1>3, <1>4, <2>1, SubmissionKept
<1>5. \A s : ~Rebasing(s)'
  BY DEF Rebasing
<1>6. ASSUME NEW s \in Sockets, NEW i \in 1..Len(up[s])
      PROVE  SubmissionSent(s, i)'
  <2>1. SubmissionSent(s, i) /\ up[s][i].baseRev \in Nat
    BY <1>1, SubmissionTypes DEF OneSubmissionEach
  <2>2. \A cs, r : cs = up[s][i].changeset /\ r = up[s][i].baseRev => Submission(s, cs, r)'
    BY <1>4, <2>1 DEF SubmissionSent
  <2> QED
    BY <1>2, <1>5, <2>1, <2>2 DEF SubmissionSent
<1>7. ASSUME NEW n \in 1..Len(padChannel)
      PROVE  SubmissionQueued(n)'
  <2> DEFINE m == padChannel[n]
  <2>1. SubmissionQueued(n) /\ m.baseRev \in Nat /\ m.sock \in Sockets
    BY <1>1, SubmissionTypes DEF OneSubmissionEach
  <2>2. \A s, cs, r : s = m.sock /\ cs = m.changeset /\ r = m.baseRev => Submission(s, cs, r)'
    BY <1>4, <2>1 DEF SubmissionQueued
  <2> QED
    BY <1>2, <1>5, <2>1, <2>2 DEF SubmissionQueued
<1>8. SubmissionRebased'
  BY DEF SubmissionRebased
<1> QED
  BY <1>2, <1>6, <1>7, <1>8 DEF OneSubmissionEach

LEMMA SubmissionsAppended ==
  ASSUME Steady, TypeInv, LosslessInv, Appends, UNCHANGED clientVars
  PROVE  OneSubmissionEach'
<1> DEFINE c == ClientOf(task.sock)
<1>1. c \in Clients /\ Stores(submitted[c])
  BY AppendsStores
<1>2. task.pc = "rebase" /\ task.sock = <<c, 1>> /\ UNCHANGED <<up, padChannel, submitted>>
  BY SteadySockets, SubmissionTypes
     DEF Appends, LosslessInv, SteadyInv, SocketIs, netVars, clientVars
<1>3. ASSUME NEW d \in Clients, submitted[c] \cap EditsOf(d) # {}
      PROVE  d = c
  BY <1>1, <1>3, EditsApart DEF LosslessInv, OwnEditsInOnePlace
<1>4. SubmissionAppended'
  <2>1. /\ task'.pc = "appended" /\ task'.newRev = head + 1 /\ task'.r = head
        /\ task'.sock = task.sock
    BY DEF Appends
  <2>2. \A r : r = task'.newRev => StoredEdits(r)' = submitted[c]
    BY <1>1, <2>1 DEF Stores, StoredEdits
  <2> QED
    BY <1>2, <2>1, <2>2 DEF SubmissionAppended
<1>5. task'.pc = "appended" /\ UNCHANGED <<clientVars, up, padChannel>>
  BY <1>2 DEF Appends
<1>6. \A d \in Clients : submitted[c] \cap EditsOf(d) # {} => Rebasing(<<d, 1>>)
  BY <1>2, <1>3 DEF Rebasing
<1> QED
  BY <1>1, <1>4, <1>5, <1>6, SubmissionsStored

LEMMA SubmissionsCorrected ==
  ASSUME Steady, TypeInv, LosslessInv, Corrects, UNCHANGED clientVars
  PROVE  OneSubmissionEach'
<1> DEFINE E == {<<Fix, Cardinality(Corrections) + 1>>}
<1>1. Stores(E) /\ E \subseteq FixEdits
  BY CorrectsStores DEF FixEdits
<1> HIDE DEF E
<1>2. \A d \in Clients : E \cap EditsOf(d) = {}
  BY <1>1, EditsApart
<1>3. /\ task \in LateTasks /\ task.pc = "appended" /\ task'.pc = "corrected"
      /\ task'.newRev = task.newRev /\ task'.r = task.r /\ task'.sock = task.sock
      /\ UNCHANGED <<clientVars, up, padChannel, submitted>>
  <2>1. task \in LateTasks
    BY LateTaskType DEF Corrects, CorrectMarkers, TypeInv, TypeOK
  <2> QED
    BY <2>1 DEF Corrects, CorrectMarkers, netVars, clientVars, LateTasks
<1>4. SubmissionAppended'
  <2>1. /\ task.newRev \in 1..head /\ task.newRev = task.r + 1
        /\ StoredEdits(task.newRev) = submitted[ClientOf(task.sock)]
    <3>1. task.newRev <= head /\ task.newRev = task.r + 1 /\ task.r \in Nat /\ head \in Nat
      BY <1>3, SubmissionTypes, HeadType
         DEF LosslessInv, SteadyInv, SessionsAtHead, OneSubmissionEach, SubmissionAppended,
             TypeInv, TypeOK
    <3> QED
      BY <1>3, <3>1 DEF LosslessInv, OneSubmissionEach, SubmissionAppended
  <2>2. \A r : r = task.newRev => StoredEdits(r)' = StoredEdits(r)
    BY <1>1, <2>1, StoredKept DEF Stores
  <2> QED
    BY <1>3, <2>1, <2>2 DEF SubmissionAppended
<1> QED
  BY <1>1, <1>2, <1>3, <1>4, SubmissionsStored

-----------------------------------------------------------------------------
(* The steps together. *)

(* What a step says of the data: nothing is stored, or one revision is.     *)
LEMMA StoredStep ==
  ASSUME Steady, TypeInv, HistoryApplies, LosslessInv, Next
  PROVE  \/ UNCHANGED revisions
         \/ /\ UNCHANGED <<clientVars, sessionRev, down>>
            /\ \/ Appends /\ Stores(submitted[ClientOf(task.sock)])
               \/ /\ Corrects /\ Cardinality(Corrections) + 1 \in 1..MaxFix
                  /\ Stores({<<Fix, Cardinality(Corrections) + 1>>})
BY LosslessSteps, AppendsStores, CorrectsStores
   DEF Starts, Rebases, Appends, Corrects, Accepts, Flushes, Sends, Enqueues, serverVars,
       netVars

(* What is stored by whom. *)
LEMMA StoredBy ==
  ASSUME Steady, TypeInv, LosslessInv
  PROVE  /\ task.pc = "rebase" =>
              /\ ClientOf(task.sock) \in Clients /\ task.sock = <<ClientOf(task.sock), 1>>
              /\ submitted[ClientOf(task.sock)] \cap FixEdits = {}
              /\ \A c \in Clients : submitted[ClientOf(task.sock)] \cap EditsOf(c) # {}
                                    => ClientOf(task.sock) = c
         /\ \A k \in 1..MaxFix : \A c \in Clients : {<<Fix, k>>} \cap EditsOf(c) = {}
<1>1. ASSUME task.pc = "rebase"
      PROVE  /\ ClientOf(task.sock) \in Clients /\ task.sock = <<ClientOf(task.sock), 1>>
             /\ submitted[ClientOf(task.sock)] \cap FixEdits = {}
             /\ \A c \in Clients : submitted[ClientOf(task.sock)] \cap EditsOf(c) # {}
                                   => ClientOf(task.sock) = c
  <2>1. ClientOf(task.sock) \in Clients /\ task.sock = <<ClientOf(task.sock), 1>>
    BY <1>1, SubmissionTypes, SteadySockets DEF LosslessInv, SteadyInv, SocketIs
  <2>2. submitted[ClientOf(task.sock)] \subseteq EditsOf(ClientOf(task.sock))
    BY <2>1 DEF LosslessInv, OwnEditsInOnePlace
  <2> QED
    BY <2>1, <2>2, EditsApart
<1>2. ASSUME NEW k \in 1..MaxFix, NEW c \in Clients
      PROVE  {<<Fix, k>>} \cap EditsOf(c) = {}
  <2>1. <<Fix, k>> \in FixEdits
    BY DEF FixEdits
  <2> QED
    BY <2>1, EditsApart
<1> QED
  BY <1>1, <1>2

LEMMA EditsStoredStep ==
  ASSUME Steady, TypeInv, HistoryApplies, LosslessInv, Next
  PROVE  EditsStoredOnce'
<1>1. EditsStoredOnce
  BY DEF LosslessInv
<1>2. CASE UNCHANGED revisions
  BY <1>1, <1>2 DEF EditsStoredOnce, StoredEdits, head, Corrections
<1>3. CASE Appends /\ Stores(submitted[ClientOf(task.sock)])
  BY <1>1, <1>3, StoredBy, StoresOnce DEF Appends
<1>4. CASE /\ Corrects /\ Cardinality(Corrections) + 1 \in 1..MaxFix
           /\ Stores({<<Fix, Cardinality(Corrections) + 1>>})
  BY <1>1, <1>4, StoresOnce
<1> QED
  BY <1>2, <1>3, <1>4, StoredStep

LEMMA OwnEditsStep ==
  ASSUME Steady, TypeInv, HistoryApplies, LosslessInv, Next, NEW c \in Clients
  PROVE  OwnEditsInOnePlace(c)'
<1>1. OwnEditsInOnePlace(c) /\ EditsStoredOnce /\ rev[c] <= head
  BY DEF LosslessInv, BaseMatchesRevision, EveryoneConnected
<1>2. CASE UNCHANGED <<revisions, clientVars>>
  BY <1>1, <1>2, OwnEditsUnmoved DEF clientVars
<1>3. CASE Appends /\ Stores(submitted[ClientOf(task.sock)]) /\ UNCHANGED clientVars
  BY <1>1, <1>3, StoredBy, OwnEditsStored DEF Appends
<1>4. CASE /\ Corrects /\ Cardinality(Corrections) + 1 \in 1..MaxFix
           /\ Stores({<<Fix, Cardinality(Corrections) + 1>>}) /\ UNCHANGED clientVars
  BY <1>1, <1>4, StoredBy, OwnEditsStored
<1>5. ASSUME UNCHANGED serverVars, NEW d \in Clients,
             Type(d) \/ SlowCommit(d) \/ handleUserChanges(d) \/ SeesNext(d)
      PROVE  OwnEditsInOnePlace(c)'
  <2>1. UNCHANGED revisions
    BY <1>5 DEF serverVars
  <2>2. CASE d # c \/ SlowCommit(d)
    <3>1. /\ submitted'[c] = submitted[c] /\ user'[c] = user[c] /\ typed'[c] = typed[c]
          /\ rev'[c] = rev[c] /\ committing'[c] = committing[c]
      BY <1>5, <2>2 DEF Type, SlowCommit, handleUserChanges, SeesNext, TypeInv, TypeOK,
                        ClientTypeOK
    <3> QED
      BY <1>1, <2>1, <3>1, OwnEditsUnmoved
  <2>3. CASE d = c /\ ~SlowCommit(d)
    BY <1>1, <1>5, <2>1, <2>3, OwnEditsTyped, OwnEditsSubmitted, OwnEditsSeen
  <2> QED
    BY <2>2, <2>3
<1>6. UNCHANGED clientVars \/ UNCHANGED serverVars
  BY LosslessSteps
<1> QED
  BY <1>2, <1>3, <1>4, <1>5, <1>6, StoredStep, LosslessSteps DEF serverVars

LEMMA DeliveryStep ==
  ASSUME Steady, TypeInv, HistoryApplies, LosslessInv, Next, NEW c \in Clients
  PROVE  DeliveredInOrder(c)'
<1> DEFINE t == <<c, 1>>
<1>1. /\ t \in Sockets /\ DeliveredInOrder(c) /\ sessionRev[t] <= head /\ head \in Nat
      /\ \A s \in Sockets : s = <<ClientOf(s), 1>> /\ ClientOf(s) \in Clients
      /\ sessionRev[t] \in Nat /\ sessionRev \in [Sockets -> Nat]
      /\ down \in [Sockets -> Seq(DownMessages)]
  <2>1. t \in Sockets
        /\ \A s \in Sockets : s = <<ClientOf(s), 1>> /\ ClientOf(s) \in Clients
    BY SteadySockets DEF LosslessInv, SteadyInv, SocketIs
  <2> QED
    BY <2>1, HeadType DEF LosslessInv, SteadyInv, SessionsAtHead, EveryoneConnected, TypeInv,
                          TypeOK, ServerTypeOK, NetTypeOK
<1>2. \A r \in sessionRev[t] + 1..head : IsOwnRevision(c, r) =>
        task.pc \in {"appended", "corrected"} /\ task.sock = t /\ task.newRev = r
  BY <1>1 DEF DeliveredInOrder
<1>3. CASE UNCHANGED clientVars /\ (Starts \/ Rebases \/ Flushes \/ \E s \in Sockets : Enqueues(s))
  <2>1. UNCHANGED <<revisions, sessionRev, down, rev>>
    BY <1>3 DEF Starts, Rebases, Flushes, Enqueues, netVars, clientVars
  <2>2. UNCHANGED task \/ task.pc \notin {"appended", "corrected"}
    BY <1>3 DEF Starts, Rebases, Flushes, Enqueues
  <2> QED
    BY <1>1, <2>1, <2>2, DeliveryUnmoved
<1>4. CASE /\ UNCHANGED <<clientVars, sessionRev, down>>
           /\ Appends /\ Stores(submitted[ClientOf(task.sock)])
  <2> DEFINE E == submitted[ClientOf(task.sock)]
  <2>1. task.pc = "rebase" /\ UNCHANGED <<sessionRev, down, rev>> /\ head' = head + 1
    BY <1>4 DEF Appends, clientVars, Stores
  <2>2. /\ task'.pc = "appended" /\ task'.sock = task.sock /\ task'.newRev = head'
    BY <1>4, <2>1 DEF Appends
  <2>3. E \cap EditsOf(c) # {} => task.sock = t
    BY <2>1, StoredBy
  <2>4. \A r \in sessionRev[t] + 1..head : ~IsOwnRevision(c, r)
    BY <1>2, <2>1
  <2> QED
    BY <1>1, <1>4, <2>1, <2>2, <2>3, <2>4, DeliveryStored
<1>5. CASE /\ UNCHANGED <<clientVars, sessionRev, down>>
           /\ Corrects /\ Cardinality(Corrections) + 1 \in 1..MaxFix
           /\ Stores({<<Fix, Cardinality(Corrections) + 1>>})
  <2> DEFINE E == {<<Fix, Cardinality(Corrections) + 1>>}
  <2>1. task.pc = "appended" /\ UNCHANGED <<sessionRev, down, rev>>
    BY <1>5 DEF Corrects, CorrectMarkers, clientVars
  <2>2. task'.pc = "corrected" /\ task'.sock = task.sock /\ task'.newRev = task.newRev
    <3>1. task \in LateTasks
      BY <2>1, LateTaskType DEF TypeInv, TypeOK
    <3> QED
      BY <1>5, <3>1 DEF Corrects, CorrectMarkers, LateTasks
  <2>3. E \cap EditsOf(c) = {}
    BY <1>5, StoredBy
  <2> QED
    BY <1>1, <1>5, <2>1, <2>2, <2>3, DeliveryStored
<1>6. CASE UNCHANGED clientVars /\ Accepts
  <2>1. /\ task.pc \in {"appended", "corrected"} /\ task.sock \in Sockets
        /\ task.newRev = task.r + 1 /\ sessionRev[task.sock] = task.r
        /\ task.newRev \in Nat /\ task.newRev <= head /\ task.r \in Nat
        /\ StoredEdits(task.newRev) = submitted[ClientOf(task.sock)]
    BY <1>6, SubmissionTypes
       DEF Accepts, LosslessInv, SteadyInv, SessionsAtHead, OneSubmissionEach,
           SubmissionAppended
  <2>2. /\ UNCHANGED <<revisions, rev>>
        /\ down' = [down EXCEPT ![task.sock] = Append(@, acceptedAt(task.newRev))]
        /\ sessionRev' = [sessionRev EXCEPT ![task.sock] = task.newRev]
    BY <1>6 DEF Accepts, clientVars
  <2>3. CASE task.sock # t
    <3>1. sessionRev'[t] = sessionRev[t] /\ down'[t] = down[t] /\ rev'[c] = rev[c]
      BY <1>1, <2>2, <2>3
    <3> QED
      BY <1>1, <2>2, <2>3, <3>1, DeliveryUnmoved
  <2>4. CASE task.sock = t
    <3> DEFINE k == task.newRev
    <3>1. k \in 1..head /\ k = sessionRev[t] + 1
      BY <1>1, <2>1, <2>4
    <3>2. StoredEdits(k) = submitted[c]
      BY <2>1, <2>4 DEF ClientOf
    <3>3. IsOwnRevision(c, k)
      BY <3>1, <3>2 DEF LosslessInv, EditsStoredOnce, OwnEditsInOnePlace, IsOwnRevision
    <3>4. delivered(c, k) = acceptedAt(k)
      BY <3>3 DEF delivered
    <3>5. \A r \in k + 1..head : ~IsOwnRevision(c, r)
      <4>1. \A r \in k + 1..head : r # k /\ r \in sessionRev[t] + 1..head
        BY <1>1, <3>1
      <4> QED
        BY <1>2, <4>1
    <3> QED
      BY <1>1, <2>1, <2>2, <2>4, <3>1, <3>4, <3>5, DeliveryAdded
  <2> QED
    BY <2>3, <2>4
<1>7. ASSUME UNCHANGED clientVars, NEW rd \in reads, Sends(rd)
      PROVE  DeliveredInOrder(c)'
  <2>1. /\ task.pc = "flushing" /\ UNCHANGED <<revisions, rev, task>>
        /\ down' = [down EXCEPT ![rd.sock] = Append(@, newChanges(rd.rev))]
        /\ sessionRev' = [sessionRev EXCEPT ![rd.sock] = rd.rev]
        /\ rd.rev \in 1..head /\ rd.rev = sessionRev[rd.sock] + 1
    BY <1>7 DEF Sends, clientVars
  <2>2. CASE rd.sock # t
    <3>1. sessionRev'[t] = sessionRev[t] /\ down'[t] = down[t] /\ rev'[c] = rev[c]
      BY <1>1, <2>1, <2>2
    <3> QED
      BY <1>1, <2>1, <3>1, DeliveryUnmoved
  <2>3. CASE rd.sock = t
    <3> DEFINE k == rd.rev
    <3>1. k \in sessionRev[t] + 1..head /\ k = sessionRev[t] + 1 /\ k \in Nat
      BY <1>1, <2>1, <2>3
    <3>2. \A r \in sessionRev[t] + 1..head : ~IsOwnRevision(c, r)
      BY <1>2, <2>1
    <3>3. delivered(c, k) = newChanges(k)
      BY <3>1, <3>2 DEF delivered
    <3>4. \A r \in k + 1..head : ~IsOwnRevision(c, r)
      <4>1. \A r \in k + 1..head : r \in sessionRev[t] + 1..head
        BY <1>1, <3>1
      <4> QED
        BY <3>2, <4>1
    <3> QED
      BY <1>1, <2>1, <2>3, <3>1, <3>3, <3>4, DeliveryAdded
  <2> QED
    BY <2>2, <2>3
<1>8. ASSUME UNCHANGED serverVars, NEW d \in Clients,
             Type(d) \/ SlowCommit(d) \/ handleUserChanges(d) \/ SeesNext(d)
      PROVE  DeliveredInOrder(c)'
  <2>1. UNCHANGED <<revisions, sessionRev, task>>
    BY <1>8 DEF serverVars
  <2>2. CASE SeesNext(d) /\ d = c
    BY <1>1, <1>8, <2>2, DeliverySeen
  <2>3. CASE ~SeesNext(d) \/ d # c
    <3>1. rev'[c] = rev[c] /\ down'[t] = down[t]
      BY <1>1, <1>8, <2>3 DEF Type, SlowCommit, handleUserChanges, SeesNext, TypeInv, TypeOK,
                              ClientTypeOK, netVars
    <3> QED
      BY <1>1, <2>1, <3>1, DeliveryUnmoved
  <2> QED
    BY <2>2, <2>3
<1>9. Appends => /\ UNCHANGED <<sessionRev, down>>
                 /\ Stores(submitted[ClientOf(task.sock)])
  BY AppendsStores DEF Appends, netVars
<1>10. Corrects => /\ UNCHANGED <<sessionRev, down>>
                   /\ Cardinality(Corrections) + 1 \in 1..MaxFix
                   /\ Stores({<<Fix, Cardinality(Corrections) + 1>>})
  BY CorrectsStores DEF Corrects, netVars
<1> QED
  BY <1>3, <1>4, <1>5, <1>6, <1>7, <1>8, <1>9, <1>10, LosslessSteps

LEMMA SubmissionStep ==
  ASSUME Steady, TypeInv, HistoryApplies, LosslessInv, Next
  PROVE  OneSubmissionEach'
<1>1. OneSubmissionEach
  BY DEF LosslessInv
<1>2. CASE UNCHANGED clientVars /\ (Accepts \/ Flushes)
  <2>1. UNCHANGED <<revisions, up, padChannel, submitted>>
    BY <1>2 DEF Accepts, Flushes, netVars, clientVars
  <2>2. task'.pc \in {"idle", "accepted", "flushing"}
    <3>1. Accepts => task \in LateTasks
      BY LateTaskType DEF Accepts, TypeInv, TypeOK
    <3> QED
      BY <1>2, <3>1 DEF Accepts, Flushes, LateTasks
  <2> QED
    BY <1>1, <2>1, <2>2, SubmissionsUnmoved
<1>3. ASSUME UNCHANGED clientVars, NEW rd \in reads, Sends(rd)
      PROVE  OneSubmissionEach'
  BY <1>1, <1>3, SubmissionsUnmoved DEF Sends, clientVars
<1>4. ASSUME UNCHANGED serverVars, NEW d \in Clients, Type(d) \/ SlowCommit(d)
      PROVE  OneSubmissionEach'
  BY <1>1, <1>4, SubmissionsUnmoved DEF Type, SlowCommit, serverVars, netVars
<1> QED
  BY <1>2, <1>3, <1>4, LosslessSteps, SubmissionsStarted, SubmissionsRebased,
     SubmissionsAppended, SubmissionsCorrected, SubmissionsEnqueued,
     SubmissionsSubmitted, SubmissionsSeen

LEMMA BaseStep ==
  ASSUME Steady, TypeInv, HistoryApplies, LosslessInv, Next
  PROVE  BaseMatchesRevision'
<1>1. BaseMatchesRevision /\ Kept
  BY RevisionsKept DEF LosslessInv
<1>2. \A c \in Clients : receivedClientVars[c] /\ rev[c] \in Nat
  BY DEF LosslessInv, EveryoneConnected, TypeInv, TypeOK, ClientTypeOK
<1>3. ASSUME NEW c \in Clients, rev'[c] \in 0..head, base'[c] = TextAt(revisions, rev'[c])
      PROVE  rev'[c] <= head' /\ base'[c] = TextAt(revisions', rev'[c])
  BY <1>1, <1>3, TextKept DEF Kept
<1>4. ASSUME NEW c \in Clients
      PROVE  rev'[c] \in 0..head /\ base'[c] = TextAt(revisions, rev'[c])
  <2>1. rev[c] \in 0..head /\ base[c] = TextAt(revisions, rev[c])
    BY <1>1, <1>2 DEF BaseMatchesRevision, Kept
  <2>2. CASE UNCHANGED clientVars
    BY <2>1, <2>2 DEF clientVars
  <2>3. ASSUME NEW d \in Clients, Type(d) \/ SlowCommit(d) \/ handleUserChanges(d)
        PROVE  rev'[c] \in 0..head /\ base'[c] = TextAt(revisions, rev'[c])
    BY <2>1, <2>3 DEF Type, SlowCommit, handleUserChanges
  <2>4. ASSUME NEW d \in Clients, SeesNext(d)
        PROVE  rev'[c] \in 0..head /\ base'[c] = TextAt(revisions, rev'[c])
    <3>1. rev[d] + 1 \in 0..head
      BY <1>2, <2>4 DEF SeesNext
    <3>2. /\ rev' = [rev EXCEPT ![d] = @ + 1]
          /\ base' = [base EXCEPT ![d] = TextAt(revisions, rev[d] + 1)]
          /\ rev \in [Clients -> Nat] /\ base \in [Clients -> Texts]
      BY <2>4 DEF SeesNext, TypeInv, TypeOK, ClientTypeOK
    <3>3. CASE c = d
      <4>1. rev'[c] = rev[c] + 1 /\ base'[c] = TextAt(revisions, rev[c] + 1)
        BY <3>2, <3>3
      <4> QED
        BY <3>1, <3>3, <4>1
    <3>4. CASE c # d
      BY <2>1, <3>2, <3>4
    <3> QED
      BY <3>3, <3>4
  <2> QED
    BY <2>2, <2>3, <2>4, LosslessSteps
<1> QED
  BY <1>3, <1>4 DEF BaseMatchesRevision

LEMMA ConnectedStep ==
  ASSUME Steady, TypeInv, HistoryApplies, LosslessInv, Next
  PROVE  EveryoneConnected'
<1>1. EveryoneConnected
  BY DEF LosslessInv
<1>2. UNCHANGED <<open, room, mode, receivedClientVars, isPendingRevision>>
  <2>1. CASE UNCHANGED <<clientVars, open, room>>
    BY <2>1 DEF clientVars
  <2>2. ASSUME UNCHANGED serverVars, NEW c \in Clients,
               Type(c) \/ SlowCommit(c) \/ handleUserChanges(c) \/ SeesNext(c)
        PROVE  UNCHANGED <<open, room, mode, receivedClientVars, isPendingRevision>>
    BY <2>2 DEF serverVars, Type, SlowCommit, handleUserChanges, SeesNext, netVars, Send
  <2> QED
    BY <2>1, <2>2, LosslessSteps
<1> QED
  BY <1>1, <1>2 DEF EveryoneConnected

LEMMA LosslessStep ==
  ASSUME Steady, TypeInv, HistoryApplies, LosslessInv, [Next]_vars
  PROVE  LosslessInv'
<1>1. SteadyInv'
  BY SteadyStep DEF LosslessInv
<1>2. CASE Next
  <2>1. \A c \in Clients : OwnEditsInOnePlace(c)' /\ DeliveredInOrder(c)'
    BY <1>2, OwnEditsStep, DeliveryStep
  <2> QED
    BY <1>1, <1>2, <2>1, ConnectedStep, EditsStoredStep, SubmissionStep, BaseStep
       DEF LosslessInv
<1>3. CASE UNCHANGED vars
  <2>1. UNCHANGED <<revisions, open, room, mode, receivedClientVars, isPendingRevision,
                    up, padChannel, submitted, task, user, typed, rev, committing,
                    sessionRev, down, base>>
    BY <1>3 DEF vars, netVars, clientVars, serverVars
  <2>2. \A c \in Clients : OwnEditsInOnePlace(c)' /\ DeliveredInOrder(c)'
    <3>1. /\ \A r : StoredEdits(r)' = StoredEdits(r) /\ newChanges(r)' = newChanges(r)
          /\ \A c, r : IsOwnRevision(c, r)' = IsOwnRevision(c, r)
          /\ \A c, r : delivered(c, r)' = delivered(c, r)
          /\ head' = head
      BY <2>1 DEF StoredEdits, head, IsOwnRevision, newChanges, delivered
    <3>2. \A c \in Clients : OwnEditsInOnePlace(c)'
      BY <2>1, <3>1 DEF LosslessInv, OwnEditsInOnePlace
    <3>3. \A c \in Clients : DeliveredInOrder(c)'
      BY <2>1, <3>1 DEF LosslessInv, DeliveredInOrder
    <3> QED
      BY <3>2, <3>3
  <2>3. OneSubmissionEach'
    BY <2>1, SubmissionsUnmoved DEF LosslessInv
  <2>4. BaseMatchesRevision' /\ EveryoneConnected' /\ EditsStoredOnce'
    BY <2>1 DEF LosslessInv, BaseMatchesRevision, EveryoneConnected, EditsStoredOnce,
                StoredEdits, head, Corrections
  <2> QED
    BY <1>1, <2>2, <2>3, <2>4 DEF LosslessInv
<1> QED
  BY <1>2, <1>3

-----------------------------------------------------------------------------
(* In a pad that everyone has open from the beginning, whose connections    *)
(* hold and which no API call writes to, nothing is lost, stored twice or   *)
(* delivered out of order: every edit typed is waiting in its browser, on   *)
(* its way in one place only, or stored in one revision; and a session's    *)
(* messages are the revisions its browser has not seen, one each, in order. *)
THEOREM PadIsLossless ==
  ASSUME Steady
  PROVE  Spec => []LosslessInv
<1>1. Init => LosslessInv
  BY LosslessInit
<1>2. TypeInv /\ HistoryApplies /\ LosslessInv /\ [Next]_vars => LosslessInv'
  BY LosslessStep
<1> QED
  BY <1>1, <1>2, TypeInvHolds, HistoryAlwaysApplies, PTL DEF Spec

(* In such a pad what a browser takes for the text of its revision is that  *)
(* text, for those who write as well as for those who read.                 *)
THEOREM BrowsersShowTheirRevision ==
  ASSUME Steady
  PROVE  Spec => []BaseMatchesRevision
<1>1. LosslessInv => BaseMatchesRevision
  BY DEF LosslessInv
<1> QED
  BY <1>1, PadIsLossless, PTL

(* In such a pad no user is told badChangeset: each changeset that arrives  *)
(* applies to the revision it is based on and can be rebased to the head,   *)
(* and its sender has been sent every earlier revision.                     *)
THEOREM NobodyToldBadChangeset ==
  ASSUME Steady
  PROVE  Spec => []NoBadChangeset
<1>1. ASSUME LosslessInv
      PROVE  NoBadChangeset
  <2>1. ASSUME NEW s \in Sockets, NEW i \in 1..Len(down[s])
        PROVE  down[s][i].type # "DISCONNECT"
    <3>1. ClientOf(s) \in Clients /\ s = <<ClientOf(s), 1>>
      BY <1>1, SteadySockets DEF LosslessInv, SteadyInv, SocketIs
    <3>2. down[s][i] = delivered(ClientOf(s), rev[ClientOf(s)] + i)
      BY <1>1, <3>1, Zenon DEF LosslessInv, DeliveredInOrder
    <3> QED
      BY <3>2 DEF delivered, acceptedAt, newChanges
  <2> QED
    BY <2>1 DEF NoBadChangeset
<1> QED
  BY <1>1, PadIsLossless, PTL

(* An edit occurs in the text of a revision as often as it is stored: once  *)
(* or not at all.                                                           *)
LEMMA OccursOnce ==
  ASSUME EditsStoredOnce, head \in Nat, NEW r \in 0..head, NEW e \in Edits
  PROVE  /\ \A i \in 1..r : e \in StoredEdits(i) => TextAt(revisions, r).has[e] = 1
         /\ (\A i \in 1..r : e \notin StoredEdits(i)) => TextAt(revisions, r).has[e] = 0
<1> DEFINE holders == {i \in 1..r : e \in StoredEdits(i)}
<1>1. TextAt(revisions, r).has[e] = Cardinality(holders)
  BY DEF TextAt, StoredEdits
<1>2. ASSUME NEW i \in 1..r, e \in StoredEdits(i)
      PROVE  holders = {i}
  <2>1. \A j \in 1..r : e \in StoredEdits(j) => j = i
    BY <1>2 DEF EditsStoredOnce
  <2> QED
    BY <1>2, <2>1
<1>3. (\A i \in 1..r : e \notin StoredEdits(i)) => holders = {}
  OBVIOUS
<1> HIDE DEF holders
<1> QED
  BY <1>1, <1>2, <1>3, FS_Singleton, FS_EmptySet

(* In such a pad the pad's text holds no edit twice.                        *)
THEOREM NoEditStoredTwice ==
  ASSUME Steady
  PROVE  Spec => []StoredAtMostOnce
<1>1. ASSUME LosslessInv, TypeInv
      PROVE  StoredAtMostOnce
  <2>1. head \in Nat /\ head \in 0..head /\ EditsStoredOnce
    BY <1>1, HeadType DEF LosslessInv, TypeInv, TypeOK
  <2> QED
    BY <2>1, OccursOnce DEF StoredAtMostOnce
<1> QED
  BY <1>1, PadIsLossless, TypeInvHolds, PTL

(* In such a pad the user sees each own edit exactly once, from the         *)
(* keystroke to long after the commit.                                      *)
THEOREM OwnEditsSeenOnce ==
  ASSUME Steady
  PROVE  Spec => []OwnEditsShownOnce
<1>1. ASSUME LosslessInv, TypeInv
      PROVE  OwnEditsShownOnce
  <2>1. head \in Nat /\ EditsStoredOnce
    BY <1>1, HeadType DEF LosslessInv, TypeInv, TypeOK
  <2>2. ASSUME NEW c \in Clients, NEW n \in 1..typed[c]
        PROVE  base[c].has[<<c, n>>] + (IF <<c, n>> \in submitted[c] THEN 1 ELSE 0)
                                     + (IF <<c, n>> \in user[c] THEN 1 ELSE 0) = 1
    <3> DEFINE e == <<c, n>>
    <3>1. n \in 1..MaxEdits /\ n <= typed[c] /\ e \in Edits
      <4>1. typed[c] \in 0..MaxEdits
        BY <1>1 DEF TypeInv, TypeOK, ClientTypeOK
      <4>2. n \in 1..MaxEdits /\ n <= typed[c]
        BY <4>1, BoundsAssumption
      <4> QED
        BY <4>2 DEF Edits
    <3>2. rev[c] \in 0..head /\ base[c] = TextAt(revisions, rev[c])
      <4>1. rev[c] \in Nat
        BY <1>1 DEF TypeInv, TypeOK, ClientTypeOK
      <4> QED
        BY <1>1, <2>1, <4>1 DEF LosslessInv, EveryoneConnected, BaseMatchesRevision
    <3>3. /\ e \in submitted[c] \cup user[c] \/ \E r \in 1..rev[c] : e \in StoredEdits(r)
          /\ submitted[c] \cap user[c] = {}
          /\ \A r \in 1..rev[c] : StoredEdits(r) \cap (submitted[c] \cup user[c]) = {}
      BY <1>1, <3>1 DEF LosslessInv, OwnEditsInOnePlace
    <3>4. CASE e \in submitted[c] \cup user[c]
      <4>1. base[c].has[e] = 0
        BY <2>1, <3>1, <3>2, <3>3, <3>4, OccursOnce
      <4> QED
        BY <3>3, <3>4, <4>1
    <3>5. CASE e \notin submitted[c] \cup user[c]
      <4>1. base[c].has[e] = 1
        BY <2>1, <3>1, <3>2, <3>3, <3>5, OccursOnce
      <4> QED
        BY <3>5, <4>1
    <3> QED
      BY <3>4, <3>5
  <2> QED
    BY <2>2 DEF OwnEditsShownOnce
<1> QED
  BY <1>1, PadIsLossless, TypeInvHolds, PTL

-----------------------------------------------------------------------------
(* A steady pad is the abstract log: the history of what its revisions      *)
(* store, a copy per browser, and what its user has typed and not yet seen  *)
(* stored.                                                                  *)
LogHistory == [i \in 1..head |-> StoredEdits(i)]
LogUnsaved == [c \in Clients |-> submitted[c] \cup user[c]]
LogCopy == [c \in Clients |-> base[c].has]
LogPresent == {c \in Clients : receivedClientVars[c]}

LEMMA SequenceItself ==
  ASSUME NEW S, NEW q \in Seq(S)
  PROVE  q = [i \in 1..Len(q) |-> q[i]]
OBVIOUS

LEMMA HistoryElements ==
  ASSUME TypeInv
  PROVE  /\ head \in Nat /\ LogHistory \in Seq(SUBSET Edits) /\ Len(LogHistory) = head
         /\ \A i \in 1..head : LogHistory[i] = StoredEdits(i)
<1>1. head \in Nat
  BY HeadType DEF TypeInv, TypeOK
<1>2. \A i \in 1..head : StoredEdits(i) \in SUBSET Edits
  BY StoredType
<1>3. LogHistory \in [1..head -> SUBSET Edits]
  BY <1>2 DEF LogHistory
<1> QED
  BY <1>1, <1>3 DEF LogHistory

LEMMA HistoryGrows ==
  ASSUME TypeInv, NEW E \in SUBSET Edits, Stores(E)
  PROVE  LogHistory' = Append(LogHistory, E)
<1>1. /\ head \in Nat /\ head' = head + 1
      /\ \A r \in 1..head' : StoredEdits(r)' = IF r = head' THEN E ELSE StoredEdits(r)
  BY StoredThen
<1>2. LogHistory' = [i \in 1..head' |-> IF i = head' THEN E ELSE StoredEdits(i)]
  BY <1>1 DEF LogHistory
<1>3. /\ Append(LogHistory, E) \in Seq(SUBSET Edits) /\ Len(Append(LogHistory, E)) = head + 1
      /\ \A i \in 1..head : Append(LogHistory, E)[i] = StoredEdits(i)
      /\ Append(LogHistory, E)[head + 1] = E
  BY HistoryElements
<1>4. Append(LogHistory, E) = [i \in 1..head + 1 |-> Append(LogHistory, E)[i]]
  BY <1>3, SequenceItself
<1>5. Append(LogHistory, E) = [i \in 1..head' |-> IF i = head' THEN E ELSE StoredEdits(i)]
  BY <1>1, <1>3, <1>4
<1> QED
  BY <1>2, <1>5

(* Sets are counted the same way in the abstract pad. *)
LEMMA LogCounts ==
  ASSUME NEW S
  PROVE  Log!Cardinality(S) = Cardinality(S)
BY Zenon DEF Log!Cardinality, Cardinality

LEMMA LogStart ==
  ASSUME Steady, Init
  PROVE  Log!LogInit
<1>1. [i \in 1..head |-> revisions[i].changeset.edits] = <<>>
  BY DEF Init, ServerInit, head
<1>2. LogPresent = Joined
  BY ClientsAssumption DEF LogPresent, Init, ClientInit, Steady
<1>3. rev = [c \in Clients |-> 0] /\ LogUnsaved = [c \in Clients |-> {}]
  BY DEF Init, ClientInit, LogUnsaved
<1>4. LogCopy = [c \in Clients |-> Log!TextOf(<<>>, 0)]
  <2>1. EmptyText.has = Log!TextOf(<<>>, 0)
    <3>1. \A e \in Edits : {i \in 1..0 : e \in <<>>[i]} = {}
      OBVIOUS
    <3>2. Edits = Log!Edits
      BY DEF Edits, ApiEdits, FixEdits, Log!Edits, Log!ApiEdits, Log!FixEdits
    <3> QED
      BY <3>1, <3>2, LogCounts, FS_EmptySet DEF EmptyText, Log!TextOf
  <2> QED
    BY <2>1 DEF LogCopy, Init, ClientInit
<1> QED
  BY <1>1, <1>2, <1>3, <1>4 DEF Log!LogInit, LogPresent, LogUnsaved, LogCopy

LEMMA LogHolds ==
  ASSUME TypeInv
  PROVE  \A e : e \in Log!Stored <=> \E i \in 1..head : e \in StoredEdits(i)
<1>1. Len(LogHistory) = head /\ \A i \in 1..head : LogHistory[i] = StoredEdits(i)
  BY HistoryElements
<1>2. Log!Stored = UNION {LogHistory[i] : i \in 1..Len(LogHistory)}
  BY DEF Log!Stored, LogHistory, StoredEdits
<1> QED
  BY <1>1, <1>2

(* An append is a Save of its author's edits, a correction is another's. *)
LEMMA StoresSaves ==
  ASSUME TypeInv, NEW E \in SUBSET Edits, Stores(E), UNCHANGED clientVars
  PROVE  /\ \A c \in Clients : E \subseteq LogUnsaved[c] => Log!Save(c)
         /\ E \subseteq FixEdits => Log!SaveOther
<1>1. LogHistory' = Append(LogHistory, E)
  BY HistoryGrows
<1>2. E # {} /\ \A e \in E : e \notin Log!Stored
  BY LogHolds DEF Stores
<1>3. UNCHANGED <<receivedClientVars, rev, base, submitted, user>>
  BY DEF clientVars
<1>4. ASSUME NEW c \in Clients, E \subseteq LogUnsaved[c]
      PROVE  Log!Save(c)
  <2>1. E \in (SUBSET (LogUnsaved[c] \ Log!Stored)) \ {{}}
    BY <1>2, <1>4
  <2> QED
    BY <1>1, <1>3, <2>1 DEF Log!Save, LogHistory, StoredEdits, LogUnsaved
<1>5. ASSUME E \subseteq FixEdits
      PROVE  Log!SaveOther
  <2>1. Log!FixEdits = FixEdits
    BY DEF FixEdits, Log!FixEdits
  <2>2. E \in (SUBSET ((Log!ApiEdits \cup Log!FixEdits) \ Log!Stored)) \ {{}}
    BY <1>2, <1>5, <2>1
  <2> QED
    BY <1>1, <1>3, <2>2 DEF Log!SaveOther, LogHistory, StoredEdits
<1> QED
  BY <1>4, <1>5

LEMMA TypeWrites ==
  ASSUME TypeInv, LosslessInv, UNCHANGED serverVars, NEW c \in Clients, Type(c)
  PROVE  Log!Write(c)
<1> DEFINE e == <<c, typed[c] + 1>>
<1>1. OwnEditsInOnePlace(c) /\ receivedClientVars[c] /\ rev[c] <= head
      /\ rev[c] \in Nat /\ head \in Nat
  BY HeadType DEF LosslessInv, EveryoneConnected, BaseMatchesRevision, TypeInv, TypeOK,
                  ClientTypeOK
<1>2. /\ typed[c] \in Nat /\ typed[c] + 1 \in 1..MaxEdits /\ ~(typed[c] + 1 <= typed[c])
  <2>1. typed[c] \in 0..MaxEdits /\ typed[c] < MaxEdits
    BY DEF Type, TypeInv, TypeOK, ClientTypeOK
  <2> QED
    BY <2>1, BoundsAssumption
<1>3. e \notin submitted[c] \cup user[c] /\ \A r \in 1..rev[c] : e \notin StoredEdits(r)
  BY <1>1, <1>2 DEF OwnEditsInOnePlace
<1>4. e \in EditsOf(c) /\ e \in Log!EditsOf(c)
  BY <1>2 DEF EditsOf, Log!EditsOf
<1>5. ASSUME NEW r \in 1..head
      PROVE  e \notin StoredEdits(r)
  <2>1. r \in 1..rev[c] \/ r \in rev[c] + 1..head
    BY <1>1
  <2>2. ASSUME r \in rev[c] + 1..head, e \in StoredEdits(r)
        PROVE  FALSE
    <3>1. IsOwnRevision(c, r)
      BY <1>4, <2>2 DEF IsOwnRevision
    <3>2. StoredEdits(r) = submitted[c]
      BY <1>1, <2>2, <3>1 DEF OwnEditsInOnePlace
    <3> QED
      BY <1>3, <2>2, <3>2
  <2> QED
    BY <1>3, <2>1, <2>2
<1>6. e \in Log!EditsOf(c) \ (Log!Stored \cup LogUnsaved[c])
  BY <1>3, <1>4, <1>5, LogHolds DEF LogUnsaved
<1>7. /\ user' = [user EXCEPT ![c] = @ \cup {e}]
      /\ UNCHANGED <<receivedClientVars, rev, base, submitted, revisions>>
  BY DEF Type, serverVars
<1>8. LogUnsaved' = [LogUnsaved EXCEPT ![c] = @ \cup {e}]
  BY <1>7 DEF LogUnsaved, TypeInv, TypeOK, ClientTypeOK
<1>9. UNCHANGED <<LogHistory, LogPresent, rev, LogCopy>> /\ c \in LogPresent
  BY <1>1, <1>7 DEF LogHistory, LogPresent, LogCopy, StoredEdits, head
<1> QED
  BY <1>6, <1>8, <1>9 DEF Log!Write, LogHistory, LogUnsaved, LogPresent, LogCopy, StoredEdits

LEMMA SeesNextSees ==
  ASSUME TypeInv, LosslessInv, UNCHANGED serverVars, NEW c \in Clients, SeesNext(c)
  PROVE  Log!See(c)
<1> DEFINE k == rev[c] + 1
<1>1. /\ OwnEditsInOnePlace(c) /\ c \in LogPresent /\ EditsStoredOnce
      /\ rev[c] \in Nat /\ head \in Nat /\ k \in 1..head /\ k \in rev[c] + 1..head
  BY HeadType DEF LosslessInv, EveryoneConnected, TypeInv, TypeOK, ClientTypeOK, LogPresent,
                  SeesNext
<1>2. Len(LogHistory) = head /\ \A i \in 1..head : LogHistory[i] = StoredEdits(i)
  BY HistoryElements
<1>3. /\ rev' = [rev EXCEPT ![c] = @ + 1]
      /\ base' = [base EXCEPT ![c] = TextAt(revisions, k)]
      /\ UNCHANGED <<receivedClientVars, user, revisions>>
  BY DEF SeesNext, serverVars
<1>4. rev[c] < Len(LogHistory)
  BY <1>1, <1>2
<1>5. LogCopy' = [LogCopy EXCEPT ![c] = Log!TextOf(LogHistory, k)]
  <2>1. TextAt(revisions, k).has = Log!TextOf(LogHistory, k)
    <3>1. \A e : {i \in 1..k : e \in revisions[i].changeset.edits}
                 = {i \in 1..k : e \in LogHistory[i]}
      <4>1. \A i \in 1..k : LogHistory[i] = revisions[i].changeset.edits
        BY <1>1, <1>2 DEF StoredEdits
      <4> QED
        BY <4>1
    <3>2. Log!Edits = Edits
      BY DEF Edits, ApiEdits, FixEdits, Log!Edits, Log!ApiEdits, Log!FixEdits
    <3> QED
      BY <3>1, <3>2, LogCounts DEF TextAt, Log!TextOf
  <2> QED
    BY <1>3, <2>1 DEF LogCopy, TypeInv, TypeOK, ClientTypeOK
<1>6. submitted'[c] \cup user'[c] = (submitted[c] \cup user[c]) \ StoredEdits(k)
  <2>1. CASE IsOwnRevision(c, k)
    <3>1. StoredEdits(k) = submitted[c] /\ submitted'[c] = {} /\ user'[c] = user[c]
      BY <1>1, <2>1 DEF OwnEditsInOnePlace, SeesNext, TypeInv, TypeOK, ClientTypeOK
    <3> QED
      BY <1>1, <3>1 DEF OwnEditsInOnePlace
  <2>2. CASE ~IsOwnRevision(c, k)
    <3>1. submitted' = submitted /\ user' = user
      BY <2>2 DEF SeesNext
    <3> QED
      BY <1>1, <2>2, <3>1 DEF OwnEditsInOnePlace, IsOwnRevision
  <2> QED
    BY <2>1, <2>2
<1>7. LogUnsaved' = [LogUnsaved EXCEPT ![c] = @ \ LogHistory[k]]
  <2>1. \A d \in Clients : d # c => submitted'[d] = submitted[d] /\ user'[d] = user[d]
    BY DEF SeesNext, TypeInv, TypeOK, ClientTypeOK
  <2>2. LogHistory[k] = StoredEdits(k)
    BY <1>1, <1>2
  <2> QED
    BY <1>6, <2>1, <2>2 DEF LogUnsaved
<1>8. UNCHANGED <<LogHistory, LogPresent>>
  BY <1>3 DEF LogHistory, LogPresent, StoredEdits, head
<1> QED
  BY <1>1, <1>3, <1>4, <1>5, <1>7, <1>8
     DEF Log!See, LogHistory, LogUnsaved, LogPresent, LogCopy, StoredEdits

LEMMA LogStutters ==
  ASSUME UNCHANGED <<revisions, receivedClientVars, rev, base, LogUnsaved>>
  PROVE  UNCHANGED Log!logVars
BY DEF Log!logVars, LogUnsaved, head

LEMMA SubmitStutters ==
  ASSUME TypeInv, LosslessInv, UNCHANGED serverVars, NEW c \in Clients,
         SlowCommit(c) \/ handleUserChanges(c)
  PROVE  UNCHANGED Log!logVars
<1>1. UNCHANGED <<revisions, receivedClientVars, rev, base>>
  BY DEF SlowCommit, handleUserChanges, serverVars
<1>2. \A d \in Clients : submitted'[d] \cup user'[d] = submitted[d] \cup user[d]
  BY DEF SlowCommit, handleUserChanges, TypeInv, TypeOK, ClientTypeOK
<1> QED
  BY <1>1, <1>2, LogStutters DEF LogUnsaved

LEMMA LogStep ==
  ASSUME Steady, TypeInv, HistoryApplies, LosslessInv, [Next]_vars
  PROVE  [Log!LogNext]_(Log!logVars)
<1>1. CASE UNCHANGED <<revisions, clientVars>>
  <2>1. UNCHANGED <<receivedClientVars, rev, base, LogUnsaved>>
    BY <1>1 DEF clientVars, LogUnsaved
  <2> QED
    BY <1>1, <2>1, LogStutters
<1>2. CASE UNCHANGED clientVars /\ Appends
  <2>1. PICK c \in Clients : Stores(submitted[c])
    BY <1>2, AppendsStores
  <2>2. submitted[c] \in SUBSET Edits /\ submitted[c] \subseteq LogUnsaved[c]
    BY <2>1 DEF LogUnsaved, TypeInv, TypeOK, ClientTypeOK
  <2>3. Log!Save(c)
    BY <1>2, <2>1, <2>2, StoresSaves
  <2> QED
    BY <2>3 DEF Log!LogNext
<1>3. CASE UNCHANGED clientVars /\ Corrects
  <2> DEFINE E == {<<Fix, Cardinality(Corrections) + 1>>}
  <2>1. Stores(E) /\ E \subseteq FixEdits
    BY <1>3, CorrectsStores DEF FixEdits
  <2> HIDE DEF E
  <2>2. E \in SUBSET Edits
    BY <2>1 DEF Edits
  <2> QED
    BY <1>3, <2>1, <2>2, StoresSaves DEF Log!LogNext
<1>4. ASSUME UNCHANGED serverVars, NEW c \in Clients,
             Type(c) \/ SlowCommit(c) \/ handleUserChanges(c) \/ SeesNext(c)
      PROVE  [Log!LogNext]_(Log!logVars)
  BY <1>4, TypeWrites, SubmitStutters, SeesNextSees DEF Log!LogNext
<1>5. \/ UNCHANGED <<revisions, clientVars>>
      \/ UNCHANGED clientVars /\ (Appends \/ Corrects)
      \/ /\ UNCHANGED serverVars
         /\ \E c \in Clients :
               Type(c) \/ SlowCommit(c) \/ handleUserChanges(c) \/ SeesNext(c)
  <2>1. CASE UNCHANGED vars
    BY <2>1 DEF vars, serverVars
  <2>2. /\ Starts \/ Rebases \/ Accepts \/ Flushes => UNCHANGED revisions
        /\ \A rd \in reads : Sends(rd) => UNCHANGED revisions
        /\ \A s \in Sockets : Enqueues(s) => UNCHANGED revisions
    BY DEF Starts, Rebases, Accepts, Flushes, Sends, Enqueues
  <2> QED
    BY <2>1, <2>2, LosslessSteps
<1> QED
  BY <1>1, <1>2, <1>3, <1>4, <1>5

(* Browsers, server and connections together are the abstract pad: one      *)
(* history in which each edit is stored once, copies that move forward one  *)
(* revision at a time, and own edits kept until the copy holds them.        *)
THEOREM PadImplementsLog ==
  ASSUME Steady
  PROVE  Spec => ImplementsLog
<1>1. Init => Log!LogInit
  BY LogStart
<1>2. TypeInv /\ HistoryApplies /\ LosslessInv /\ [Next]_vars => [Log!LogNext]_(Log!logVars)
  BY LogStep
<1> QED
  BY <1>1, <1>2, TypeInvHolds, HistoryAlwaysApplies, PadIsLossless, PTL
     DEF Spec, ImplementsLog, Log!LogSpec
=============================================================================

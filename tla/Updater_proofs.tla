--------------------------- MODULE Updater_proofs ---------------------------
(***************************************************************************)
(* Type correctness of the updater; that the update lock is held by        *)
(* exactly the run that is past acquireLock as long as runs come to it one *)
(* after the other, whatever polls, cancels, kills and broken releases do; *)
(* and what the state file may be relied on to say.                        *)
(***************************************************************************)
EXTENDS Updater, TLAPS

\* What a checkout may be told to check out is a release: a rollback knows the
\* release to return to, and a run the release to install.
SourcesKnown ==
    /\ rb.pc # "none" => rb.st.sha \in Versions
    /\ health.armed => health.st.sha \in Versions
    /\ \A r \in Runs : runs[r].pc # "none" => runs[r].st.tag \in Versions

\* The part of it that the steps of the runs are about.
RunsOK ==
    /\ runs \in [Runs -> [pc : Pcs, st : State, canceled : BOOLEAN]]
    /\ \A r \in Runs : runs[r].pc # "none" => runs[r].st.tag \in Versions

\* The steps of acquireLock.  A run that has created the file and not written
\* it is the one the file is of; what is about to be unlinked belongs to nobody.
LockSteps ==
    \A r \in Runs :
        /\ runs[r].pc = "write" <=> lock = r
        /\ runs[r].pc \in {"reap", "recreate"} => lock \in {"free", "stale"}
        /\ runs[r].pc \in Locking => \A q \in Runs \ {r} : runs[q].pc \notin Locking

\* While no two runs are about the lock at once.
LockInv == ~LockRaces => OneRunHoldsTheLock /\ LockSteps

IInv == TypeOK /\ SourcesKnown /\ LockInv

\* Every state written is built from one read by withStatus.
LEMMA WithStatusTyped ==
    ASSUME NEW s \in State, NEW status \in Statuses,
           NEW tag \in 0 .. MaxVersion, NEW sha \in 0 .. MaxVersion
    PROVE  /\ WithStatus(s, status, tag, sha) \in State
           /\ WithStatus(s, status, tag, sha).status = status
           /\ WithStatus(s, status, tag, sha).tag = tag
           /\ WithStatus(s, status, tag, sha).sha = sha
           /\ WithStatus(s, status, tag, sha).latest = s.latest
    BY DEF State, WithStatus

LEMMA EmptyTyped == EmptyState \in State
    BY UpdaterAssumption DEF State, EmptyState, Statuses

LEMMA IdleTyped == \A s \in State : Idle(s) \in State
    BY UpdaterAssumption, WithStatusTyped DEF Idle, Statuses

\* What loadState answers has a shape, and names a release to return to
\* wherever the status needs one.
LEMMA LoadTyped ==
    ASSUME file \in State
    PROVE  /\ loadState \in State
           /\ loadState.status \in NeedsSha => loadState.sha \in Versions
    BY UpdaterAssumption, EmptyTyped
       DEF loadState, State, EmptyState, NeedsSha, Versions

LEMMA BootZeroTyped == \A s \in State : [s EXCEPT !.boot = 0] \in State
    BY DEF State

LEMMA VerifiedTyped == \A s \in State : verified(s) \in State
  <1> SUFFICES ASSUME NEW s \in State PROVE verified(s) \in State
    OBVIOUS
  <1>1. s.tag \in 0 .. MaxVersion /\ 0 \in 0 .. MaxVersion
    BY UpdaterAssumption DEF State
  <1>2. WithStatus(s, "verified", s.tag, 0) \in State
    BY <1>1, WithStatusTyped DEF Statuses
  <1> QED BY <1>2, BootZeroTyped DEF verified

LEMMA CountedTyped ==
    ASSUME NEW s \in State, ~CrashLoop(s)
    PROVE  Counted(s) \in State /\ Counted(s).sha = s.sha
    BY DEF State, CrashLoop, Counted

LEMMA DecideTyped == \A s \in State : decideSchedule(s) \in State
  <1> SUFFICES ASSUME NEW s \in State PROVE decideSchedule(s) \in State
    OBVIOUS
  <1>1. s.latest \in 0 .. MaxVersion /\ 0 \in 0 .. MaxVersion
    BY UpdaterAssumption DEF State
  <1>2. WithStatus(s, "scheduled", s.latest, 0) \in State
    BY <1>1, WithStatusTyped DEF Statuses
  <1> QED BY <1>2, IdleTyped DEF decideSchedule

LEMMA NoRunTyped ==
    /\ NoRun \in [pc : Pcs, st : State, canceled : BOOLEAN]
    /\ NoCall \in [pc : {"none", "save"}, st : State]
    /\ NoCall \in [pc : {"none", "checkout", "install", "save"}, st : State]
    /\ NoRun.pc = "none" /\ NoCall.pc = "none"
    BY EmptyTyped DEF NoRun, NoCall, Pcs

LEMMA InitInv == Init => IInv
  <1> SUFFICES ASSUME Init PROVE IInv
    OBVIOUS
  <1> USE UpdaterAssumption, EmptyTyped, NoRunTyped DEF Init
  <1>1. TypeOK
    BY DEF TypeOK, Versions
  <1>2. SourcesKnown
    BY DEF SourcesKnown
  <1>3. LockInv
    BY DEF LockInv, LockSteps, OneRunHoldsTheLock, Owners, Locking, Preparing, Executing, NoRun,
           Runs
  <1> QED BY <1>1, <1>2, <1>3 DEF IInv

\* After an exit nothing in memory is left.
LEMMA ExitInv ==
    ASSUME IInv, Exit, file' \in State, tree' \in [code : Versions, deps : 0 .. MaxVersion,
                                                   ui : 0 .. MaxVersion],
           kills' \in 0 .. MaxKills
    PROVE  IInv'
  <1> USE UpdaterAssumption, EmptyTyped, NoRunTyped DEF IInv, Exit
  <1>1. TypeOK'
    BY DEF TypeOK
  <1>2. SourcesKnown'
    BY DEF SourcesKnown
  <1>3. LockInv'
    BY DEF LockInv, LockSteps, OneRunHoldsTheLock, Owners, Locking, Preparing, Executing, TypeOK,
           Runs
  <1> QED BY <1>1, <1>2, <1>3

\* A run that moves on takes a typed state with it; the other one stays.
LEMMA GotoWithRuns ==
    ASSUME IInv, NEW r \in Runs, NEW pc \in Pcs, NEW s \in State, s.tag \in Versions,
           GotoWith(r, pc, s)
    PROVE  /\ RunsOK'
           /\ runs'[r].pc = pc /\ runs'[r].st = s /\ runs'[r].canceled = runs[r].canceled
           /\ \A q \in Runs \ {r} : runs'[q] = runs[q]
    BY ZenonT(60) DEF IInv, TypeOK, SourcesKnown, RunsOK, GotoWith

LEMMA GotoRuns ==
    ASSUME IInv, NEW r \in Runs, NEW pc \in Pcs, runs[r].pc # "none", Goto(r, pc)
    PROVE  /\ RunsOK'
           /\ runs'[r].pc = pc
           /\ runs'[r].st = runs[r].st /\ runs'[r].canceled = runs[r].canceled
           /\ \A q \in Runs \ {r} : runs'[q] = runs[q]
    BY SMTT(30) DEF IInv, TypeOK, SourcesKnown, RunsOK, Goto

LEMMA EndRuns ==
    ASSUME IInv, NEW r \in Runs, End(r)
    PROVE  /\ RunsOK'
           /\ runs'[r].pc = "none" /\ ~runs'[r].canceled
           /\ \A q \in Runs \ {r} : runs'[q] = runs[q]
    BY NoRunTyped DEF IInv, TypeOK, SourcesKnown, RunsOK, End, NoRun

\* The lock stays with its run, or both are given up together.
LEMMA OwnerStays ==
    ASSUME IInv, NEW r \in Runs, \A q \in Runs \ {r} : runs'[q] = runs[q],
           \/ /\ runs'[r].pc \in Preparing \cup Executing
              /\ runs[r].pc \in Preparing \cup Executing
              /\ lock' = lock
           \/ /\ runs'[r].pc \in {"none", "load"}
              /\ runs[r].pc \in {"none", "load"}
              /\ lock' = lock
           \/ /\ runs'[r].pc \in {"none", "load"}
              /\ runs[r].pc \in Preparing \cup Executing
              /\ lock' = "free"
    PROVE  LockInv'
  <1> SUFFICES ASSUME ~LockRaces PROVE OneRunHoldsTheLock' /\ LockSteps'
    BY DEF LockInv
  <1>1. OneRunHoldsTheLock /\ LockSteps
    BY DEF IInv, LockInv
  <1>2. OneRunHoldsTheLock'
    BY <1>1 DEF OneRunHoldsTheLock, Owners, Preparing, Executing
  <1>3. LockSteps'
    BY <1>1 DEF LockSteps, OneRunHoldsTheLock, Owners, Locking, Preparing, Executing, Runs
  <1> QED BY <1>2, <1>3

\* A step of a run.
LEMMA RunStepInv ==
    ASSUME IInv, RunOnly, RunsOK', LockInv', file' \in State,
           tree' \in [code : Versions, deps : 0 .. MaxVersion, ui : 0 .. MaxVersion],
           lock' \in {"free", "held", "stale"} \cup Runs,
           drainer' \in {"none", "made", "running", "resolved", "cancelled"},
           accepting' \in BOOLEAN
    PROVE  IInv'
    BY DEF IInv, TypeOK, SourcesKnown, RunsOK, RunOnly

\* A step that leaves the runs and the lock alone.
LEMMA OtherStepInv ==
    ASSUME IInv, UNCHANGED <<tree, lock, runs, kills>>, file' \in State, mem' \in State,
           timer' \in 0 .. MaxVersion, drainer' \in {"none", "made", "running", "resolved", "cancelled"},
           accepting' \in BOOLEAN, cancel' \in [pc : {"none", "save"}, st : State],
           proc' \in [phase : {"down", "starting", "up", "healthy"}, version : Versions],
           health' \in [armed : BOOLEAN, st : State], writes' \in Seq(State),
           rb' \in [pc : {"none", "checkout", "install", "save"}, st : State],
           rb'.pc # "none" => rb'.st.sha \in Versions,
           health'.armed => health'.st.sha \in Versions
    PROVE  IInv'
    BY DEF IInv, TypeOK, SourcesKnown, LockInv, LockSteps, OneRunHoldsTheLock, Owners

\* The start of the process, and what it writes in the background.
LEMMA BootInv == ASSUME IInv, Boot PROVE IInv'
  <1> USE UpdaterAssumption, NoRunTyped DEF IInv, Boot
  <1>1. TypeOK'
    BY DEF TypeOK
  <1>2. SourcesKnown'
    BY DEF SourcesKnown, TypeOK
  <1>3. LockInv'
    BY DEF LockInv, LockSteps, OneRunHoldsTheLock, Owners
  <1> QED BY <1>1, <1>2, <1>3

LEMMA PendingVerification ==
    ASSUME IInv, checkPendingVerification(loadState)
    PROVE  /\ health' \in [armed : BOOLEAN, st : State]
           /\ writes' \in Seq(State)
           /\ rb' \in [pc : {"none", "checkout", "install", "save"}, st : State]
           /\ rb'.pc # "none" => rb'.st.sha \in Versions
           /\ health'.armed => health'.st.sha \in Versions
  <1>1. loadState \in State /\ (loadState.status \in NeedsSha => loadState.sha \in Versions)
    BY LoadTyped DEF IInv, TypeOK
  <1>2. CASE loadState.status # "pending-verification"
    BY <1>2 DEF IInv, TypeOK, SourcesKnown, checkPendingVerification
  <1>3. CASE loadState.status = "pending-verification" /\ CrashLoop(loadState)
    BY <1>1, <1>3 DEF IInv, TypeOK, SourcesKnown, NeedsSha, checkPendingVerification
  <1>4. CASE loadState.status = "pending-verification" /\ ~CrashLoop(loadState)
    <2>1. Counted(loadState) \in State /\ Counted(loadState).sha \in Versions
      BY <1>1, <1>4, CountedTyped DEF NeedsSha
    <2>2. /\ health' = [armed |-> TRUE, st |-> Counted(loadState)]
          /\ writes' = Append(writes, Counted(loadState))
          /\ UNCHANGED rb
      BY <1>4 DEF checkPendingVerification
    <2> QED BY <2>1, <2>2 DEF IInv, TypeOK, SourcesKnown
  <1> QED BY <1>2, <1>3, <1>4

LEMMA expressCreateServerInv == ASSUME IInv, expressCreateServer PROVE IInv'
  <1>1. loadState \in State /\ Idle(loadState) \in State
    BY LoadTyped, IdleTyped DEF IInv, TypeOK
  <1>2. checkPendingVerification(loadState)
    BY DEF expressCreateServer
  <1>3. file' \in State /\ mem' \in State
    BY <1>1 DEF expressCreateServer, IInv, TypeOK
  <1>4. timer' \in 0 .. MaxVersion
    BY <1>1, UpdaterAssumption DEF expressCreateServer, State
  <1>5. proc' \in [phase : {"down", "starting", "up", "healthy"}, version : Versions]
    BY DEF expressCreateServer, IInv, TypeOK
  <1> QED BY <1>2, <1>3, <1>4, <1>5, PendingVerification, OtherStepInv
        DEF expressCreateServer, IInv, TypeOK

LEMMA BackgroundWriteInv == ASSUME IInv, BackgroundWrite PROVE IInv'
  <1> USE UpdaterAssumption, NoRunTyped DEF IInv, BackgroundWrite
  <1>1. TypeOK'
    BY DEF TypeOK
  <1>2. SourcesKnown'
    BY DEF SourcesKnown, TypeOK
  <1>3. LockInv'
    BY DEF LockInv, LockSteps, OneRunHoldsTheLock, Owners
  <1> QED BY <1>1, <1>2, <1>3

LEMMA markBootHealthyInv == ASSUME IInv, markBootHealthy PROVE IInv'
  <1> USE UpdaterAssumption, NoRunTyped DEF IInv, markBootHealthy
  <1>1. TypeOK'
    <2>1. verified(health.st) \in State
      BY VerifiedTyped DEF TypeOK
    <2>2. writes' \in Seq(State)
      BY <2>1 DEF TypeOK, markVerified
    <2>3. health' \in [armed : BOOLEAN, st : State]
      BY EmptyTyped DEF TypeOK
    <2>4. proc' \in [phase : {"down", "starting", "up", "healthy"}, version : Versions]
      BY DEF TypeOK
    <2> QED BY <2>2, <2>3, <2>4 DEF TypeOK
  <1>2. SourcesKnown'
    BY VerifiedTyped, EmptyTyped DEF SourcesKnown, TypeOK
  <1>3. LockInv'
    BY DEF LockInv, LockSteps, OneRunHoldsTheLock, Owners
  <1> QED BY <1>1, <1>2, <1>3

LEMMA HealthTimeoutInv == ASSUME IInv, HealthTimeout PROVE IInv'
  <1>1. health.st \in State /\ health.st.tag \in 0 .. MaxVersion
        /\ health.st.sha \in 0 .. MaxVersion /\ health.st.sha \in Versions
    BY DEF HealthTimeout, IInv, TypeOK, SourcesKnown, State
  <1>2. /\ WithStatus(health.st, "rolling-back", health.st.tag, health.st.sha) \in State
        /\ WithStatus(health.st, "rolling-back", health.st.tag, health.st.sha).sha \in Versions
    <2>1. "rolling-back" \in Statuses
      BY DEF Statuses
    <2> QED BY <1>1, <2>1, WithStatusTyped
  <1> QED BY <1>2, OtherStepInv DEF HealthTimeout, IInv, TypeOK, SourcesKnown

\* A rollback step.
LEMMA RollbackCheckoutInv == ASSUME IInv, RollbackCheckout PROVE IInv'
  <1> USE UpdaterAssumption, NoRunTyped DEF IInv, RollbackCheckout, RollbackStep
  <1>1. TypeOK'
    BY SMTT(30) DEF TypeOK, SourcesKnown
  <1>2. SourcesKnown'
    BY DEF SourcesKnown, TypeOK
  <1>3. LockInv'
    BY DEF LockInv, LockSteps, OneRunHoldsTheLock, Owners
  <1> QED BY <1>1, <1>2, <1>3

LEMMA RollbackInstallInv == ASSUME IInv, RollbackInstall PROVE IInv'
  <1> USE UpdaterAssumption, NoRunTyped DEF IInv, RollbackInstall, RollbackStep, installed
  <1>1. TypeOK'
    BY DEF TypeOK, Versions
  <1>2. SourcesKnown'
    BY DEF SourcesKnown, TypeOK
  <1>3. LockInv'
    BY DEF LockInv, LockSteps, OneRunHoldsTheLock, Owners
  <1> QED BY <1>1, <1>2, <1>3

LEMMA RollBackToInv ==
    ASSUME IInv, NEW status \in Statuses, RollBackTo(status),
           tree' \in [code : Versions, deps : 0 .. MaxVersion, ui : 0 .. MaxVersion]
    PROVE  IInv'
  <1>1. file' \in State /\ kills' \in 0 .. MaxKills
    <2>1. rb.st \in State /\ rb.st.tag \in 0 .. MaxVersion /\ rb.st.sha \in 0 .. MaxVersion
      BY DEF IInv, TypeOK, State
    <2>2. WithStatus(rb.st, status, rb.st.tag, rb.st.sha) \in State
      BY <2>1, WithStatusTyped
    <2> QED BY <2>2, BootZeroTyped DEF RollBackTo, IInv, TypeOK
  <1> QED BY <1>1, ExitInv DEF RollBackTo

LEMMA RollbackDoneInv == ASSUME IInv, RollbackDone PROVE IInv'
    BY RollBackToInv DEF RollbackDone, IInv, TypeOK, Statuses

LEMMA RollbackFailsInv == ASSUME IInv, RollbackFails PROVE IInv'
  <1>1. tree' \in [code : Versions, deps : 0 .. MaxVersion, ui : 0 .. MaxVersion]
    BY UpdaterAssumption DEF RollbackFails, IInv, TypeOK
  <1> QED BY <1>1, RollBackToInv DEF RollbackFails, Statuses

\* Polls, the scheduler's timer and the administrator's requests.
LEMMA performCheckInv == ASSUME NEW v \in Versions, IInv, performCheck(v) PROVE IInv'
  <1>1. mem \in State /\ v \in 0 .. MaxVersion
    BY UpdaterAssumption DEF IInv, TypeOK, Versions
  <1>2. [mem EXCEPT !.latest = v] \in State
    BY <1>1 DEF State
  <1> DEFINE s == decideSchedule([mem EXCEPT !.latest = v])
  <1>3. s \in State
    BY <1>2, DecideTyped
  <1>4. file' \in State /\ mem' \in State
    BY <1>3 DEF performCheck
  <1>5. s.tag \in 0 .. MaxVersion /\ 0 \in 0 .. MaxVersion
    BY <1>3, UpdaterAssumption DEF State
  <1>6. timer' \in 0 .. MaxVersion
    BY <1>5 DEF performCheck, IInv, TypeOK
  <1> QED BY <1>4, <1>6, OtherStepInv DEF performCheck, IInv, TypeOK, SourcesKnown

LEMMA TimerFiresInv == ASSUME IInv, TimerFires PROVE IInv'
  <1>1. loadState \in State /\ Idle(loadState) \in State
    BY LoadTyped, IdleTyped DEF IInv, TypeOK
  <1>2. file' \in State /\ timer' \in 0 .. MaxVersion
    BY <1>1, UpdaterAssumption DEF TimerFires, IInv, TypeOK
  <1>3. timer \in Versions /\ "timer" \in Runs
    BY UpdaterAssumption DEF TimerFires, IInv, TypeOK, Versions, Runs
  <1>4. CASE UNCHANGED runs
    BY <1>2, <1>4, UpdaterAssumption, OtherStepInv DEF TimerFires, IInv, TypeOK, SourcesKnown
  <1>5. CASE GotoWith("timer", "load", [loadState EXCEPT !.tag = timer])
    <2>1. /\ [loadState EXCEPT !.tag = timer] \in State
          /\ [loadState EXCEPT !.tag = timer].tag \in Versions
      BY <1>1, <1>3 DEF State, Versions
    <2>2. /\ RunsOK' /\ runs'["timer"].pc = "load"
          /\ \A q \in Runs \ {"timer"} : runs'[q] = runs[q]
      BY <1>3, <1>5, <2>1, GotoWithRuns DEF Pcs
    <2>3. LockInv'
      BY <1>3, <2>2, OwnerStays DEF TimerFires, Preparing, Executing
    <2> QED BY <1>2, <2>2, <2>3 DEF TimerFires, IInv, TypeOK, SourcesKnown, RunsOK
  <1> QED BY <1>4, <1>5 DEF TimerFires

LEMMA ApplyInv == ASSUME IInv, Apply PROVE IInv'
  <1>1. loadState \in State
    BY LoadTyped DEF IInv, TypeOK
  <1>2. /\ [loadState EXCEPT !.tag = loadState.latest] \in State
        /\ [loadState EXCEPT !.tag = loadState.latest].tag \in Versions
    BY <1>1 DEF Apply, State, Versions
  <1>3. "admin" \in Runs /\ GotoWith("admin", "load", [loadState EXCEPT !.tag = loadState.latest])
    BY DEF Apply, Runs
  <1>4. /\ RunsOK' /\ runs'["admin"].pc = "load"
        /\ \A q \in Runs \ {"admin"} : runs'[q] = runs[q]
    BY <1>2, <1>3, GotoWithRuns DEF Pcs
  <1>5. LockInv'
    BY <1>3, <1>4, OwnerStays DEF Apply, Preparing, Executing
  <1>6. timer' \in 0 .. MaxVersion
    BY UpdaterAssumption DEF Apply, IInv, TypeOK
  <1> QED BY <1>4, <1>5, <1>6 DEF Apply, IInv, TypeOK, SourcesKnown, RunsOK

\* A cancel marks runs and moves none.
LEMMA CancelRuns ==
    ASSUME IInv, Cancel
    PROVE  /\ runs' \in [Runs -> [pc : Pcs, st : State, canceled : BOOLEAN]]
           /\ \A r \in Runs : /\ runs'[r].pc = runs[r].pc /\ runs'[r].st = runs[r].st
                              /\ runs'[r].canceled = (runs[r].canceled \/ runs[r].pc \in Unexecuted)
    BY ZenonT(60) DEF Cancel, IInv, TypeOK

LEMMA CancelInv == ASSUME IInv, Cancel PROVE IInv'
  <1> USE UpdaterAssumption, NoRunTyped, CancelRuns DEF IInv
  <1>1. TypeOK'
    <2>1. cancel' \in [pc : {"none", "save"}, st : State]
      BY LoadTyped DEF Cancel, TypeOK
    <2>2. timer' \in 0 .. MaxVersion
      BY DEF Cancel, TypeOK
    <2>3. drainer' \in {"none", "made", "running", "resolved", "cancelled"} /\ accepting' \in BOOLEAN
      BY DEF Cancel, TypeOK, CancelAccepts
    <2> QED BY <2>1, <2>2, <2>3 DEF Cancel, TypeOK
  <1>2. SourcesKnown'
    BY DEF Cancel, SourcesKnown
  <1>3. LockInv'
    <2>1. lock' = lock
      BY DEF Cancel
    <2> QED BY <2>1 DEF LockInv, LockSteps, OneRunHoldsTheLock, Owners
  <1> QED BY <1>1, <1>2, <1>3

LEMMA CancelSavesInv == ASSUME IInv, CancelSaves PROVE IInv'
  <1> USE UpdaterAssumption, NoRunTyped DEF IInv, CancelSaves
  <1>1. TypeOK'
    BY IdleTyped DEF TypeOK
  <1>2. SourcesKnown'
    BY IdleTyped DEF SourcesKnown, TypeOK
  <1>3. LockInv'
    BY DEF LockInv, LockSteps, OneRunHoldsTheLock, Owners
  <1> QED BY <1>1, <1>2, <1>3

LEMMA AcknowledgeInv == ASSUME IInv, Acknowledge PROVE IInv'
  <1> USE UpdaterAssumption, NoRunTyped DEF IInv, Acknowledge
  <1>1. TypeOK'
    BY LoadTyped, IdleTyped, BootZeroTyped DEF TypeOK
  <1>2. SourcesKnown'
    BY LoadTyped, IdleTyped, BootZeroTyped DEF SourcesKnown, TypeOK
  <1>3. LockInv'
    BY DEF LockInv, LockSteps, OneRunHoldsTheLock, Owners
  <1> QED BY <1>1, <1>2, <1>3

LEMMA RepairInv == ASSUME IInv, Repair PROVE IInv'
    BY ExitInv DEF Repair, IInv, TypeOK, Versions

LEMMA KillInv == ASSUME IInv, Kill PROVE IInv'
    BY UpdaterAssumption, ExitInv DEF Kill, IInv, TypeOK

LEMMA CrashInv == ASSUME IInv, Crash PROVE IInv'
    BY ExitInv DEF Crash, IInv, TypeOK

\* The steps of applyUpdate and executeUpdate.  Each has a state to save, a
\* place to go to, and keeps the lock or gives it up.
LEMMA RunState ==
    ASSUME IInv, NEW r \in Runs, runs[r].pc # "none"
    PROVE  /\ runs[r].st \in State /\ Target(r) \in Versions /\ Target(r) \in 0 .. MaxVersion
           /\ runs[r].st.sha \in 0 .. MaxVersion /\ tree.code \in 0 .. MaxVersion
           /\ 0 \in 0 .. MaxVersion
  <1>1. runs[r].st \in State /\ tree.code \in Versions
    BY DEF IInv, TypeOK
  <1>2. Target(r) \in Versions
    BY DEF IInv, SourcesKnown, Target
  <1>3. \A v \in Versions : v \in 0 .. MaxVersion
    BY UpdaterAssumption DEF Versions
  <1>4. runs[r].st.sha \in 0 .. MaxVersion /\ 0 \in 0 .. MaxVersion
    BY <1>1, UpdaterAssumption DEF State
  <1> QED BY <1>1, <1>2, <1>3, <1>4

LEMMA LoadInv == ASSUME NEW r \in Runs, IInv, Load(r) PROVE IInv'
  <1>1. runs[r].pc = "load"
    BY DEF Load, At
  <1>2. loadState \in State
    BY LoadTyped DEF IInv, TypeOK
  <1> DEFINE s == WithStatus(loadState, "preflight", Target(r), 0)
  <1>3. s \in State /\ s.tag \in Versions
    <2>1. "preflight" \in Statuses
      BY DEF Statuses
    <2>2. runs[r].pc # "none"
      BY <1>1
    <2>3. Target(r) \in Versions /\ Target(r) \in 0 .. MaxVersion /\ 0 \in 0 .. MaxVersion
      BY <2>2, RunState
    <2>4. s \in State /\ s.tag = Target(r)
      BY <1>2, <2>1, <2>3, WithStatusTyped
    <2> QED BY <2>3, <2>4
  <1>4. CASE GotoWith(r, "create", s)
    <2>1. RunsOK' /\ runs'[r].pc = "create" /\ \A q \in Runs \ {r} : runs'[q] = runs[q]
      BY <1>3, <1>4, GotoWithRuns DEF Pcs, Locking
    <2>2. LockInv'
      BY <1>1, <2>1 DEF Load, IInv, LockInv, LockSteps, OneRunHoldsTheLock, Owners, Locking,
                        Preparing, Executing, Runs
    <2> QED BY <2>1, <2>2, RunStepInv DEF Load, Waiting, IInv, TypeOK
  <1>5. CASE End(r)
    <2>1. RunsOK' /\ runs'[r].pc = "none" /\ \A q \in Runs \ {r} : runs'[q] = runs[q]
      BY <1>5, EndRuns
    <2>2. LockInv'
      BY <1>1, <2>1, OwnerStays DEF Load, Preparing, Executing
    <2> QED BY <2>1, <2>2, RunStepInv DEF Load, Waiting, IInv, TypeOK
  <1> QED BY <1>4, <1>5 DEF Load

\* A step of acquireLock moves the run, or gives up.  What it does to the lock
\* is right as long as the other run is not about it too.
LEMMA LockMoves ==
    ASSUME IInv, NEW r \in Runs, runs[r].pc \in Locking,
           NEW pc \in Locking \cup {"none", "locked"}, runs'[r].pc = pc,
           \A q \in Runs \ {r} : runs'[q] = runs[q],
           \/ /\ runs[r].pc # "write" /\ pc = "none" /\ lock' = lock
           \/ /\ runs[r].pc \in {"create", "recreate"} /\ pc = "write" /\ lock = "free" /\ lock' = r
           \/ /\ runs[r].pc = "create" /\ pc = "read" /\ lock' = lock
           \/ /\ runs[r].pc = "write" /\ pc = "locked"
              /\ lock' = IF lock = r THEN "held" ELSE lock
           \/ /\ runs[r].pc = "read" /\ lock # "held" /\ pc = "reap" /\ lock' = lock
           \/ /\ runs[r].pc = "reap" /\ pc = "recreate" /\ lock' = "free"
    PROVE  LockInv'
  <1> SUFFICES ASSUME ~LockRaces PROVE OneRunHoldsTheLock' /\ LockSteps'
    BY DEF LockInv
  <1>1. OneRunHoldsTheLock /\ LockSteps /\ lock \in {"free", "held", "stale"} \cup Runs
    BY DEF IInv, LockInv, TypeOK
  <1>2. OneRunHoldsTheLock'
    BY <1>1 DEF OneRunHoldsTheLock, LockSteps, Owners, Locking, Preparing, Executing, Runs
  <1>3. LockSteps'
    BY <1>1 DEF OneRunHoldsTheLock, LockSteps, Owners, Locking, Preparing, Executing, Runs
  <1> QED BY <1>2, <1>3

\* What such a step leaves alone.
LEMMA LockStepInv ==
    ASSUME IInv, NEW r \in Runs, RunsOK', LockInv', RunOnly, Waiting, UNCHANGED <<file, tree>>,
           lock' \in {"free", "held", "stale"} \cup Runs
    PROVE  IInv'
    BY RunStepInv DEF Waiting, IInv, TypeOK

LEMMA CreateLockInv == ASSUME NEW r \in Runs, IInv, CreateLock(r) PROVE IInv'
  <1>1. /\ runs[r].pc \in {"create", "recreate"} /\ runs[r].pc \in Locking /\ runs[r].pc # "none"
        /\ RunOnly /\ Waiting /\ UNCHANGED <<file, tree>>
        /\ lock \in {"free", "held", "stale"} \cup Runs
    BY DEF CreateLock, At, Locking, IInv, TypeOK
  <1>2. CASE lock = "free"
    <2>1. lock' = r /\ Goto(r, "write")
      BY <1>2 DEF CreateLock
    <2>2. RunsOK' /\ runs'[r].pc = "write" /\ \A q \in Runs \ {r} : runs'[q] = runs[q]
      BY <1>1, <2>1, GotoRuns DEF Pcs, Locking
    <2>3. LockInv'
      BY <1>1, <1>2, <2>1, <2>2, LockMoves DEF Locking
    <2> QED BY <1>1, <2>1, <2>2, <2>3, LockStepInv
  <1>3. CASE lock # "free" /\ runs[r].pc = "create"
    <2>1. lock' = lock /\ Goto(r, "read")
      BY <1>3 DEF CreateLock
    <2>2. RunsOK' /\ runs'[r].pc = "read" /\ \A q \in Runs \ {r} : runs'[q] = runs[q]
      BY <1>1, <2>1, GotoRuns DEF Pcs, Locking
    <2>3. LockInv'
      BY <1>1, <1>3, <2>1, <2>2, LockMoves DEF Locking
    <2> QED BY <1>1, <2>1, <2>2, <2>3, LockStepInv
  <1>4. CASE lock # "free" /\ runs[r].pc = "recreate"
    <2>1. lock' = lock /\ End(r)
      BY <1>4 DEF CreateLock
    <2>2. RunsOK' /\ runs'[r].pc = "none" /\ \A q \in Runs \ {r} : runs'[q] = runs[q]
      BY <2>1, EndRuns
    <2>3. LockInv'
      BY <1>1, <1>4, <2>1, <2>2, LockMoves
    <2> QED BY <1>1, <2>1, <2>2, <2>3, LockStepInv
  <1> QED BY <1>1, <1>2, <1>3, <1>4

LEMMA WriteLockInv == ASSUME NEW r \in Runs, IInv, WriteLock(r) PROVE IInv'
  <1>1. /\ runs[r].pc = "write" /\ runs[r].pc \in Locking /\ runs[r].pc # "none"
        /\ RunOnly /\ Waiting /\ UNCHANGED <<file, tree>>
        /\ lock \in {"free", "held", "stale"} \cup Runs
        /\ lock' = (IF lock = r THEN "held" ELSE lock) /\ Goto(r, "locked")
    BY DEF WriteLock, At, Locking, IInv, TypeOK
  <1>2. RunsOK' /\ runs'[r].pc = "locked" /\ \A q \in Runs \ {r} : runs'[q] = runs[q]
    BY <1>1, GotoRuns DEF Pcs, Preparing
  <1>3. LockInv'
    BY <1>1, <1>2, LockMoves
  <1> QED BY <1>1, <1>2, <1>3, LockStepInv

LEMMA ReadLockInv == ASSUME NEW r \in Runs, IInv, ReadLock(r) PROVE IInv'
  <1>1. /\ runs[r].pc = "read" /\ runs[r].pc \in Locking /\ runs[r].pc # "none"
        /\ RunOnly /\ Waiting /\ UNCHANGED <<file, tree, lock>>
        /\ lock \in {"free", "held", "stale"} \cup Runs
    BY DEF ReadLock, At, Locking, IInv, TypeOK
  <1>2. CASE HolderIsLive
    <2>1. End(r)
      BY <1>2 DEF ReadLock
    <2>2. RunsOK' /\ runs'[r].pc = "none" /\ \A q \in Runs \ {r} : runs'[q] = runs[q]
      BY <2>1, EndRuns
    <2>3. LockInv'
      BY <1>1, <2>2, LockMoves
    <2> QED BY <1>1, <2>2, <2>3, LockStepInv
  <1>3. CASE ~HolderIsLive
    <2>1. Goto(r, "reap") /\ lock # "held"
      BY <1>3 DEF ReadLock, HolderIsLive
    <2>2. RunsOK' /\ runs'[r].pc = "reap" /\ \A q \in Runs \ {r} : runs'[q] = runs[q]
      BY <1>1, <2>1, GotoRuns DEF Pcs, Locking
    <2>3. LockInv'
      BY <1>1, <2>1, <2>2, LockMoves DEF Locking
    <2> QED BY <1>1, <2>2, <2>3, LockStepInv
  <1> QED BY <1>2, <1>3

LEMMA ReapLockInv == ASSUME NEW r \in Runs, IInv, ReapLock(r) PROVE IInv'
  <1>1. /\ runs[r].pc = "reap" /\ runs[r].pc \in Locking /\ runs[r].pc # "none"
        /\ RunOnly /\ Waiting /\ UNCHANGED <<file, tree>> /\ lock' = "free" /\ Goto(r, "recreate")
    BY DEF ReapLock, At, Locking
  <1>2. RunsOK' /\ runs'[r].pc = "recreate" /\ \A q \in Runs \ {r} : runs'[q] = runs[q]
    BY <1>1, GotoRuns DEF Pcs, Locking
  <1>3. LockInv'
    BY <1>1, <1>2, LockMoves DEF Locking
  <1> QED BY <1>1, <1>2, <1>3, LockStepInv

LEMMA SavePreflightInv == ASSUME NEW r \in Runs, IInv, SavePreflight(r) PROVE IInv'
  <1>1. runs[r].pc = "locked" /\ runs[r].st \in State /\ file' = runs[r].st /\ Goto(r, "preflight")
    BY DEF SavePreflight, At, Save, IInv, TypeOK
  <1>2. RunsOK' /\ runs'[r].pc = "preflight" /\ \A q \in Runs \ {r} : runs'[q] = runs[q]
    BY <1>1, GotoRuns DEF Pcs, Preparing
  <1>3. LockInv'
    BY <1>1, <1>2, OwnerStays DEF SavePreflight, Preparing
  <1> QED BY <1>1, <1>2, <1>3, RunStepInv DEF SavePreflight, Waiting, IInv, TypeOK

LEMMA PreflightFailsInv == ASSUME NEW r \in Runs, IInv, PreflightFails(r) PROVE IInv'
  <1>1. runs[r].pc # "none"
    BY DEF PreflightFails, At
  <1>2. file' \in State
    <2>1. WithStatus(runs[r].st, "preflight-failed", Target(r), 0) \in State
      BY <1>1, RunState, WithStatusTyped DEF Statuses
    <2> QED BY <2>1 DEF PreflightFails, Save
  <1>3. /\ RunsOK'
        /\ runs'[r].pc = "none"
        /\ \A q \in Runs \ {r} : runs'[q] = runs[q]
    BY EndRuns DEF PreflightFails, Release
  <1>4. LockInv'
    BY <1>3, OwnerStays DEF PreflightFails, At, Preparing, Executing, Release
  <1> QED BY <1>2, <1>3, <1>4, RunStepInv
        DEF PreflightFails, Waiting, RunOnly, Release, IInv, TypeOK

LEMMA PreflightPassesInv == ASSUME NEW r \in Runs, IInv, PreflightPasses(r) PROVE IInv'
  <1>1. runs[r].pc = "preflight"
    BY DEF PreflightPasses, At
  <1>2. CASE StillInPreflight(r)
    <2>1. RunsOK' /\ runs'[r].pc = "opening" /\ \A q \in Runs \ {r} : runs'[q] = runs[q]
      BY <1>1, <1>2, GotoRuns DEF PreflightPasses, Pcs, Preparing
    <2>2. LockInv'
      BY <1>1, <1>2, <2>1, OwnerStays DEF PreflightPasses, Preparing, Executing
    <2> QED BY <1>2, <2>1, <2>2, RunStepInv DEF PreflightPasses, IInv, TypeOK
  <1>3. CASE ~StillInPreflight(r)
    <2>1. RunsOK' /\ runs'[r].pc = "none" /\ \A q \in Runs \ {r} : runs'[q] = runs[q]
      BY <1>3, EndRuns DEF PreflightPasses, Release
    <2>2. LockInv'
      BY <1>1, <1>3, <2>1, OwnerStays DEF PreflightPasses, Release, Preparing, Executing
    <2> QED BY <1>3, <2>1, <2>2, RunStepInv DEF PreflightPasses, Release, IInv, TypeOK
  <1> QED BY <1>2, <1>3

LEMMA SaveDrainingInv == ASSUME NEW r \in Runs, IInv, SaveDraining(r) PROVE IInv'
  <1>1. runs[r].pc # "none"
    BY DEF SaveDraining, At
  <1>2. file' \in State
    <2>1. WithStatus(runs[r].st, "draining", Target(r), 0) \in State
      BY <1>1, RunState, WithStatusTyped DEF Statuses
    <2> QED BY <2>1 DEF SaveDraining, Save
  <1>3. /\ RunsOK'
        /\ runs'[r].pc = "opened"
        /\ \A q \in Runs \ {r} : runs'[q] = runs[q]
    BY <1>1, GotoRuns DEF SaveDraining, Pcs, Preparing, Executing
  <1>4. LockInv'
    BY <1>3, OwnerStays DEF SaveDraining, At, Preparing, Executing
  <1> QED BY <1>2, <1>3, <1>4, RunStepInv DEF SaveDraining, Waiting, RunOnly, Release, IInv, TypeOK

LEMMA StartDrainInv == ASSUME NEW r \in Runs, IInv, StartDrain(r) PROVE IInv'
  <1>1. runs[r].pc # "none"
    BY DEF StartDrain, At
  <1>2. file' \in State
    BY DEF StartDrain, RunOnly, IInv, TypeOK
  <1>3. /\ RunsOK'
        /\ runs'[r].pc = "drain"
        /\ \A q \in Runs \ {r} : runs'[q] = runs[q]
    BY <1>1, GotoRuns DEF StartDrain, Pcs, Preparing, Executing
  <1>4. LockInv'
    BY <1>3, OwnerStays DEF StartDrain, At, Preparing, Executing
  <1> QED BY <1>2, <1>3, <1>4, RunStepInv DEF StartDrain, Waiting, RunOnly, Release, IInv, TypeOK

LEMMA DrainEndsInv == ASSUME NEW r \in Runs, IInv, DrainEnds(r) PROVE IInv'
  <1>1. runs[r].pc # "none"
    BY DEF DrainEnds, At
  <1>2. file' \in State
    BY DEF DrainEnds, RunOnly, IInv, TypeOK
  <1>3. /\ RunsOK'
        /\ runs'[r].pc = "readSha"
        /\ \A q \in Runs \ {r} : runs'[q] = runs[q]
    <2>1. loadState \in State
      BY LoadTyped DEF IInv, TypeOK
    <2>2. /\ [loadState EXCEPT !.tag = Target(r)] \in State
          /\ [loadState EXCEPT !.tag = Target(r)].tag \in Versions
      BY <1>1, <2>1, RunState DEF State
    <2> QED BY <2>2, GotoWithRuns DEF DrainEnds, Pcs, Executing
  <1>4. LockInv'
    BY <1>3, OwnerStays DEF DrainEnds, At, Preparing, Executing
  <1> QED BY <1>2, <1>3, <1>4, RunStepInv DEF DrainEnds, Waiting, RunOnly, Release, IInv, TypeOK

LEMMA DrainCanceledInv == ASSUME NEW r \in Runs, IInv, DrainCanceled(r) PROVE IInv'
  <1>1. runs[r].pc # "none"
    BY DEF DrainCanceled, At
  <1>2. file' \in State
    BY DEF DrainCanceled, RunOnly, IInv, TypeOK
  <1>3. /\ RunsOK'
        /\ runs'[r].pc = "none"
        /\ \A q \in Runs \ {r} : runs'[q] = runs[q]
    BY EndRuns DEF DrainCanceled, Release
  <1>4. LockInv'
    BY <1>3, OwnerStays DEF DrainCanceled, At, Preparing, Executing, Release
  <1> QED BY <1>2, <1>3, <1>4, RunStepInv DEF DrainCanceled, Waiting, RunOnly, Release, IInv, TypeOK

LEMMA SaveExecutingInv == ASSUME NEW r \in Runs, IInv, SaveExecuting(r) PROVE IInv'
  <1>1. runs[r].pc = "readSha"
    BY DEF SaveExecuting, At
  <1> DEFINE t == WithStatus(runs[r].st, "executing", Target(r), tree.code)
             s == [t EXCEPT !.boot = 0]
  <1>2. t \in State /\ t.tag = Target(r) /\ Target(r) \in Versions
    <2>1. "executing" \in Statuses
      BY DEF Statuses
    <2>2. runs[r].pc # "none"
      BY <1>1
    <2> QED BY <2>1, <2>2, RunState, WithStatusTyped
  <1>3. s \in State /\ s.tag \in Versions
    BY <1>2 DEF State
  <1>4. file' = s /\ GotoWith(r, "fetch", s)
    BY DEF SaveExecuting, Save
  <1>5. RunsOK' /\ runs'[r].pc = "fetch" /\ \A q \in Runs \ {r} : runs'[q] = runs[q]
    BY <1>3, <1>4, GotoWithRuns DEF Pcs, Executing
  <1>6. LockInv'
    BY <1>1, <1>5, OwnerStays DEF SaveExecuting, Preparing, Executing
  <1> QED BY <1>3, <1>4, <1>5, <1>6, RunStepInv DEF SaveExecuting, Waiting, IInv, TypeOK

LEMMA ExecutorThrowsInv == ASSUME NEW r \in Runs, IInv, ExecutorThrows(r) PROVE IInv'
  <1>1. runs[r].pc = "readSha"
    BY DEF ExecutorThrows, At
  <1>2. file' \in State
    <2>1. PICK sha \in {0, tree.code} :
            file' = [WithStatus(runs[r].st, "rolling-back", Target(r), sha) EXCEPT !.boot = 0]
      BY DEF ExecutorThrows, Save
    <2>2. WithStatus(runs[r].st, "rolling-back", Target(r), sha) \in State
      <3>1. sha \in 0 .. MaxVersion /\ "rolling-back" \in Statuses
        BY <1>1, RunState DEF Statuses
      <3> QED BY <1>1, <3>1, RunState, WithStatusTyped
    <2> QED BY <2>1, <2>2, BootZeroTyped
  <1>3. RunsOK' /\ runs'[r].pc = "failed" /\ \A q \in Runs \ {r} : runs'[q] = runs[q]
    BY <1>1, GotoRuns DEF ExecutorThrows, Pcs, Executing
  <1>4. LockInv'
    BY <1>1, <1>3, OwnerStays DEF ExecutorThrows, Preparing, Executing
  <1> QED BY <1>2, <1>3, <1>4, RunStepInv DEF ExecutorThrows, Waiting, IInv, TypeOK

LEMMA CommandInv ==
    ASSUME NEW r \in Runs, IInv,
           NEW pc \in Executing, NEW next \in Executing,
           NEW to \in [code : Versions, deps : 0 .. MaxVersion, ui : 0 .. MaxVersion],
           NEW otherwise \in [code : Versions, deps : 0 .. MaxVersion, ui : 0 .. MaxVersion],
           Command(r, pc, next, to, otherwise)
    PROVE  IInv'
  <1>1. runs[r].pc = pc /\ pc # "none" /\ lock' = lock /\ RunOnly /\ Waiting
    BY DEF Command, At, Executing
  <1>2. CASE tree' = to /\ Goto(r, next) /\ UNCHANGED file
    <2>1. RunsOK' /\ runs'[r].pc = next /\ \A q \in Runs \ {r} : runs'[q] = runs[q]
      BY <1>1, <1>2, GotoRuns DEF Pcs
    <2>2. LockInv'
      BY <1>1, <2>1, OwnerStays
    <2> QED BY <1>1, <1>2, <2>1, <2>2, RunStepInv DEF Waiting, IInv, TypeOK
  <1>3. CASE /\ tree' = otherwise
             /\ Save(WithStatus(runs[r].st, "rolling-back", Target(r), runs[r].st.sha))
             /\ Goto(r, "failed")
    <2>1. RunsOK' /\ runs'[r].pc = "failed" /\ \A q \in Runs \ {r} : runs'[q] = runs[q]
      BY <1>1, <1>3, GotoRuns DEF Pcs, Executing
    <2>2. LockInv'
      BY <1>1, <2>1, OwnerStays DEF Executing
    <2>3. file' \in State
      BY <1>1, <1>3, RunState, WithStatusTyped, Zenon DEF Statuses, Save
    <2> QED BY <1>1, <1>3, <2>1, <2>2, <2>3, RunStepInv DEF Waiting, IInv, TypeOK
  <1> QED BY <1>2, <1>3 DEF Command

LEMMA CommandsInv ==
    ASSUME NEW r \in Runs, IInv, Fetch(r) \/ Checkout(r) \/ Install(r) \/ Build(r)
    PROVE  IInv'
  <1> DEFINE Trees == [code : Versions, deps : 0 .. MaxVersion, ui : 0 .. MaxVersion]
  <1>1. /\ tree \in Trees
        /\ \A n \in {0, tree.code} : [tree EXCEPT !.deps = n] \in Trees
                                    /\ [tree EXCEPT !.ui = n] \in Trees
    BY UpdaterAssumption DEF IInv, TypeOK, Versions
  <1>2. CASE Fetch(r)
    BY <1>1, <1>2, CommandInv DEF Fetch, Executing
  <1>3. CASE Checkout(r)
    <2>1. Target(r) \in Versions
      BY <1>3, RunState DEF Checkout, Command, At
    <2>2. [tree EXCEPT !.code = Target(r)] \in Trees
      BY <1>1, <2>1
    <2> QED BY <1>1, <1>3, <2>2, CommandInv DEF Checkout, Executing
  <1>4. CASE Install(r)
    BY <1>1, <1>4, CommandInv DEF Install, Executing
  <1>5. CASE Build(r)
    BY <1>1, <1>5, CommandInv DEF Build, Executing
  <1> QED BY <1>2, <1>3, <1>4, <1>5

LEMMA FinishInv == ASSUME NEW r \in Runs, IInv, Finish(r) PROVE IInv'
  <1>1. runs[r].pc # "none"
    BY DEF Finish, At
  <1>2. "pending-verification" \in Statuses
    BY DEF Statuses
  <1>3. WithStatus(runs[r].st, "pending-verification", Target(r), runs[r].st.sha) \in State
    BY <1>1, <1>2, RunState, WithStatusTyped
  <1>4. file' \in State
    BY <1>3 DEF Finish, Save
  <1> QED BY <1>4, ExitInv DEF Finish, IInv, TypeOK

LEMMA AfterFailureInv == ASSUME NEW r \in Runs, IInv, AfterFailure(r) PROVE IInv'
  <1>1. runs[r].pc = "failed"
    BY DEF AfterFailure, At
  <1>2. loadState \in State /\ (loadState.status \in NeedsSha => loadState.sha \in Versions)
    BY LoadTyped DEF IInv, TypeOK
  <1>3. CASE RollsBack(loadState)
    <2>1. rb' = [pc |-> "checkout", st |-> loadState] /\ Goto(r, "rollback") /\ lock' = lock
      BY <1>3 DEF AfterFailure
    <2>2. RunsOK' /\ runs'[r].pc = "rollback" /\ \A q \in Runs \ {r} : runs'[q] = runs[q]
      BY <1>1, <2>1, GotoRuns DEF Pcs, Executing
    <2>3. LockInv'
      BY <1>1, <2>1, <2>2, OwnerStays DEF Executing
    <2>4. loadState.sha \in Versions
      BY <1>2, <1>3 DEF RollsBack, NeedsSha
    <2> QED BY <1>2, <2>1, <2>2, <2>3, <2>4
          DEF AfterFailure, Waiting, IInv, TypeOK, SourcesKnown, RunsOK
  <1>4. CASE ~RollsBack(loadState)
    <2>1. UNCHANGED rb /\ End(r) /\ lock' = "free"
      BY <1>4 DEF AfterFailure, Release
    <2>2. RunsOK' /\ runs'[r].pc = "none" /\ \A q \in Runs \ {r} : runs'[q] = runs[q]
      BY <2>1, EndRuns
    <2>3. LockInv'
      BY <1>1, <2>1, <2>2, OwnerStays DEF Preparing, Executing
    <2> QED BY <2>1, <2>2, <2>3 DEF AfterFailure, Waiting, IInv, TypeOK, SourcesKnown, RunsOK
  <1> QED BY <1>3, <1>4

LEMMA NextInv == IInv /\ [Next]_vars => IInv'
  <1> SUFFICES ASSUME IInv, [Next]_vars PROVE IInv'
    OBVIOUS
  <1>1. CASE \/ Boot \/ expressCreateServer \/ BackgroundWrite \/ markBootHealthy \/ HealthTimeout
    BY <1>1, BootInv, expressCreateServerInv, BackgroundWriteInv, markBootHealthyInv,
       HealthTimeoutInv
  <1>2. CASE Rollback
    BY <1>2, RollbackCheckoutInv, RollbackInstallInv, RollbackDoneInv, RollbackFailsInv
       DEF Rollback
  <1>3. CASE TimerFires \/ Apply \/ Cancel \/ CancelSaves \/ Acknowledge \/ Repair
    BY <1>3, TimerFiresInv, ApplyInv, CancelInv, CancelSavesInv, AcknowledgeInv, RepairInv
  <1>4. CASE \E v \in Versions : performCheck(v)
    BY <1>4, performCheckInv
  <1>5. CASE \E r \in Runs : RunStep(r)
    <2> PICK r \in Runs : RunStep(r)
      BY <1>5
    <2>1. CASE ExecutorStep(r)
      BY <2>1, SaveExecutingInv, ExecutorThrowsInv, CommandsInv, FinishInv, AfterFailureInv
         DEF ExecutorStep
    <2> QED BY <2>1, LoadInv, CreateLockInv, WriteLockInv, ReadLockInv, ReapLockInv,
           SavePreflightInv, PreflightFailsInv, PreflightPassesInv, SaveDrainingInv,
           StartDrainInv, DrainEndsInv, DrainCanceledInv DEF RunStep, acquireLock
  <1>6. CASE Kill \/ Crash
    BY <1>6, KillInv, CrashInv
  <1>7. CASE UNCHANGED vars
    BY <1>7 DEF vars, IInv, TypeOK, SourcesKnown, LockInv, LockSteps, OneRunHoldsTheLock, Owners
  <1> QED BY <1>1, <1>2, <1>3, <1>4, <1>5, <1>6, <1>7 DEF Next

THEOREM Invariance == Spec => []IInv
    BY InitInv, NextInv, PTL DEF Spec

\* The state file, the process and its runs always have one of their shapes;
\* in particular a checkout always names a release and no boot is counted past
\* the crash-loop threshold (TypeOK of Updater).
THEOREM UpdaterTypeCorrect == Spec => []TypeOK
    BY Invariance, PTL DEF IInv

\* Two runs never change the tree or the state file at once: the lock is held
\* by exactly the run past acquireLock, however runs are started, canceled and
\* killed in the middle of it (applyPipeline, lock.ts).  This is all that the
\* lock does: two runs that are within acquireLock together may both pass it.
THEOREM OneUpdateAtATime == ASSUME ~LockRaces PROVE Spec => []OneRunHoldsTheLock
  <1>1. IInv => OneRunHoldsTheLock
    BY DEF IInv, LockInv
  <1> QED BY <1>1, Invariance, PTL

-----------------------------------------------------------------------------
(***************************************************************************)
(* What the state file says is true: a canceled update is never executed,  *)
(* and whenever nothing changes the working tree it is the one the file    *)
(* names.  This holds while polls end with the process's memory and the    *)
(* file in agreement, runs come to the lock one after the other, and       *)
(* cancel requests do not fall into the start of a run, its handovers or a *)
(* drain of the scheduler's; the README shows what each of them breaks.    *)
(***************************************************************************)
Orderly ==
    /\ StalePolls = FALSE
    /\ LockRaces = FALSE
    /\ Cancels \subseteq {"scheduled", "preflight", "draining"}

\* The stages up to acquireLock.
Outside == {"none", "load"} \cup Locking

(***************************************************************************)
(* The invariant: what a run, a cancel request, the health timer and the   *)
(* writes nobody awaits may rely on the file to say.                       *)
(***************************************************************************)
\* No run, timer or cancel request is under way.
Resting ==
    /\ \A r \in Runs : runs[r].pc = "none"
    /\ timer = 0 /\ cancel.pc = "none"

\* A process that is down or starting has nothing in memory.
Asleep ==
    proc.phase \in {"down", "starting"} =>
        Resting /\ ~health.armed /\ writes = <<>> /\ rb.pc = "none"

\* A state this boot may write for the release it verifies; only the last
\* write, after the timer is disarmed, says that it is verified.
Verdict(s, last) ==
    /\ s.tag = file.tag
    /\ \/ s.status = "pending-verification" /\ s.sha = file.sha
       \/ s.status = "verified" /\ last /\ ~health.armed

\* While a boot is verified, everything else waits.
Verification ==
    health.armed \/ writes # <<>> =>
        /\ Resting
        /\ file.status = "pending-verification" /\ file.sha # 0
        /\ health.armed => Verdict(health.st, FALSE)
        /\ \A i \in 1 .. Len(writes) : Verdict(writes[i], i = Len(writes))

\* The stages at which the run has saved `executing'.
Changing == {"fetch", "checkout", "install", "build", "finish"}

\* What the file says at each stage of a run, cancels included.
RunStatus(r) ==
    /\ runs[r].pc \in Locking \cup {"locked"} => runs[r].st.status = "preflight"
    /\ runs[r].canceled => \/ /\ runs[r].pc = "preflight"
                              /\ cancel.pc = "save" \/ file.status # "preflight"
                           \/ runs[r].pc = "drain" /\ drainer = "resolved"
    /\ runs[r].pc = "preflight" => file.status \in {"preflight", "idle", "scheduled"}
    /\ runs[r].pc = "opening" => file.status = "preflight" /\ drainer = "made"
    /\ runs[r].pc = "opened" => file.status = "draining" /\ drainer = "made"
    /\ runs[r].pc = "drain" =>
           \/ drainer = "running" /\ file.status = "draining"
           \/ drainer = "resolved" /\ file.status \in {"draining", "idle", "scheduled"}
    /\ runs[r].pc = "readSha" => file.status = "draining"
    /\ runs[r].pc \in Changing =>
           file.status = "executing" /\ runs[r].st.sha # 0 /\ file.sha # 0
    /\ runs[r].pc = "failed" => file.status \in {"rolling-back", "idle", "scheduled"}
    /\ runs[r].pc = "rollback" => rb.pc # "none" /\ file.status = "rolling-back" /\ file.sha # 0

\* A cancel request that writes the file finds it and the runs as they were
\* when it was accepted, or idle.
CancelWaits ==
    cancel.pc = "save" =>
        /\ file.status \in CanceledFrom \cup {"idle"}
        /\ \A r \in Runs :
              /\ runs[r].pc \in {"none", "load", "preflight", "drain", "failed"}
              /\ runs[r].pc = "drain" => drainer = "resolved"

StatusInv == Asleep /\ Verification /\ CancelWaits /\ \A r \in Runs : RunStatus(r)

\* Of two runs only one is past acquireLock.
LEMMA OneOwner ==
    ASSUME Orderly, IInv, NEW r \in Runs, NEW q \in Runs \ {r},
           runs[r].pc \in Preparing \cup Executing
    PROVE  runs[q].pc \in Outside
    BY DEF Orderly, IInv, LockInv, TypeOK, OneRunHoldsTheLock, Owners, Pcs, Outside

LEMMA InitStatus == Init => StatusInv
    BY DEF Init, StatusInv, Asleep, Resting, Verification, CancelWaits, RunStatus, NoRun, NoCall,
           EmptyState, Changing, Locking

\* Nothing survives in memory that the file would have to agree with.
LEMMA ExitStatus == ASSUME Exit PROVE StatusInv'
    BY DEF Exit, StatusInv, Asleep, Resting, Verification, CancelWaits, RunStatus, NoRun, NoCall,
           EmptyState, Changing, Locking

\* A run that has ended, or only begins, relies on nothing.
LEMMA NotUnderWay ==
    ASSUME NEW r \in Runs, runs'[r].pc \in {"none", "load"}, ~runs'[r].canceled
    PROVE  RunStatus(r)'
    BY DEF RunStatus, Changing, Locking

LEMMA IdleStatus == \A s \in State : Idle(s).status = "idle" /\ Idle(s) \in State
  <1> SUFFICES ASSUME NEW s \in State PROVE Idle(s).status = "idle"
    BY IdleTyped
  <1> QED BY DEF Idle, WithStatus, State

\* What loadState answers is the file, or the empty state.
LEMMA LoadIsFile ==
    /\ loadState = file \/ loadState.status = "idle"
    /\ file.sha # 0 \/ file.status \notin NeedsSha => loadState = file
    BY DEF loadState, EmptyState

\* The start of the process.
LEMMA BootStatus == ASSUME IInv, StatusInv, Boot PROVE StatusInv'
    BY DEF Boot, StatusInv, Asleep, Resting, Verification, Verdict, CancelWaits, RunStatus,
           Changing, IInv, TypeOK

LEMMA expressCreateServerStatus ==
    ASSUME IInv, StatusInv, expressCreateServer PROVE StatusInv'
  <1> DEFINE s == loadState
             clear == Tier = "off" /\ s.status = "scheduled"
  <1>1. /\ Resting /\ ~health.armed /\ writes = <<>> /\ rb.pc = "none"
        /\ proc'.phase = "up" /\ UNCHANGED <<runs, cancel, drainer>>
    BY DEF expressCreateServer, StatusInv, Asleep, Resting, IInv, TypeOK
  <1>2. Asleep' /\ CancelWaits' /\ \A r \in Runs : RunStatus(r)'
    BY <1>1 DEF Asleep, Resting, CancelWaits, RunStatus, Changing, Locking, StatusInv
  <1>3. s \in State
    BY LoadTyped DEF IInv, TypeOK
  <1>4. CASE s.status = "pending-verification" /\ ~CrashLoop(s)
    <2>1. s = file /\ file.sha # 0 /\ file' = file /\ timer' = 0
      BY <1>4, LoadIsFile DEF expressCreateServer, loadState, EmptyState, NeedsSha
    <2>2. health' = [armed |-> TRUE, st |-> Counted(s)] /\ writes' = <<Counted(s)>>
      BY <1>1, <1>4 DEF expressCreateServer, checkPendingVerification
    <2>3. /\ Counted(s).status = s.status /\ Counted(s).tag = s.tag /\ Counted(s).sha = s.sha
      BY <1>3 DEF Counted, State
    <2>4. Verification'
      BY <1>1, <1>4, <2>1, <2>2, <2>3 DEF Verification, Verdict, Resting
    <2> QED BY <1>2, <2>4 DEF StatusInv
  <1>5. CASE ~(s.status = "pending-verification" /\ ~CrashLoop(s))
    <2>1. UNCHANGED <<health, writes>>
      BY <1>5 DEF expressCreateServer, checkPendingVerification
    <2>2. Verification'
      BY <1>1, <2>1 DEF Verification
    <2> QED BY <1>2, <2>2 DEF StatusInv
  <1> QED BY <1>4, <1>5

LEMMA BackgroundWriteStatus ==
    ASSUME IInv, StatusInv, BackgroundWrite PROVE StatusInv'
  <1>1. /\ Resting /\ file.status = "pending-verification" /\ file.sha # 0
        /\ health.armed => Verdict(health.st, FALSE)
        /\ \A i \in 1 .. Len(writes) : Verdict(writes[i], i = Len(writes))
    BY DEF BackgroundWrite, StatusInv, Verification
  <1>2. /\ writes \in Seq(State) /\ writes # <<>> /\ file' = writes[1] /\ writes' = Tail(writes)
        /\ UNCHANGED <<proc, runs, timer, drainer, cancel, health, rb>>
    BY DEF BackgroundWrite, IInv, TypeOK
  <1>3. /\ Len(writes) \in Nat \ {0} /\ Len(writes') = Len(writes) - 1
        /\ \A i \in 1 .. Len(writes') : i + 1 \in 1 .. Len(writes) /\ writes'[i] = writes[i + 1]
    BY <1>2
  <1>4. Verdict(writes[1], 1 = Len(writes))
    BY <1>1, <1>3
  <1>5. Asleep' /\ CancelWaits' /\ \A r \in Runs : RunStatus(r)'
    BY <1>1, <1>2 DEF StatusInv, Asleep, Resting, CancelWaits, RunStatus, Changing
  <1>6. CASE writes[1].status = "verified"
    <2>1. Len(writes') = 0 /\ writes' = <<>> /\ ~health'.armed
      BY <1>2, <1>3, <1>4, <1>6 DEF Verdict
    <2> QED BY <1>5, <2>1, Zenon DEF StatusInv, Verification
  <1>7. CASE writes[1].status = "pending-verification"
    <2>1. file'.status = file.status /\ file'.tag = file.tag /\ file'.sha = file.sha
      BY <1>1, <1>2, <1>4, <1>7 DEF Verdict
    <2>2. \A i \in 1 .. Len(writes') : Verdict(writes[i], i = Len(writes))'
      <3> TAKE i \in 1 .. Len(writes')
      <3>1. i + 1 \in 1 .. Len(writes) /\ (i + 1 = Len(writes)) = (i = Len(writes'))
        BY <1>3
      <3>2. Verdict(writes[i + 1], i + 1 = Len(writes))
        BY <1>1, <3>1
      <3> QED BY <1>2, <1>3, <2>1, <3>1, <3>2, Zenon DEF Verdict
    <2>3. Verification'
      BY <1>1, <1>2, <1>3, <2>1, <2>2, Zenon DEF Verification, Verdict, Resting
    <2> QED BY <1>5, <2>3 DEF StatusInv
  <1> QED BY <1>4, <1>6, <1>7 DEF Verdict

LEMMA markBootHealthyStatus ==
    ASSUME IInv, StatusInv, markBootHealthy PROVE StatusInv'
  <1>1. /\ file' = file /\ proc'.phase = "healthy" /\ ~health'.armed
        /\ UNCHANGED <<runs, timer, drainer, cancel, rb>>
    BY DEF markBootHealthy, IInv, TypeOK
  <1>2. Asleep' /\ CancelWaits' /\ \A r \in Runs : RunStatus(r)'
    BY <1>1 DEF StatusInv, Asleep, CancelWaits, RunStatus
  <1>3. CASE ~health.armed
    <2>1. writes' = writes
      BY <1>3 DEF markBootHealthy
    <2> QED BY <1>1, <1>2, <1>3, <2>1 DEF StatusInv, Verification, Verdict, Resting
  <1>4. CASE health.armed
    <2>1. /\ Resting /\ file.status = "pending-verification" /\ file.sha # 0
          /\ Verdict(health.st, FALSE)
          /\ \A i \in 1 .. Len(writes) : Verdict(writes[i], i = Len(writes))
      BY <1>4 DEF StatusInv, Verification
    <2> DEFINE v == verified(health.st)
    <2>2. v.status = "verified" /\ v.tag = file.tag
      <3>1. health.st \in State /\ health.st.tag = file.tag
        BY <2>1 DEF IInv, TypeOK, Verdict
      <3> QED BY <3>1 DEF verified, WithStatus, State
    <2>3. writes' = Append(writes, v) /\ writes \in Seq(State)
      BY <1>4 DEF markBootHealthy, markVerified, IInv, TypeOK
    <2>4. /\ Len(writes) \in Nat /\ Len(writes') = Len(writes) + 1
          /\ writes'[Len(writes) + 1] = v
          /\ \A i \in 1 .. Len(writes) : writes'[i] = writes[i]
      BY <2>3
    <2>5. \A i \in 1 .. Len(writes) : Verdict(writes[i], FALSE)
      BY <1>4, <2>1 DEF Verdict
    <2>6. \A i \in 1 .. Len(writes') : Verdict(writes[i], i = Len(writes))'
      <3> TAKE i \in 1 .. Len(writes')
      <3>1. CASE i \in 1 .. Len(writes)
        BY <1>1, <2>4, <2>5, <3>1 DEF Verdict
      <3>2. CASE i = Len(writes) + 1
        BY <1>1, <2>2, <2>4, <3>2 DEF Verdict
      <3> QED BY <2>4, <3>1, <3>2
    <2>7. Verification'
      BY <1>1, <2>1, <2>6 DEF Verification, Resting
    <2> QED BY <1>2, <2>7 DEF StatusInv
  <1> QED BY <1>3, <1>4

LEMMA HealthTimeoutStatus ==
    ASSUME IInv, StatusInv, HealthTimeout PROVE StatusInv'
  <1>1. /\ UNCHANGED <<file, proc, runs, timer, drainer, cancel, health, writes>>
        /\ health.armed /\ rb'.pc # "none"
    BY DEF HealthTimeout
  <1> QED BY <1>1 DEF StatusInv, Asleep, Resting, Verification, Verdict, CancelWaits, RunStatus

\* The steps of performRollback; its last one ends the process.
LEMMA RollbackStatus == ASSUME IInv, StatusInv, Rollback PROVE StatusInv'
  <1>1. CASE RollbackCheckout \/ RollbackInstall
    <2>1. /\ UNCHANGED <<file, proc, runs, timer, drainer, cancel, health, writes>>
          /\ rb.pc # "none" /\ rb'.pc # "none"
      BY <1>1 DEF RollbackCheckout, RollbackInstall, RollbackStep, IInv, TypeOK
    <2> QED BY <2>1 DEF StatusInv, Asleep, Resting, Verification, Verdict, CancelWaits,
               RunStatus
  <1>2. CASE RollbackDone \/ RollbackFails
    <2>1. PICK status \in {"rolled-back", "rollback-failed"} : RollBackTo(status)
      BY <1>2 DEF RollbackDone, RollbackFails
    <2>2. Exit /\ file' = [WithStatus(rb.st, status, rb.st.tag, rb.st.sha) EXCEPT !.boot = 0]
      BY <2>1 DEF RollBackTo
    <2>3. file'.status = status
      <3>1. rb.st \in State
        BY DEF IInv, TypeOK
      <3> QED BY <2>2, <3>1 DEF WithStatus, State
    <2> QED BY <2>2, <2>3, ExitStatus
  <1> QED BY <1>1, <1>2 DEF Rollback

\* A poll decides on the file, not on an older copy of it: it schedules, or
\* clears a schedule, and leaves every other execution as it is.
LEMMA PollSaves ==
    ASSUME Orderly, NEW v \in Versions, IInv, performCheck(v)
    PROVE  /\ mem = loadState /\ writes = <<>> /\ cancel.pc = "none" /\ Up
           /\ UNCHANGED <<tree, proc, runs, drainer, cancel, health, writes, rb>>
           /\ \/ /\ file'.status = file.status /\ file'.tag = file.tag /\ file'.sha = file.sha
                 /\ loadState = file
              \/ /\ loadState.status \in {"idle", "scheduled", "verified"}
                 /\ file'.status \in {"idle", "scheduled"}
              \/ /\ file.sha = 0 /\ file.status \in NeedsSha
                 /\ file'.status \in {"idle", "scheduled"}
           /\ timer' = IF file'.status = "scheduled" /\ (mem.status # "scheduled" \/ mem.tag # file'.tag)
                       THEN file'.tag
                       ELSE IF mem.status = "scheduled" /\ file'.status = "idle" THEN 0 ELSE timer
  <1> DEFINE m == [mem EXCEPT !.latest = v]
             s == decideSchedule(m)
  <1>1. /\ mem = loadState /\ writes = <<>> /\ cancel.pc = "none" /\ Up
        /\ UNCHANGED <<tree, proc, runs, drainer, cancel, health, writes, rb>>
    BY DEF performCheck, Orderly
  <1>2. file' = s /\ timer' = (IF s.status = "scheduled" /\ (mem.status # "scheduled" \/ mem.tag # s.tag)
                THEN s.tag
                ELSE IF mem.status = "scheduled" /\ s.status = "idle" THEN 0 ELSE timer)
    BY DEF performCheck
  <1>3. /\ loadState \in State /\ m \in State
        /\ m.status = loadState.status /\ m.tag = loadState.tag /\ m.sha = loadState.sha
    <2>1. loadState \in State /\ v \in 0 .. MaxVersion
      BY LoadTyped, UpdaterAssumption DEF IInv, TypeOK, Versions
    <2> QED BY <1>1, <2>1 DEF State
  <1>4. \/ s = m
        \/ m.status \in {"idle", "scheduled", "verified"} /\ s.status \in {"idle", "scheduled"}
    BY <1>3, IdleStatus DEF decideSchedule, WithStatus, State
  <1>5. \/ /\ file'.status = file.status /\ file'.tag = file.tag /\ file'.sha = file.sha
           /\ loadState = file
        \/ /\ loadState.status \in {"idle", "scheduled", "verified"}
           /\ file'.status \in {"idle", "scheduled"}
        \/ /\ file.sha = 0 /\ file.status \in NeedsSha
           /\ file'.status \in {"idle", "scheduled"}
    BY <1>2, <1>3, <1>4, LoadIsFile DEF loadState, EmptyState
  <1> QED BY <1>1, <1>2, <1>5

LEMMA performCheckStatus ==
    ASSUME Orderly, NEW v \in Versions, IInv, StatusInv, performCheck(v)
    PROVE  StatusInv'
  <1>1. /\ mem = loadState /\ writes = <<>> /\ cancel.pc = "none" /\ Up
        /\ UNCHANGED <<tree, proc, runs, drainer, cancel, health, writes, rb>>
    BY PollSaves
  <1>2. timer' = IF file'.status = "scheduled" /\ (mem.status # "scheduled" \/ mem.tag # file'.tag)
                 THEN file'.tag
                 ELSE IF mem.status = "scheduled" /\ file'.status = "idle" THEN 0 ELSE timer
    BY PollSaves
  <1>3. \/ /\ file'.status = file.status /\ file'.tag = file.tag /\ file'.sha = file.sha
           /\ loadState = file
        \/ /\ loadState.status \in {"idle", "scheduled", "verified"}
           /\ file'.status \in {"idle", "scheduled"}
        \/ /\ file.sha = 0 /\ file.status \in NeedsSha
           /\ file'.status \in {"idle", "scheduled"}
    BY PollSaves
  <1>4. Asleep' /\ CancelWaits'
    BY <1>1 DEF Up, Asleep, CancelWaits
  <1>5. \A r \in Runs : RunStatus(r)'
    <2> SUFFICES ASSUME NEW r \in Runs PROVE RunStatus(r)'
      OBVIOUS
    <2>1. RunStatus(r)
      BY DEF StatusInv
    <2>2. loadState = file \/ (file.sha = 0 /\ file.status \in NeedsSha)
      BY LoadIsFile
    <2>3. CASE file'.status = file.status /\ file'.sha = file.sha
      BY <1>1, <2>1, <2>3 DEF RunStatus
    <2>4. CASE /\ file.status \in {"idle", "scheduled", "verified"}
               /\ file'.status \in {"idle", "scheduled"}
      BY <1>1, <2>1, <2>4 DEF RunStatus
    <2>5. CASE /\ file.sha = 0 /\ file.status \in NeedsSha
               /\ file'.status \in {"idle", "scheduled"}
      BY <1>1, <2>1, <2>5 DEF RunStatus, NeedsSha
    <2> QED BY <1>3, <2>2, <2>3, <2>4, <2>5
  <1>6. Verification'
    <2>1. CASE ~health.armed
      BY <1>1, <2>1 DEF Verification
    <2>2. CASE health.armed
      <3>1. /\ Resting /\ file.status = "pending-verification" /\ file.sha # 0
            /\ Verdict(health.st, FALSE)
        BY <2>2 DEF StatusInv, Verification
      <3>2. loadState = file /\ mem.status = "pending-verification"
        BY <1>1, <3>1, LoadIsFile
      <3>3. file'.status = file.status /\ file'.tag = file.tag /\ file'.sha = file.sha
        BY <1>3, <3>1, <3>2
      <3>4. timer' = timer
        BY <1>2, <3>1, <3>2, <3>3
      <3> QED BY <1>1, <3>1, <3>3, <3>4 DEF Verification, Verdict, Resting
    <2> QED BY <2>1, <2>2
  <1> QED BY <1>4, <1>5, <1>6 DEF StatusInv

LEMMA TimerFiresStatus ==
    ASSUME IInv, StatusInv, TimerFires PROVE StatusInv'
  <1> DEFINE s == loadState
  <1>1. /\ timer # 0 /\ timer' = 0 /\ runs["timer"].pc = "none"
        /\ UNCHANGED <<proc, drainer, cancel, health, writes, rb>>
    BY DEF TimerFires
  <1>2. file' = file \/ (file.status = "scheduled" /\ file'.status = "idle")
    <2>1. s \in State
      BY LoadTyped DEF IInv, TypeOK
    <2>2. Idle(s).status = "idle"
      BY <2>1, IdleStatus
    <2>3. s.status = "scheduled" => file.status = "scheduled"
      BY LoadIsFile
    <2> QED BY <2>2, <2>3 DEF TimerFires
  <1>3. /\ \A r \in Runs \ {"timer"} : runs'[r] = runs[r]
        /\ runs'["timer"].pc \in {"none", "load"} /\ ~runs'["timer"].canceled
    <2>1. ~runs["timer"].canceled
      BY <1>1 DEF StatusInv, RunStatus, Runs
    <2> QED BY <1>1, <2>1 DEF TimerFires, GotoWith, IInv, TypeOK, Runs
  <1>4. /\ ~Resting /\ ~health.armed /\ writes = <<>>
        /\ proc.phase \notin {"down", "starting"}
    BY <1>1 DEF StatusInv, Verification, Asleep, Resting
  <1>5. Asleep' /\ Verification'
    BY <1>1, <1>4 DEF Asleep, Verification
  <1>6. CancelWaits'
    BY <1>1, <1>2, <1>3 DEF StatusInv, CancelWaits
  <1>7. \A r \in Runs : RunStatus(r)'
    <2> SUFFICES ASSUME NEW r \in Runs PROVE RunStatus(r)'
      OBVIOUS
    <2>1. RunStatus(r)
      BY DEF StatusInv
    <2>2. CASE r = "timer"
      BY <1>3, <2>2, NotUnderWay
    <2>3. CASE r # "timer"
      BY <1>1, <1>2, <1>3, <2>1, <2>3 DEF RunStatus, Changing
    <2> QED BY <2>2, <2>3
  <1> QED BY <1>5, <1>6, <1>7 DEF StatusInv

\* The administrator's requests.  Nobody can apply while a boot is verified.
LEMMA ApplyStatus == ASSUME IInv, StatusInv, Apply PROVE StatusInv'
  <1>1. /\ Up /\ runs["admin"].pc = "none" /\ loadState.status \in AllowedEntry
        /\ timer' \in {0, timer}
        /\ UNCHANGED <<file, proc, drainer, cancel, health, writes, rb>>
    BY DEF Apply
  <1>2. /\ \A r \in Runs \ {"admin"} : runs'[r] = runs[r]
        /\ runs'["admin"].pc = "load" /\ ~runs'["admin"].canceled
    <2>1. ~runs["admin"].canceled
      BY <1>1 DEF StatusInv, RunStatus, Runs
    <2> QED BY <1>1, <2>1 DEF Apply, GotoWith, IInv, TypeOK, Runs
  <1>3. ~health.armed /\ writes = <<>>
    BY <1>1, LoadIsFile DEF StatusInv, Verification, AllowedEntry, NeedsSha
  <1>4. Asleep' /\ Verification' /\ CancelWaits'
    BY <1>1, <1>2, <1>3 DEF Up, Asleep, Verification, StatusInv, CancelWaits
  <1>5. \A r \in Runs : RunStatus(r)'
    <2> SUFFICES ASSUME NEW r \in Runs PROVE RunStatus(r)'
      OBVIOUS
    <2>1. RunStatus(r)
      BY DEF StatusInv
    <2>2. CASE r = "admin"
      BY <1>2, <2>2, NotUnderWay
    <2>3. CASE r # "admin"
      BY <1>1, <1>2, <2>1, <2>3 DEF RunStatus, Changing
    <2> QED BY <2>2, <2>3
  <1> QED BY <1>4, <1>5 DEF StatusInv

LEMMA CancelStatus ==
    ASSUME Orderly, IInv, StatusInv, Cancel PROVE StatusInv'
  <1> DEFINE drains == runs["admin"].pc \in {"opening", "opened", "drain"}
                       /\ drainer \in {"made", "running"}
  <1>1. /\ Up /\ loadState.status \in CanceledFrom
        /\ CancelSituation \in {"scheduled", "preflight", "draining"}
        /\ drainer' = (IF ~drains THEN drainer
                       ELSE IF drainer = "running" THEN "resolved" ELSE "cancelled")
        /\ UNCHANGED <<file, proc, health, writes, rb>> /\ cancel'.pc = "save"
    BY DEF Cancel, Orderly
  <1>2. file.status \in CanceledFrom /\ loadState = file
    BY <1>1, LoadIsFile DEF CanceledFrom
  <1>3. /\ \A r \in Runs : runs[r].pc \notin {"load", "locked"} \cup Locking
        /\ \A r \in Runs : runs[r].pc \notin {"opening", "opened", "readSha"}
        /\ runs["timer"].pc # "drain"
    BY <1>1 DEF CancelSituation
  <1>4. \A r \in Runs : runs[r].pc = "drain" => drainer' = "resolved" /\ r = "admin"
    <2> SUFFICES ASSUME NEW r \in Runs, runs[r].pc = "drain"
                 PROVE  drainer' = "resolved" /\ r = "admin"
      OBVIOUS
    <2>1. r = "admin"
      BY <1>3 DEF Runs
    <2>2. drainer \in {"running", "resolved"}
      BY DEF StatusInv, RunStatus
    <2> QED BY <1>1, <2>1, <2>2
  <1>5. Asleep' /\ Verification'
    BY <1>1, <1>2 DEF Up, Asleep, StatusInv, Verification, CanceledFrom
  <1>6. /\ \A r \in Runs : runs[r].pc \in {"none", "preflight", "drain", "failed"}
        /\ \A r \in Runs : /\ runs'[r].pc = runs[r].pc /\ runs'[r].st = runs[r].st
                           /\ runs[r].pc \in {"none", "failed"} => ~runs'[r].canceled
    <2> SUFFICES ASSUME NEW r \in Runs
                 PROVE  /\ runs[r].pc \in {"none", "preflight", "drain", "failed"}
                        /\ runs'[r].pc = runs[r].pc /\ runs'[r].st = runs[r].st
                        /\ runs[r].pc \in {"none", "failed"} => ~runs'[r].canceled
      OBVIOUS
    <2>1. RunStatus(r) /\ runs[r].pc \in Pcs
      BY DEF StatusInv, IInv, TypeOK
    <2>2. runs[r].pc \in {"none", "preflight", "drain", "failed"}
      BY <1>2, <1>3, <2>1 DEF RunStatus, CanceledFrom, Changing, Pcs, Preparing, Executing
    <2>3. runs[r].pc \in {"none", "failed"} => ~runs[r].canceled /\ runs[r].pc \notin Unexecuted
      BY <2>1 DEF RunStatus, Unexecuted, Locking, Preparing
    <2> QED BY <2>2, <2>3, CancelRuns
  <1>7. CancelWaits'
    BY <1>1, <1>2, <1>4, <1>6 DEF CancelWaits
  <1>8. \A r \in Runs : RunStatus(r)'
    <2> SUFFICES ASSUME NEW r \in Runs PROVE RunStatus(r)'
      OBVIOUS
    <2>1. RunStatus(r)
      BY DEF StatusInv
    <2>2. CASE runs[r].pc = "none"
      BY <1>6, <2>2, NotUnderWay
    <2>3. CASE runs[r].pc = "failed"
      BY <1>1, <1>6, <2>1, <2>3 DEF RunStatus, Changing, Locking
    <2>4. CASE runs[r].pc = "preflight"
      BY <1>1, <1>6, <2>1, <2>4 DEF RunStatus, Changing, Locking
    <2>5. CASE runs[r].pc = "drain"
      BY <1>1, <1>2, <1>4, <1>6, <2>5 DEF RunStatus, Changing, Locking, CanceledFrom, StatusInv
    <2> QED BY <1>6, <2>2, <2>3, <2>4, <2>5
  <1> QED BY <1>5, <1>7, <1>8 DEF StatusInv

LEMMA CancelSavesStatus ==
    ASSUME IInv, StatusInv, CancelSaves PROVE StatusInv'
  <1>1. /\ cancel.pc = "save" /\ cancel'.pc = "none" /\ file'.status = "idle"
        /\ UNCHANGED <<proc, runs, timer, drainer, health, writes, rb>>
    BY IdleStatus DEF CancelSaves, IInv, TypeOK, NoCall
  <1>2. /\ ~Resting /\ ~health.armed /\ writes = <<>>
        /\ proc.phase \notin {"down", "starting"}
    BY <1>1 DEF StatusInv, Verification, Asleep, Resting
  <1>3. \A r \in Runs : RunStatus(r)'
    <2> SUFFICES ASSUME NEW r \in Runs PROVE RunStatus(r)'
      OBVIOUS
    <2>1. /\ RunStatus(r) /\ runs[r].pc \in {"none", "load", "preflight", "drain", "failed"}
          /\ runs[r].pc = "drain" => drainer = "resolved"
      BY <1>1 DEF StatusInv, CancelWaits
    <2> QED BY <1>1, <2>1 DEF RunStatus, Changing, Locking
  <1> QED BY <1>1, <1>2, <1>3 DEF StatusInv, Asleep, Verification, CancelWaits

LEMMA AcknowledgeStatus ==
    ASSUME IInv, StatusInv, Acknowledge PROVE StatusInv'
  <1>1. /\ Up /\ loadState.status \in {"rollback-failed", "preflight-failed", "rolled-back"}
        /\ UNCHANGED <<proc, runs, timer, drainer, cancel, health, writes, rb>>
    BY DEF Acknowledge
  <1>2. file.status = loadState.status
    BY <1>1, LoadIsFile
  <1>3. file'.status = "idle"
    <2>1. Idle(loadState) \in State /\ Idle(loadState).status = "idle"
      BY IdleStatus, LoadTyped DEF IInv, TypeOK
    <2> QED BY <2>1 DEF Acknowledge, State
  <1>4. Asleep' /\ Verification' /\ CancelWaits'
    BY <1>1, <1>2, <1>3 DEF Up, StatusInv, Asleep, Verification, CancelWaits
  <1>5. \A r \in Runs : RunStatus(r)'
    <2> SUFFICES ASSUME NEW r \in Runs PROVE RunStatus(r)'
      OBVIOUS
    <2>1. RunStatus(r)
      BY DEF StatusInv
    <2> QED BY <1>1, <1>2, <1>3, <2>1 DEF RunStatus
  <1> QED BY <1>4, <1>5 DEF StatusInv

\* What ends the process and leaves the file alone.
LEMMA EndStatus ==
    ASSUME Repair \/ Kill \/ Crash PROVE StatusInv'
    BY ExitStatus DEF Repair, Kill, Crash

(***************************************************************************)
(* The steps of a run.  No cancel request is waiting, nothing else is past *)
(* acquireLock, and no boot is being verified.                             *)
(***************************************************************************)
LEMMA RunStepStatus ==
    ASSUME Orderly, IInv, StatusInv, NEW r \in Runs, Up, CancelSettled, runs[r].pc # "none",
           UNCHANGED <<proc, cancel, health, writes>>,
           \A q \in Runs \ {r} : runs'[q] = runs[q], RunStatus(r)',
           UNCHANGED <<file, drainer, rb>> \/ runs[r].pc \in Preparing \cup Executing
    PROVE  StatusInv'
  <1>1. cancel.pc = "none" /\ ~Resting /\ ~health.armed /\ writes = <<>>
    BY DEF Orderly, CancelSettled, StatusInv, Verification, Resting
  <1>2. Asleep' /\ Verification' /\ CancelWaits'
    BY <1>1 DEF Up, Asleep, Verification, CancelWaits
  <1>3. \A q \in Runs \ {r} : RunStatus(q)'
    <2> SUFFICES ASSUME NEW q \in Runs \ {r} PROVE RunStatus(q)'
      OBVIOUS
    <2>1. RunStatus(q) /\ runs'[q] = runs[q]
      BY DEF StatusInv
    <2>2. CASE UNCHANGED <<file, drainer, rb>>
      BY <2>1, <2>2 DEF RunStatus
    <2>3. CASE runs[r].pc \in Preparing \cup Executing
      <3>1. runs[q].pc \in Outside
        BY <2>3, OneOwner
      <3> QED BY <2>1, <3>1 DEF RunStatus, Changing, Outside, Locking
    <2> QED BY <2>2, <2>3
  <1> QED BY <1>2, <1>3 DEF StatusInv

LEMMA LoadStatus ==
    ASSUME Orderly, NEW r \in Runs, IInv, StatusInv, Load(r) PROVE StatusInv'
  <1>1. /\ runs[r].pc = "load" /\ Up /\ CancelSettled
        /\ UNCHANGED <<file, proc, cancel, health, writes, drainer, rb>>
    BY DEF Load, At, RunOnly, Waiting
  <1>2. /\ \A q \in Runs \ {r} : runs'[q] = runs[q]
        /\ RunStatus(r)'
    <2>1. CASE End(r)
      BY <2>1, EndRuns, NotUnderWay
    <2>2. CASE GotoWith(r, "create", WithStatus(loadState, "preflight", Target(r), 0))
      <3>1. loadState \in State /\ ~runs[r].canceled
        BY <1>1, LoadTyped DEF IInv, TypeOK, StatusInv, RunStatus
      <3>2. /\ runs'[r].pc = "create" /\ runs'[r].st.status = "preflight" /\ ~runs'[r].canceled
            /\ \A q \in Runs \ {r} : runs'[q] = runs[q]
        BY <2>2, <3>1 DEF GotoWith, WithStatus, State, IInv, TypeOK
      <3> QED BY <3>2 DEF RunStatus, Changing
    <2> QED BY <2>1, <2>2 DEF Load
  <1> QED BY <1>1, <1>2, RunStepStatus

\* The steps of acquireLock leave the file alone.
LEMMA acquireLockStatus ==
    ASSUME Orderly, NEW r \in Runs, IInv, StatusInv, acquireLock(r) PROVE StatusInv'
  <1>1. /\ runs[r].pc \in Locking /\ runs[r].pc # "none" /\ Up /\ CancelSettled
        /\ UNCHANGED <<file, proc, cancel, health, writes, drainer, rb>>
    BY DEF acquireLock, CreateLock, WriteLock, ReadLock, ReapLock, At, RunOnly, Waiting, Locking
  <1>2. runs[r].st.status = "preflight" /\ ~runs[r].canceled
    BY <1>1 DEF StatusInv, RunStatus, Locking
  <1>3. End(r) \/ \E pc \in Locking \cup {"locked"} : Goto(r, pc)
    BY DEF acquireLock, CreateLock, WriteLock, ReadLock, ReapLock, Locking
  <1>4. /\ \A q \in Runs \ {r} : runs'[q] = runs[q]
        /\ RunStatus(r)'
    <2>1. CASE End(r)
      BY <2>1, EndRuns, NotUnderWay
    <2>2. CASE \E pc \in Locking \cup {"locked"} : Goto(r, pc)
      <3> PICK pc \in Locking \cup {"locked"} : Goto(r, pc)
        BY <2>2
      <3>1. pc \in Pcs
        BY DEF Pcs, Preparing
      <3>2. /\ \A q \in Runs \ {r} : runs'[q] = runs[q]
            /\ runs'[r].pc = pc /\ runs'[r].st = runs[r].st /\ runs'[r].canceled = runs[r].canceled
        BY <1>1, <3>1, GotoRuns
      <3> QED BY <1>2, <3>2 DEF RunStatus, Locking, Changing
    <2> QED BY <1>3, <2>1, <2>2
  <1> QED BY <1>1, <1>4, RunStepStatus

LEMMA SavePreflightStatus ==
    ASSUME Orderly, NEW r \in Runs, IInv, StatusInv, SavePreflight(r) PROVE StatusInv'
  <1>1. /\ runs[r].pc = "locked" /\ Up /\ CancelSettled
        /\ UNCHANGED <<proc, cancel, health, writes, drainer, rb>>
        /\ Goto(r, "preflight") /\ file' = runs[r].st
    BY DEF SavePreflight, At, RunOnly, Waiting, Save
  <1>2. runs[r].st.status = "preflight" /\ ~runs[r].canceled
    BY <1>1 DEF StatusInv, RunStatus
  <1>3. /\ \A q \in Runs \ {r} : runs'[q] = runs[q]
        /\ runs'[r].pc = "preflight" /\ ~runs'[r].canceled
    BY <1>1, <1>2, GotoRuns DEF Pcs, Preparing
  <1>4. RunStatus(r)'
    BY <1>1, <1>2, <1>3 DEF RunStatus, Changing, Locking
  <1> QED BY <1>1, <1>3, <1>4, RunStepStatus DEF Preparing

LEMMA PreflightFailsStatus ==
    ASSUME Orderly, NEW r \in Runs, IInv, StatusInv, PreflightFails(r)
    PROVE  StatusInv'
  <1>1. /\ runs[r].pc = "preflight" /\ Up /\ CancelSettled
        /\ UNCHANGED <<proc, cancel, health, writes, drainer, rb>>
        /\ End(r)
    BY DEF PreflightFails, At, RunOnly, Waiting, Release
  <1>2. /\ \A q \in Runs \ {r} : runs'[q] = runs[q]
        /\ RunStatus(r)'
    BY <1>1, EndRuns, NotUnderWay
  <1>3. file'.status = "preflight-failed"
    <2>1. runs[r].st \in State
      BY DEF IInv, TypeOK
    <2> QED BY <2>1 DEF PreflightFails, Save, WithStatus, State
  <1> QED BY <1>1, <1>2, <1>3, RunStepStatus DEF Preparing

LEMMA PreflightPassesStatus ==
    ASSUME Orderly, NEW r \in Runs, IInv, StatusInv, PreflightPasses(r)
    PROVE  StatusInv'
  <1>1. /\ runs[r].pc = "preflight" /\ Up /\ CancelSettled
        /\ UNCHANGED <<file, proc, cancel, health, writes, rb>>
    BY DEF PreflightPasses, At, RunOnly
  <1>2. /\ \A q \in Runs \ {r} : runs'[q] = runs[q]
        /\ RunStatus(r)'
    <2>1. CASE StillInPreflight(r)
      <3>1. file.status = "preflight" /\ ~runs[r].canceled
        <4>1. file.status = "preflight" /\ cancel.pc = "none"
          BY <1>1, <2>1, LoadIsFile DEF StillInPreflight, CancelSettled, Orderly
        <4> QED BY <1>1, <4>1 DEF StatusInv, RunStatus
      <3>2. Goto(r, "opening") /\ drainer' = "made"
        BY <2>1 DEF PreflightPasses
      <3>3. /\ \A q \in Runs \ {r} : runs'[q] = runs[q]
            /\ runs'[r].pc = "opening" /\ ~runs'[r].canceled
        BY <1>1, <3>1, <3>2, GotoRuns DEF Pcs, Preparing
      <3> QED BY <1>1, <3>1, <3>2, <3>3 DEF RunStatus, Changing, Locking
    <2>2. CASE ~StillInPreflight(r)
      <3>1. End(r)
        BY <2>2 DEF PreflightPasses, Release
      <3> QED BY <3>1, EndRuns, NotUnderWay
    <2> QED BY <2>1, <2>2
  <1> QED BY <1>1, <1>2, RunStepStatus DEF Preparing

LEMMA SaveDrainingStatus ==
    ASSUME Orderly, NEW r \in Runs, IInv, StatusInv, SaveDraining(r)
    PROVE  StatusInv'
  <1>1. /\ runs[r].pc = "opening" /\ Up /\ CancelSettled
        /\ UNCHANGED <<proc, cancel, health, writes, drainer, rb>>
        /\ Goto(r, "opened")
    BY DEF SaveDraining, At, RunOnly, Waiting
  <1>2. file.status = "preflight" /\ drainer = "made" /\ ~runs[r].canceled
    BY <1>1 DEF StatusInv, RunStatus
  <1>3. file'.status = "draining"
    <2>1. runs[r].st \in State
      BY DEF IInv, TypeOK
    <2> QED BY <2>1 DEF SaveDraining, Save, WithStatus, State
  <1>4. /\ \A q \in Runs \ {r} : runs'[q] = runs[q]
        /\ runs'[r].pc = "opened" /\ ~runs'[r].canceled
    BY <1>1, <1>2, GotoRuns DEF Pcs, Preparing
  <1>5. RunStatus(r)'
    BY <1>1, <1>2, <1>3, <1>4 DEF RunStatus, Changing, Locking
  <1> QED BY <1>1, <1>2, <1>4, <1>5, RunStepStatus DEF Preparing

LEMMA StartDrainStatus ==
    ASSUME Orderly, NEW r \in Runs, IInv, StatusInv, StartDrain(r)
    PROVE  StatusInv'
  <1>1. /\ runs[r].pc = "opened" /\ Up /\ CancelSettled
        /\ UNCHANGED <<file, proc, cancel, health, writes, rb>>
        /\ Goto(r, "drain")
        /\ drainer' = (IF drainer = "made" THEN "running" ELSE drainer)
    BY DEF StartDrain, At, RunOnly
  <1>2. file.status = "draining" /\ drainer = "made" /\ ~runs[r].canceled
    BY <1>1 DEF StatusInv, RunStatus
  <1>3. /\ \A q \in Runs \ {r} : runs'[q] = runs[q]
        /\ runs'[r].pc = "drain" /\ ~runs'[r].canceled
    BY <1>1, <1>2, GotoRuns DEF Pcs, Preparing
  <1>4. RunStatus(r)'
    BY <1>1, <1>2, <1>3 DEF RunStatus, Changing, Locking
  <1> QED BY <1>1, <1>3, <1>4, RunStepStatus DEF Preparing

LEMMA DrainEndsStatus ==
    ASSUME Orderly, NEW r \in Runs, IInv, StatusInv, DrainEnds(r)
    PROVE  StatusInv'
  <1>1. /\ runs[r].pc = "drain" /\ drainer = "running" /\ Up /\ CancelSettled
        /\ UNCHANGED <<file, proc, cancel, health, writes, rb>>
        /\ GotoWith(r, "readSha", [loadState EXCEPT !.tag = Target(r)])
    BY DEF DrainEnds, At, RunOnly
  <1>2. file.status = "draining" /\ ~runs[r].canceled
    BY <1>1 DEF StatusInv, RunStatus
  <1>3. /\ \A q \in Runs \ {r} : runs'[q] = runs[q]
        /\ runs'[r].pc = "readSha" /\ ~runs'[r].canceled
    BY <1>1, <1>2 DEF GotoWith, IInv, TypeOK
  <1>4. RunStatus(r)'
    BY <1>1, <1>2, <1>3 DEF RunStatus, Changing, Locking
  <1> QED BY <1>1, <1>3, <1>4, RunStepStatus DEF Preparing

LEMMA DrainCanceledStatus ==
    ASSUME Orderly, NEW r \in Runs, IInv, StatusInv, DrainCanceled(r)
    PROVE  StatusInv'
  <1>1. /\ runs[r].pc = "drain" /\ Up /\ CancelSettled
        /\ UNCHANGED <<file, proc, cancel, health, writes, rb>>
        /\ End(r)
    BY DEF DrainCanceled, At, RunOnly, Release
  <1>2. /\ \A q \in Runs \ {r} : runs'[q] = runs[q]
        /\ RunStatus(r)'
    BY <1>1, EndRuns, NotUnderWay
  <1> QED BY <1>1, <1>2, RunStepStatus DEF Preparing

LEMMA SaveExecutingStatus ==
    ASSUME Orderly, NEW r \in Runs, IInv, StatusInv, SaveExecuting(r)
    PROVE  StatusInv'
  <1> DEFINE s == [WithStatus(runs[r].st, "executing", Target(r), tree.code) EXCEPT !.boot = 0]
  <1>1. /\ runs[r].pc = "readSha" /\ Up /\ CancelSettled
        /\ UNCHANGED <<proc, cancel, health, writes, drainer, rb>>
        /\ file' = s /\ GotoWith(r, "fetch", s)
    BY DEF SaveExecuting, At, RunOnly, Waiting, Save
  <1>2. file.status = "draining" /\ ~runs[r].canceled
    BY <1>1 DEF StatusInv, RunStatus
  <1>3. s.status = "executing" /\ s.sha # 0
    <2>1. runs[r].st \in State /\ tree.code \in Versions /\ tree.code # 0
      BY UpdaterAssumption DEF IInv, TypeOK, Versions
    <2> QED BY <2>1 DEF WithStatus, State
  <1>4. /\ \A q \in Runs \ {r} : runs'[q] = runs[q]
        /\ runs'[r].pc = "fetch" /\ runs'[r].st.sha # 0 /\ ~runs'[r].canceled
    BY <1>1, <1>2, <1>3 DEF GotoWith, IInv, TypeOK
  <1>5. RunStatus(r)'
    BY <1>1, <1>3, <1>4 DEF RunStatus, Changing, Locking
  <1> QED BY <1>1, <1>2, <1>4, <1>5, RunStepStatus DEF Executing

LEMMA ExecutorThrowsStatus ==
    ASSUME Orderly, NEW r \in Runs, IInv, StatusInv, ExecutorThrows(r)
    PROVE  StatusInv'
  <1>1. /\ runs[r].pc = "readSha" /\ Up /\ CancelSettled
        /\ UNCHANGED <<proc, cancel, health, writes, drainer, rb>>
        /\ Goto(r, "failed")
    BY DEF ExecutorThrows, At, RunOnly, Waiting
  <1>2. file'.status = "rolling-back"
    <2>1. runs[r].st \in State
      BY DEF IInv, TypeOK
    <2> QED BY <2>1 DEF ExecutorThrows, Save, WithStatus, State
  <1>3. /\ \A q \in Runs \ {r} : runs'[q] = runs[q]
        /\ runs'[r].pc = "failed" /\ ~runs'[r].canceled
    <2>1. ~runs[r].canceled
      BY <1>1 DEF StatusInv, RunStatus
    <2> QED BY <1>1, <2>1, GotoRuns DEF Pcs, Executing
  <1>4. RunStatus(r)'
    BY <1>2, <1>3 DEF RunStatus, Changing, Locking
  <1> QED BY <1>1, <1>2, <1>3, <1>4, RunStepStatus DEF Executing

LEMMA CommandStatus ==
    ASSUME Orderly, NEW r \in Runs, IInv, StatusInv, NEW pc \in Changing, NEW next \in Changing,
           NEW to, NEW otherwise, Command(r, pc, next, to, otherwise)
    PROVE  StatusInv'
  <1>1. /\ runs[r].pc = pc /\ Up /\ CancelSettled
        /\ UNCHANGED <<proc, cancel, health, writes, drainer, rb>>
    BY DEF Command, At, RunOnly, Waiting
  <1>2. /\ file.status = "executing" /\ runs[r].st.sha # 0 /\ file.sha # 0
        /\ pc # "none" /\ pc \in Preparing \cup Executing /\ ~runs[r].canceled
    BY <1>1 DEF StatusInv, RunStatus, Changing, Executing
  <1>3. CASE Goto(r, next) /\ UNCHANGED file
    <2>1. /\ \A q \in Runs \ {r} : runs'[q] = runs[q]
          /\ runs'[r].pc = next /\ runs'[r].st = runs[r].st /\ ~runs'[r].canceled
      BY <1>2, <1>3 DEF Goto, IInv, TypeOK
    <2>2. RunStatus(r)'
      BY <1>2, <1>3, <2>1 DEF RunStatus, Changing, Locking
    <2> QED BY <1>1, <1>2, <1>3, <2>1, <2>2, RunStepStatus
  <1>4. CASE /\ Save(WithStatus(runs[r].st, "rolling-back", Target(r), runs[r].st.sha))
             /\ Goto(r, "failed")
    <2>1. file'.status = "rolling-back"
      <3>1. runs[r].st \in State
        BY DEF IInv, TypeOK
      <3> QED BY <1>4, <3>1 DEF Save, WithStatus, State
    <2>2. /\ \A q \in Runs \ {r} : runs'[q] = runs[q]
          /\ runs'[r].pc = "failed" /\ ~runs'[r].canceled
      BY <1>2, <1>4 DEF Goto, IInv, TypeOK
    <2>3. RunStatus(r)'
      BY <2>1, <2>2 DEF RunStatus, Changing, Locking
    <2> QED BY <1>1, <1>2, <2>1, <2>2, <2>3, RunStepStatus
  <1> QED BY <1>3, <1>4 DEF Command

LEMMA CommandsStatus ==
    ASSUME Orderly, NEW r \in Runs, IInv, StatusInv,
           Fetch(r) \/ Checkout(r) \/ Install(r) \/ Build(r)
    PROVE  StatusInv'
    BY CommandStatus DEF Fetch, Checkout, Install, Build, Changing

LEMMA FinishStatus ==
    ASSUME NEW r \in Runs, IInv, StatusInv, Finish(r) PROVE StatusInv'
  <1>1. Exit /\ runs[r].pc = "finish" /\ file.status = "executing"
    BY DEF Finish, At, StatusInv, RunStatus, Changing
  <1> QED BY <1>1, ExitStatus

LEMMA AfterFailureStatus ==
    ASSUME Orderly, NEW r \in Runs, IInv, StatusInv, AfterFailure(r)
    PROVE  StatusInv'
  <1>1. /\ runs[r].pc = "failed" /\ Up /\ CancelSettled
        /\ UNCHANGED <<file, proc, cancel, health, writes, drainer>>
    BY DEF AfterFailure, At, Waiting
  <1>2. /\ \A q \in Runs \ {r} : runs'[q] = runs[q]
        /\ RunStatus(r)'
    <2>1. CASE RollsBack(loadState)
      <3>1. loadState = file /\ file.status = "rolling-back" /\ file.sha # 0
        BY <2>1 DEF RollsBack, loadState, EmptyState, NeedsSha
      <3>2. Goto(r, "rollback") /\ rb'.pc = "checkout"
        BY <2>1 DEF AfterFailure
      <3>3. /\ \A q \in Runs \ {r} : runs'[q] = runs[q]
            /\ runs'[r].pc = "rollback" /\ ~runs'[r].canceled
        <4>1. ~runs[r].canceled
          BY <1>1 DEF StatusInv, RunStatus
        <4> QED BY <1>1, <3>2, <4>1, GotoRuns DEF Pcs, Executing
      <3> QED BY <1>1, <3>1, <3>2, <3>3 DEF RunStatus, Changing, Locking
    <2>2. CASE ~RollsBack(loadState)
      <3>1. End(r)
        BY <2>2 DEF AfterFailure, Release
      <3> QED BY <3>1, EndRuns, NotUnderWay
    <2> QED BY <2>1, <2>2
  <1> QED BY <1>1, <1>2, RunStepStatus DEF Executing

LEMMA StatusStep ==
    ASSUME Orderly PROVE IInv /\ StatusInv /\ [Next]_vars => StatusInv'
  <1> SUFFICES ASSUME IInv, StatusInv, [Next]_vars PROVE StatusInv'
    OBVIOUS
  <1>1. CASE \/ Boot \/ expressCreateServer \/ BackgroundWrite \/ markBootHealthy \/ HealthTimeout
    BY <1>1, BootStatus, expressCreateServerStatus, BackgroundWriteStatus, markBootHealthyStatus,
       HealthTimeoutStatus
  <1>2. CASE Rollback
    BY <1>2, RollbackStatus
  <1>3. CASE TimerFires \/ Apply \/ Cancel \/ CancelSaves \/ Acknowledge
    BY <1>3, TimerFiresStatus, ApplyStatus, CancelStatus, CancelSavesStatus, AcknowledgeStatus
  <1>4. CASE \E v \in Versions : performCheck(v)
    BY <1>4, performCheckStatus
  <1>5. CASE \E r \in Runs : RunStep(r)
    <2> PICK r \in Runs : RunStep(r)
      BY <1>5
    <2>1. CASE ExecutorStep(r)
      BY <2>1, SaveExecutingStatus, ExecutorThrowsStatus, CommandsStatus, FinishStatus,
         AfterFailureStatus DEF ExecutorStep
    <2> QED BY <2>1, LoadStatus, acquireLockStatus, SavePreflightStatus, PreflightFailsStatus,
           PreflightPassesStatus, SaveDrainingStatus, StartDrainStatus, DrainEndsStatus,
           DrainCanceledStatus DEF RunStep
  <1>6. CASE Repair \/ Kill \/ Crash
    BY <1>6, EndStatus
  <1>7. CASE UNCHANGED vars
    BY <1>7 DEF vars, StatusInv, Asleep, Resting, Verification, Verdict, CancelWaits, RunStatus
  <1> QED BY <1>1, <1>2, <1>3, <1>4, <1>5, <1>6, <1>7 DEF Next

\* At every stage of an update the file says what the process relies on it to
\* say, whatever dies and whichever releases are broken.
THEOREM FileIsReliable == ASSUME Orderly PROVE Spec => []StatusInv
  <1>1. IInv /\ StatusInv /\ [Next]_vars => StatusInv'
    BY StatusStep
  <1> QED BY <1>1, InitStatus, Invariance, PTL DEF Spec

\* A canceled update is never executed (CanceledStaysCanceled of Updater): the
\* run that was under way finds that the file has left `preflight', or that its
\* drain was resolved, whatever has been saved, polled and started meanwhile
\* (updateActions.ts, applyPipeline.ts).
THEOREM CancelIsFinal == ASSUME Orderly PROVE Spec => []CanceledStaysCanceled
  <1>1. StatusInv => CanceledStaysCanceled
    BY DEF StatusInv, RunStatus, CanceledStaysCanceled, Executing
  <1> QED BY <1>1, FileIsReliable, PTL

(***************************************************************************)
(* The working tree.  An update that is applied while a rollback is under  *)
(* way changes the tree together with it: a server that becomes healthy    *)
(* after its health timer has fired saves `verified', which lets updates   *)
(* start again.  What follows is about executions where they wait.         *)
(***************************************************************************)
UpdatesWait == rb.pc # "none" => \A r \in Owners : runs[r].pc = "rollback"

Whole == tree.deps = tree.code

\* What a settled file says of the tree.
Names(s) ==
    /\ s.status \in {"verified", "pending-verification"} => tree.code = s.tag /\ tree.ui = s.tag
    /\ s.status = "rolled-back" => tree.code = s.sha

\* A file without the release to return to is reset, like one that is settled.
Intact == file.status \in Settled \/ file.sha = 0

RestTrue ==
    ~AtWork => /\ Intact => Whole
               /\ file.status \in Settled => Names(file)

\* What each stage of a run has made of the tree.
RunTree(r) ==
    /\ runs[r].pc \in Locking => AtWork \/ Intact
    /\ runs[r].pc \in Preparing \cup {"readSha", "fetch", "checkout", "build", "finish"} => Whole
    /\ runs[r].pc \in {"install", "build", "finish"} => tree.code = Target(r)
    /\ runs[r].pc = "finish" => tree.ui = Target(r)
    /\ runs[r].pc = "failed" => Whole \/ (file.status = "rolling-back" /\ file.sha # 0)

RollbackTree ==
    /\ rb.pc \in {"install", "save"} => tree.code = rb.st.sha
    /\ rb.pc = "save" => Whole

TreeInv == RestTrue /\ RollbackTree /\ \A r \in Runs : RunTree(r)

LEMMA InitTree == Init => TreeInv
    BY DEF Init, TreeInv, RestTrue, RollbackTree, RunTree, Whole, Names, Intact, NoRun, NoCall,
           EmptyState, Preparing, Locking, Settled

\* After an exit the file alone has to be right about the tree.
LEMMA ExitTree ==
    ASSUME Exit,
           (Intact => Whole)',
           (file.status \in Settled => Names(file))'
    PROVE  TreeInv'
  <1>1. rb'.pc = "none" /\ \A r \in Runs : runs'[r].pc = "none"
    BY DEF Exit, NoRun, NoCall
  <1>2. RollbackTree' /\ \A r \in Runs : RunTree(r)'
    BY <1>1 DEF RollbackTree, RunTree, Preparing, Locking
  <1> QED BY <1>2 DEF TreeInv, RestTrue

\* Runs may start, wait and give up before acquireLock.
Entering(r) ==
    \/ runs'[r].pc = runs[r].pc /\ runs'[r].st = runs[r].st
    \/ /\ runs[r].pc \in Outside /\ runs'[r].pc \in Outside
       /\ runs'[r].pc \in Locking => AtWork \/ Intact

LEMMA EnteringWork ==
    ASSUME UNCHANGED rb, \A r \in Runs : Entering(r) PROVE AtWork' = AtWork
  <1>1. \A r \in Runs : (runs'[r].pc \in Executing) = (runs[r].pc \in Executing)
    BY DEF Entering, Executing, Outside, Locking
  <1> QED BY <1>1 DEF AtWork

\* A step that leaves the tree alone, and of the file what matters.
LEMMA SameTree ==
    ASSUME TreeInv, UNCHANGED <<tree, rb>>, \A r \in Runs : Entering(r),
           \/ file'.status = file.status /\ file'.tag = file.tag /\ file'.sha = file.sha
           \/ file'.status \in {"idle", "scheduled"} /\ (Intact \/ Whole)
    PROVE  TreeInv'
  <1>1. AtWork' = AtWork
    BY EnteringWork
  <1>2. Intact => Intact'
    BY DEF Intact, Settled
  <1>3. RollbackTree'
    BY DEF TreeInv, RollbackTree, Whole
  <1>4. RestTrue'
    BY <1>1 DEF TreeInv, RestTrue, Intact, Whole, Names, Settled
  <1>5. \A r \in Runs : RunTree(r)'
    <2> SUFFICES ASSUME NEW r \in Runs PROVE RunTree(r)'
      OBVIOUS
    <2>1. RunTree(r) /\ Entering(r)
      BY DEF TreeInv
    <2>2. CASE runs'[r].pc = runs[r].pc /\ runs'[r].st = runs[r].st
      BY <1>1, <1>2, <2>1, <2>2 DEF RunTree, Target, Whole, Intact, Settled
    <2>3. CASE /\ runs'[r].pc \in Outside
               /\ runs'[r].pc \in Locking => AtWork \/ Intact
      BY <1>1, <1>2, <2>3 DEF RunTree, Preparing, Outside, Locking
    <2> QED BY <2>1, <2>2, <2>3 DEF Entering
  <1> QED BY <1>3, <1>4, <1>5 DEF TreeInv

LEMMA BootTree ==
    ASSUME IInv, TreeInv, Boot \/ markBootHealthy \/ Cancel PROVE TreeInv'
  <1>1. UNCHANGED <<file, tree, rb>>
    BY DEF Boot, markBootHealthy, Cancel
  <1>2. \A r \in Runs : runs'[r].pc = runs[r].pc /\ runs'[r].st = runs[r].st
    BY CancelRuns DEF Boot, markBootHealthy
  <1> QED BY <1>1, <1>2, SameTree DEF Entering

LEMMA expressCreateServerTree ==
    ASSUME IInv, StatusInv, TreeInv, expressCreateServer PROVE TreeInv'
  <1>1. /\ UNCHANGED <<tree, runs>> /\ \A r \in Runs : runs[r].pc = "none"
        /\ rb.pc = "none"
    BY DEF expressCreateServer, StatusInv, Asleep, Resting
  <1>2. file' = file \/ (file'.status = "idle" /\ file.status = "scheduled")
    <2>1. loadState \in State
      BY LoadTyped DEF IInv, TypeOK
    <2>2. Idle(loadState).status = "idle"
      BY <2>1, IdleStatus
    <2>3. loadState.status = "scheduled" => file.status = "scheduled"
      BY LoadIsFile
    <2> QED BY <2>2, <2>3 DEF expressCreateServer
  <1>3. CASE UNCHANGED rb
    BY <1>1, <1>2, <1>3, SameTree DEF Entering, Intact, Settled
  <1>4. CASE rb'.pc = "checkout"
    BY <1>1, <1>4 DEF TreeInv, RestTrue, AtWork, RollbackTree, RunTree, Preparing
  <1> QED BY <1>3, <1>4 DEF expressCreateServer, checkPendingVerification

LEMMA BackgroundWriteTree ==
    ASSUME IInv, StatusInv, TreeInv, BackgroundWrite PROVE TreeInv'
  <1>1. /\ Resting /\ file.status = "pending-verification"
        /\ file'.status \in {"pending-verification", "verified"} /\ file'.tag = file.tag
        /\ UNCHANGED <<tree, rb, runs>>
    <2>1. writes \in Seq(State) /\ writes # <<>> /\ file' = writes[1]
      BY DEF BackgroundWrite, IInv, TypeOK
    <2>2. 1 \in 1 .. Len(writes)
      BY <2>1
    <2>3. Verification
      BY DEF StatusInv
    <2> QED BY <2>1, <2>2, <2>3 DEF BackgroundWrite, Verification, Verdict
  <1>2. RollbackTree' /\ \A r \in Runs : RunTree(r)'
    BY <1>1 DEF TreeInv, RollbackTree, RunTree, Resting, Whole, Preparing, Locking
  <1>3. RestTrue'
    BY <1>1 DEF TreeInv, RestTrue, AtWork, Resting, Executing, Intact, Settled, Whole, Names
  <1> QED BY <1>2, <1>3 DEF TreeInv

LEMMA HealthTimeoutTree ==
    ASSUME IInv, StatusInv, TreeInv, HealthTimeout PROVE TreeInv'
  <1>1. /\ Resting /\ rb'.pc = "checkout" /\ UNCHANGED <<file, tree, runs>>
    BY DEF HealthTimeout, StatusInv, Verification
  <1> QED BY <1>1 DEF TreeInv, RestTrue, AtWork, RollbackTree, RunTree, Resting, Preparing

\* A rollback puts the tree back to the release it was given, alone.
LEMMA RollbackTreeStep ==
    ASSUME IInv, TreeInv, UpdatesWait, Rollback PROVE TreeInv'
  <1>1. /\ rb.pc # "none" /\ rb.st \in State /\ rb.st.sha \in Versions /\ rb.st.sha # 0
        /\ tree \in [code : Versions, deps : 0 .. MaxVersion, ui : 0 .. MaxVersion]
    BY UpdaterAssumption DEF Rollback, RollbackCheckout, RollbackInstall, RollbackStep, RollbackDone,
           RollbackFails, IInv, TypeOK, SourcesKnown, Versions
  <1>2. \A r \in Runs : runs[r].pc \in Outside \cup {"rollback"}
    BY <1>1 DEF UpdatesWait, Owners, IInv, TypeOK, Pcs, Outside, Locking
  <1>3. CASE RollbackCheckout \/ RollbackInstall
    <2>1. /\ UNCHANGED <<file, runs>> /\ rb'.pc \in {"install", "save"} /\ rb'.st = rb.st
      BY <1>1, <1>3 DEF RollbackCheckout, RollbackInstall, RollbackStep, IInv, TypeOK
    <2>2. AtWork'
      BY <2>1 DEF AtWork
    <2>3. CASE RollbackCheckout
      <3>1. rb'.pc = "install" /\ rb'.st = rb.st /\ tree'.code = rb.st.sha
        BY <1>1, <2>1, <2>3 DEF RollbackCheckout, RollbackStep, IInv, TypeOK
      <3>2. RollbackTree'
        BY <3>1 DEF RollbackTree
      <3> QED BY <1>2, <2>1, <2>2, <3>2 DEF TreeInv, RestTrue, RunTree, Preparing, Outside, Locking
    <2>4. CASE RollbackInstall
      <3>1. rb.pc = "install" /\ tree' = [tree EXCEPT !.deps = tree.code]
        BY <2>4 DEF RollbackInstall, RollbackStep, installed
      <3>2. tree'.code = tree.code /\ tree'.deps = tree.code /\ tree.code = rb.st.sha
        BY <1>1, <3>1 DEF TreeInv, RollbackTree
      <3>3. RollbackTree'
        BY <2>1, <3>2 DEF RollbackTree, Whole
      <3> QED BY <1>2, <2>1, <2>2, <3>3 DEF TreeInv, RestTrue, RunTree, Preparing, Outside, Locking
    <2> QED BY <1>3, <2>3, <2>4
  <1>4. CASE RollbackDone
    <2>1. Exit /\ tree' = tree /\ rb.pc = "save"
          /\ file' = [WithStatus(rb.st, "rolled-back", rb.st.tag, rb.st.sha) EXCEPT !.boot = 0]
      BY <1>4 DEF RollbackDone, RollBackTo
    <2>2. file'.status = "rolled-back" /\ file'.sha = rb.st.sha
      BY <1>1, <2>1 DEF WithStatus, State
    <2>3. tree.code = rb.st.sha /\ Whole
      BY <2>1 DEF TreeInv, RollbackTree
    <2> QED BY <2>1, <2>2, <2>3, ExitTree DEF Names, Whole
  <1>5. CASE RollbackFails
    <2>1. Exit
          /\ file' = [WithStatus(rb.st, "rollback-failed", rb.st.tag, rb.st.sha) EXCEPT !.boot = 0]
      BY <1>5 DEF RollbackFails, RollBackTo
    <2>2. file'.status = "rollback-failed" /\ file'.sha # 0
      BY <1>1, <2>1 DEF WithStatus, State
    <2> QED BY <2>1, <2>2, ExitTree DEF Intact, Settled
  <1> QED BY <1>3, <1>4, <1>5 DEF Rollback

LEMMA performCheckTree ==
    ASSUME Orderly, NEW v \in Versions, IInv, TreeInv, performCheck(v) PROVE TreeInv'
  <1>1. UNCHANGED <<tree, runs, rb>>
    BY PollSaves
  <1>2. \/ file'.status = file.status /\ file'.tag = file.tag /\ file'.sha = file.sha
        \/ file'.status \in {"idle", "scheduled"} /\ Intact
    <2>1. CASE loadState = file
      BY <2>1, PollSaves DEF Intact, Settled
    <2>2. CASE loadState # file
      BY <2>2, LoadIsFile, PollSaves DEF Intact
    <2> QED BY <2>1, <2>2
  <1> QED BY <1>1, <1>2, SameTree DEF Entering

LEMMA TimerFiresTree == ASSUME IInv, TreeInv, TimerFires PROVE TreeInv'
  <1>1. UNCHANGED <<tree, rb>> /\ runs["timer"].pc = "none"
    BY DEF TimerFires
  <1>2. \A r \in Runs : Entering(r)
    BY <1>1 DEF TimerFires, GotoWith, IInv, TypeOK, Entering, Outside, Locking
  <1>3. file' = file \/ (file'.status = "idle" /\ file.status = "scheduled")
    <2>1. loadState \in State
      BY LoadTyped DEF IInv, TypeOK
    <2>2. Idle(loadState).status = "idle"
      BY <2>1, IdleStatus
    <2>3. loadState.status = "scheduled" => file.status = "scheduled"
      BY LoadIsFile
    <2> QED BY <2>2, <2>3 DEF TimerFires
  <1> QED BY <1>1, <1>2, <1>3, SameTree DEF Intact, Settled

LEMMA ApplyTree == ASSUME IInv, TreeInv, Apply PROVE TreeInv'
  <1>1. UNCHANGED <<file, tree, rb>> /\ runs["admin"].pc = "none"
    BY DEF Apply
  <1>2. \A r \in Runs : Entering(r)
    BY <1>1 DEF Apply, GotoWith, IInv, TypeOK, Entering, Outside, Locking
  <1> QED BY <1>1, <1>2, SameTree

LEMMA CancelSavesTree == ASSUME IInv, StatusInv, TreeInv, CancelSaves PROVE TreeInv'
  <1>1. /\ UNCHANGED <<tree, rb, runs>> /\ file'.status = "idle"
        /\ file.status \in CanceledFrom \cup {"idle"}
    BY IdleStatus DEF CancelSaves, StatusInv, CancelWaits, IInv, TypeOK
  <1> QED BY <1>1, SameTree DEF Entering, Intact, Settled, CanceledFrom

\* What the administrator acknowledges is whole: a failed rollback has been
\* repaired by hand.
LEMMA AcknowledgeTree == ASSUME IInv, TreeInv, Acknowledge PROVE TreeInv'
  <1>1. /\ UNCHANGED <<tree, rb, runs>>
        /\ loadState.status \in {"rollback-failed", "preflight-failed", "rolled-back"}
        /\ loadState.status = "rollback-failed" => Whole
    BY DEF Acknowledge, Whole
  <1>2. file.status = loadState.status
    BY <1>1, LoadIsFile
  <1>3. file'.status = "idle"
    <2>1. Idle(loadState) \in State /\ Idle(loadState).status = "idle"
      BY IdleStatus, LoadTyped DEF IInv, TypeOK
    <2> QED BY <2>1 DEF Acknowledge, State
  <1> QED BY <1>1, <1>2, <1>3, SameTree DEF Entering, Intact, Settled

LEMMA RepairTree == ASSUME IInv, Repair PROVE TreeInv'
  <1>1. Exit /\ tree'.deps = tree'.code /\ file' = file /\ file.status = "rollback-failed"
    BY DEF Repair
  <1> QED BY <1>1, ExitTree DEF Whole, Names, Settled

\* The process may die while an update is executed, but not while a rollback
\* is under way.
LEMMA DeathTree ==
    ASSUME "rollback" \notin Deaths, IInv, StatusInv, TreeInv, Kill \/ Crash PROVE TreeInv'
  <1>1. Exit /\ UNCHANGED <<file, tree>> /\ rb.pc = "none"
    <2>1. CASE Kill
      <3>1. CASE proc.phase = "starting"
        BY <2>1, <3>1 DEF Kill, StatusInv, Asleep
      <3>2. CASE proc.phase # "starting"
        <4>1. rb.pc # "none" => DeathSituation = "rollback"
          BY <3>2 DEF DeathSituation
        <4>2. DeathSituation \in Deaths
          BY <2>1 DEF Kill
        <4> QED BY <2>1, <4>1, <4>2 DEF Kill
      <3> QED BY <3>1, <3>2
    <2>2. CASE Crash
      BY <2>2 DEF Crash
    <2> QED BY <2>1, <2>2
  <1>2. (Intact => Whole) /\ (file.status \in Settled => Names(file))
    <2>1. CASE ~AtWork
      BY <2>1 DEF TreeInv, RestTrue
    <2>2. CASE AtWork
      <3>1. PICK r \in Runs : runs[r].pc \in Executing
        BY <1>1, <2>2 DEF AtWork
      <3>2. RunStatus(r) /\ RunTree(r)
        BY DEF StatusInv, TreeInv
      <3> QED BY <1>1, <3>1, <3>2
            DEF RunStatus, RunTree, Executing, Changing, Intact, Settled, Names
    <2> QED BY <2>1, <2>2
  <1>3. (Intact => Whole)' /\ (file.status \in Settled => Names(file))'
    BY <1>1, <1>2 DEF Intact, Whole, Names
  <1> QED BY <1>1, <1>3, ExitTree

(***************************************************************************)
(* The steps of a run.  The run that is past acquireLock is alone with the *)
(* tree: nothing rolls back, and the other run is not past acquireLock.    *)
(***************************************************************************)
LEMMA OwnerAlone ==
    ASSUME Orderly, IInv, UpdatesWait, NEW r \in Runs,
           runs[r].pc \in Preparing \cup (Executing \ {"rollback"})
    PROVE  /\ rb.pc = "none"
           /\ \A q \in Runs \ {r} : runs[q].pc \in Outside
  <1>1. r \in Owners /\ runs[r].pc # "rollback"
    BY DEF Owners, Preparing
  <1>2. rb.pc = "none"
    BY <1>1 DEF UpdatesWait
  <1> QED BY <1>2, OneOwner

LEMMA RunStepTree ==
    ASSUME TreeInv, NEW r \in Runs,
           \A q \in Runs \ {r} : runs'[q] = runs[q] /\ runs[q].pc \in Outside,
           (AtWork \/ Intact)', RestTrue', RollbackTree', RunTree(r)'
    PROVE  TreeInv'
  <1>1. \A q \in Runs \ {r} : RunTree(q)'
    BY DEF RunTree, Preparing, Outside, Locking
  <1> QED BY <1>1 DEF TreeInv

\* A run that has not begun to change the tree leaves it whole.
LEMMA PrepareTree ==
    ASSUME TreeInv, NEW r \in Runs, Whole, UNCHANGED <<tree, rb>>, rb.pc = "none",
           \A q \in Runs \ {r} : runs'[q] = runs[q] /\ runs[q].pc \in Outside,
           runs'[r].pc \in {"none"} \cup Preparing \cup {"readSha", "fetch", "failed"},
           \/ runs'[r].pc \in {"readSha", "fetch", "failed"}
           \/ file'.status \in {"preflight", "preflight-failed", "draining", "idle", "scheduled"}
    PROVE  TreeInv'
  <1>1. Whole' /\ rb'.pc = "none"
    BY DEF Whole
  <1>2. AtWork' \/ file'.status \in {"preflight", "preflight-failed", "draining", "idle", "scheduled"}
    BY DEF AtWork, Executing
  <1>3. (AtWork \/ Intact)' /\ RestTrue'
    BY <1>1, <1>2 DEF RestTrue, Intact, Settled, Names
  <1>4. RollbackTree' /\ RunTree(r)'
    BY <1>1 DEF RollbackTree, RunTree, Preparing, Locking
  <1> QED BY <1>3, <1>4, RunStepTree

LEMMA LoadTree == ASSUME NEW r \in Runs, IInv, TreeInv, Load(r) PROVE TreeInv'
  <1>1. UNCHANGED <<file, tree, rb>> /\ runs[r].pc = "load"
    BY DEF Load, At, RunOnly
  <1>2. CASE End(r)
    <2>1. \A q \in Runs : Entering(q)
      BY <1>1, <1>2, EndRuns DEF Entering, Outside, Locking
    <2> QED BY <1>1, <2>1, SameTree
  <1>3. CASE /\ loadState.status \in AllowedEntry
             /\ GotoWith(r, "create", WithStatus(loadState, "preflight", Target(r), 0))
    <2>1. Intact
      <3>1. loadState = file \/ file.sha = 0
        BY LoadIsFile
      <3> QED BY <1>3, <3>1 DEF Intact, Settled, AllowedEntry
    <2>2. \A q \in Runs : Entering(q)
      BY <1>1, <1>3, <2>1 DEF Entering, GotoWith, IInv, TypeOK, Outside, Locking
    <2> QED BY <1>1, <2>2, SameTree
  <1> QED BY <1>2, <1>3 DEF Load

\* acquireLock leaves the tree and the file alone.  Here the hypothesis is
\* needed of the step's outcome: nothing rolls back when a run passes it.
LEMMA acquireLockTree ==
    ASSUME Orderly, NEW r \in Runs, IInv, StatusInv, TreeInv, UpdatesWait', acquireLock(r)
    PROVE  TreeInv'
  <1>1. UNCHANGED <<file, tree, rb>> /\ runs[r].pc \in Locking /\ runs[r].pc # "none"
    BY DEF acquireLock, CreateLock, WriteLock, ReadLock, ReapLock, At, RunOnly, Locking
  <1>2. AtWork \/ Intact
    BY <1>1 DEF TreeInv, RunTree
  <1>3. CASE ~WriteLock(r)
    <2>1. End(r) \/ \E pc \in Locking : Goto(r, pc)
      BY <1>3 DEF acquireLock, CreateLock, ReadLock, ReapLock, Locking
    <2>2. runs'[r].pc \in Outside /\ \A q \in Runs \ {r} : runs'[q] = runs[q]
      <3>1. CASE End(r)
        BY <3>1, EndRuns DEF Outside
      <3>2. CASE \E pc \in Locking : Goto(r, pc)
        <4> PICK pc \in Locking : Goto(r, pc)
          BY <3>2
        <4>1. pc \in Pcs
          BY DEF Pcs
        <4> QED BY <1>1, <4>1, GotoRuns DEF Outside
      <3> QED BY <2>1, <3>1, <3>2
    <2>3. \A q \in Runs : Entering(q)
      BY <1>1, <1>2, <2>2 DEF Entering, Outside
    <2> QED BY <1>1, <2>3, SameTree
  <1>4. CASE WriteLock(r)
    <2>1. /\ \A q \in Runs \ {r} : runs'[q] = runs[q]
          /\ runs'[r].pc = "locked" /\ runs[r].pc = "write"
      BY <1>1, <1>4, GotoRuns DEF WriteLock, At, Pcs, Preparing
    <2>2. \A q \in Runs : runs[q].pc \in Outside
      <3>1. lock = r /\ Owners = {}
        BY <2>1 DEF Orderly, IInv, LockInv, LockSteps, OneRunHoldsTheLock, Runs
      <3> QED BY <3>1 DEF Owners, Outside, IInv, TypeOK, Pcs
    <2>3. rb.pc = "none"
      <3>1. r \in Owners'
        BY <2>1 DEF Owners, Preparing
      <3> QED BY <1>1, <2>1, <3>1 DEF UpdatesWait
    <2>4. ~AtWork
      BY <2>2, <2>3 DEF AtWork, Outside, Locking, Executing
    <2>5. Whole /\ Intact
      BY <1>2, <2>4 DEF TreeInv, RestTrue
    <2>6. RestTrue' /\ RollbackTree' /\ RunTree(r)' /\ Intact'
      BY <1>1, <2>1, <2>4, <2>5
         DEF TreeInv, RestTrue, RollbackTree, RunTree, Whole, Intact, Names, Preparing, Locking
    <2> QED BY <2>1, <2>2, <2>6, RunStepTree
  <1> QED BY <1>3, <1>4

LEMMA PreflightTree ==
    ASSUME Orderly, NEW r \in Runs, IInv, StatusInv, TreeInv, UpdatesWait,
           \/ SavePreflight(r) \/ PreflightFails(r) \/ PreflightPasses(r) \/ SaveDraining(r)
           \/ StartDrain(r) \/ DrainEnds(r) \/ DrainCanceled(r)
    PROVE  TreeInv'
  <1>1. /\ runs[r].pc \in Preparing /\ UNCHANGED <<tree, rb>>
        /\ runs[r].st \in State
    BY DEF SavePreflight, PreflightFails, PreflightPasses, SaveDraining, StartDrain, DrainEnds,
           DrainCanceled, At, RunOnly, Preparing, IInv, TypeOK
  <1>2. Whole /\ RunStatus(r)
    BY <1>1 DEF TreeInv, RunTree, StatusInv
  <1>3. /\ rb.pc = "none"
        /\ \A q \in Runs \ {r} : runs[q].pc \in Outside
    BY <1>1, OwnerAlone
  <1>4. /\ \A q \in Runs \ {r} : runs'[q] = runs[q]
        /\ runs'[r].pc \in {"none", "preflight", "opening", "opened", "drain", "readSha"}
    BY DEF SavePreflight, PreflightFails, PreflightPasses, SaveDraining, StartDrain, DrainEnds,
           DrainCanceled, Release, End, Goto, GotoWith, NoRun, IInv, TypeOK
  <1>5. \/ runs'[r].pc = "readSha"
        \/ file'.status \in {"preflight", "preflight-failed", "draining", "idle", "scheduled"}
    <2>1. CASE PreflightFails(r)
      BY <1>1, <2>1 DEF PreflightFails, Save, WithStatus, State
    <2>5. CASE SavePreflight(r)
      BY <1>2, <2>5 DEF SavePreflight, At, Save, RunStatus
    <2>2. CASE PreflightPasses(r) \/ StartDrain(r) \/ DrainCanceled(r)
      <3>1. file' = file /\ runs[r].pc \in {"preflight", "opened", "drain"}
        BY <2>2 DEF PreflightPasses, StartDrain, DrainCanceled, At
      <3> QED BY <1>2, <3>1 DEF RunStatus
    <2>3. CASE SaveDraining(r)
      BY <1>1, <2>3 DEF SaveDraining, Save, WithStatus, State
    <2>4. CASE DrainEnds(r)
      BY <2>4 DEF DrainEnds, GotoWith, IInv, TypeOK
    <2> QED BY <2>1, <2>2, <2>3, <2>4, <2>5
  <1>6. runs'[r].pc \in {"none"} \cup Preparing \cup {"readSha", "fetch", "failed"}
    BY <1>4 DEF Preparing
  <1> QED BY <1>1, <1>2, <1>3, <1>4, <1>5, <1>6, PrepareTree

\* Before the first command nothing is changed.
LEMMA SaveExecutingTree ==
    ASSUME Orderly, NEW r \in Runs, IInv, TreeInv, UpdatesWait,
           SaveExecuting(r) \/ ExecutorThrows(r)
    PROVE  TreeInv'
  <1>1. runs[r].pc = "readSha" /\ UNCHANGED <<tree, rb>>
    BY DEF SaveExecuting, ExecutorThrows, At, RunOnly
  <1>2. Whole
    BY <1>1 DEF TreeInv, RunTree
  <1>3. /\ rb.pc = "none"
        /\ \A q \in Runs \ {r} : runs[q].pc \in Outside
    BY <1>1, OwnerAlone DEF Executing
  <1>4. /\ \A q \in Runs \ {r} : runs'[q] = runs[q]
        /\ runs'[r].pc \in {"fetch", "failed"}
    BY DEF SaveExecuting, ExecutorThrows, Goto, GotoWith, IInv, TypeOK
  <1> QED BY <1>1, <1>2, <1>3, <1>4, PrepareTree

\* What the commands make of the tree.  A command that fails has recorded,
\* with the release to return to, that a rollback is due.
LEMMA CommandTree ==
    ASSUME Orderly, NEW r \in Runs, IInv, StatusInv, TreeInv, UpdatesWait,
           NEW pc \in Changing, NEW next \in Changing \ {"fetch"}, NEW to, NEW otherwise,
           Command(r, pc, next, to, otherwise),
           next \in {"checkout", "build", "finish"} => to.deps = to.code,
           next \in {"install", "build", "finish"} => to.code = Target(r),
           next = "finish" => to.ui = Target(r)
    PROVE  TreeInv'
  <1>1. /\ runs[r].pc = pc /\ UNCHANGED rb /\ runs[r].st \in State /\ runs[r].st.sha # 0
        /\ pc \in Executing \ {"rollback"}
    BY DEF Command, At, RunOnly, IInv, TypeOK, StatusInv, RunStatus, Changing, Executing
  <1>2. /\ rb.pc = "none"
        /\ \A q \in Runs \ {r} : runs[q].pc \in Outside
    BY <1>1, OwnerAlone
  <1>3. RollbackTree'
    BY <1>1, <1>2 DEF RollbackTree
  <1>4. CASE tree' = to /\ Goto(r, next)
    <2>1. /\ \A q \in Runs \ {r} : runs'[q] = runs[q]
          /\ runs'[r].pc = next /\ runs'[r].st = runs[r].st
      BY <1>4 DEF Goto, IInv, TypeOK
    <2>2. AtWork'
      BY <2>1 DEF AtWork, Changing, Executing
    <2>3. RunTree(r)'
      <3>1. Target(r)' = Target(r)
        BY <2>1 DEF Target
      <3>2. next \notin Preparing \cup {"readSha", "fetch", "failed"} \cup Locking
        BY DEF Changing, Preparing, Locking
      <3> QED BY <1>4, <2>1, <3>1, <3>2 DEF RunTree, Whole
    <2> QED BY <1>2, <1>3, <2>1, <2>2, <2>3, RunStepTree DEF RestTrue
  <1>5. CASE /\ Save(WithStatus(runs[r].st, "rolling-back", Target(r), runs[r].st.sha))
             /\ Goto(r, "failed")
    <2>1. /\ \A q \in Runs \ {r} : runs'[q] = runs[q]
          /\ runs'[r].pc = "failed"
      BY <1>5 DEF Goto, IInv, TypeOK
    <2>2. file'.status = "rolling-back" /\ file'.sha # 0
      BY <1>1, <1>5 DEF Save, WithStatus, State
    <2>3. AtWork'
      BY <2>1 DEF AtWork, Executing
    <2>4. RunTree(r)'
      BY <2>1, <2>2 DEF RunTree, Preparing, Locking
    <2> QED BY <1>2, <1>3, <2>1, <2>3, <2>4, RunStepTree DEF RestTrue
  <1> QED BY <1>4, <1>5 DEF Command

LEMMA CommandsTree ==
    ASSUME Orderly, NEW r \in Runs, IInv, StatusInv, TreeInv, UpdatesWait,
           Fetch(r) \/ Checkout(r) \/ Install(r) \/ Build(r)
    PROVE  TreeInv'
  <1>1. RunTree(r) /\ tree \in [code : Versions, deps : 0 .. MaxVersion, ui : 0 .. MaxVersion]
    BY DEF TreeInv, IInv, TypeOK
  <1>2. CASE Fetch(r)
    <2>1. tree.deps = tree.code
      BY <1>1, <1>2 DEF Fetch, Command, At, RunTree, Whole
    <2> QED BY <1>2, <2>1, CommandTree DEF Fetch, Changing
  <1>3. CASE Checkout(r)
    <2>1. [tree EXCEPT !.code = Target(r)].code = Target(r)
      BY <1>1
    <2> QED BY <1>3, <2>1, CommandTree DEF Checkout, Changing
  <1>4. CASE Install(r)
    <2> DEFINE to == [tree EXCEPT !.deps = tree.code]
    <2>1. to.deps = to.code /\ to.code = Target(r)
      BY <1>1, <1>4 DEF Install, Command, At, RunTree
    <2> QED BY <1>4, <2>1, CommandTree DEF Install, Changing
  <1>5. CASE Build(r)
    <2> DEFINE to == [tree EXCEPT !.ui = tree.code]
    <2>1. to.deps = to.code /\ to.code = Target(r) /\ to.ui = Target(r)
      BY <1>1, <1>5 DEF Build, Command, At, RunTree, Whole
    <2> QED BY <1>5, <2>1, CommandTree DEF Build, Changing
  <1> QED BY <1>2, <1>3, <1>4, <1>5

LEMMA FinishTree ==
    ASSUME NEW r \in Runs, IInv, StatusInv, TreeInv, Finish(r) PROVE TreeInv'
  <1>1. /\ runs[r].pc = "finish" /\ Exit /\ tree' = tree
        /\ file' = WithStatus(runs[r].st, "pending-verification", Target(r), runs[r].st.sha)
        /\ runs[r].st \in State
    BY DEF Finish, At, Save, IInv, TypeOK
  <1>2. Whole /\ tree.code = Target(r) /\ tree.ui = Target(r)
    BY <1>1 DEF TreeInv, RunTree
  <1>3. file'.status = "pending-verification" /\ file'.tag = Target(r)
    BY <1>1 DEF WithStatus, State
  <1> QED BY <1>1, <1>2, <1>3, ExitTree DEF Whole, Names

LEMMA AfterFailureTree ==
    ASSUME Orderly, NEW r \in Runs, IInv, StatusInv, TreeInv, UpdatesWait, AfterFailure(r)
    PROVE  TreeInv'
  <1>1. /\ runs[r].pc = "failed" /\ UNCHANGED <<file, tree>>
        /\ RunStatus(r) /\ RunTree(r)
    BY DEF AfterFailure, At, StatusInv, TreeInv
  <1>2. /\ rb.pc = "none"
        /\ \A q \in Runs \ {r} : runs[q].pc \in Outside
    BY <1>1, OwnerAlone DEF Executing
  <1>3. CASE RollsBack(loadState)
    <2>1. rb'.pc = "checkout" /\ Goto(r, "rollback")
      BY <1>3 DEF AfterFailure
    <2>2. /\ \A q \in Runs \ {r} : runs'[q] = runs[q]
          /\ runs'[r].pc = "rollback"
      BY <2>1 DEF Goto, IInv, TypeOK
    <2>3. AtWork' /\ RollbackTree' /\ RunTree(r)'
      BY <2>1, <2>2 DEF AtWork, RollbackTree, RunTree, Preparing
    <2> QED BY <1>2, <2>2, <2>3, RunStepTree DEF RestTrue
  <1>4. CASE ~RollsBack(loadState)
    <2>1. UNCHANGED rb /\ End(r)
      BY <1>4 DEF AfterFailure, Release
    <2>2. /\ \A q \in Runs \ {r} : runs'[q] = runs[q]
          /\ runs'[r].pc = "none"
      BY <2>1, EndRuns
    <2>3. \/ file.status \in {"idle", "scheduled"}
          \/ file.status = "rolling-back" /\ file.sha = 0
      BY <1>1, <1>4 DEF RunStatus, RollsBack, loadState, NeedsSha
    <2>4. Whole
      BY <1>1, <2>3 DEF RunTree
    <2>5. Intact' /\ RestTrue' /\ RollbackTree' /\ RunTree(r)'
      BY <1>1, <1>2, <2>1, <2>2, <2>3, <2>4
         DEF Intact, Settled, RestTrue, Names, Whole, RollbackTree, RunTree, Preparing
    <2> QED BY <1>2, <2>2, <2>5, RunStepTree
  <1> QED BY <1>3, <1>4

LEMMA TreeStep ==
    ASSUME Orderly, "rollback" \notin Deaths
    PROVE  IInv /\ StatusInv /\ TreeInv /\ UpdatesWait /\ UpdatesWait' /\ [Next]_vars => TreeInv'
  <1> SUFFICES ASSUME IInv, StatusInv, TreeInv, UpdatesWait, UpdatesWait', [Next]_vars
               PROVE  TreeInv'
    OBVIOUS
  <1>1. CASE \/ Boot \/ expressCreateServer \/ BackgroundWrite \/ markBootHealthy \/ HealthTimeout
    BY <1>1, BootTree, expressCreateServerTree, BackgroundWriteTree, HealthTimeoutTree
  <1>2. CASE Rollback
    BY <1>2, RollbackTreeStep
  <1>3. CASE TimerFires \/ Apply \/ Cancel \/ CancelSaves \/ Acknowledge \/ Repair
    BY <1>3, BootTree, TimerFiresTree, ApplyTree, CancelSavesTree, AcknowledgeTree, RepairTree
  <1>4. CASE \E v \in Versions : performCheck(v)
    BY <1>4, performCheckTree
  <1>5. CASE \E r \in Runs : RunStep(r)
    <2> PICK r \in Runs : RunStep(r)
      BY <1>5
    <2>1. CASE ExecutorStep(r)
      BY <2>1, SaveExecutingTree, CommandsTree, FinishTree, AfterFailureTree DEF ExecutorStep
    <2> QED BY <2>1, LoadTree, acquireLockTree, PreflightTree DEF RunStep
  <1>6. CASE Kill \/ Crash
    BY <1>6, DeathTree
  <1>7. CASE UNCHANGED vars
    <2>1. UNCHANGED <<file, tree, rb, runs>>
      BY <1>7 DEF vars
    <2> QED BY <2>1, SameTree DEF Entering
  <1> QED BY <1>1, <1>2, <1>3, <1>4, <1>5, <1>6, <1>7 DEF Next

LEMMA TreeInvMatches == IInv /\ TreeInv => TreeMatchesState
    BY DEF TreeInv, RestTrue, Intact, Whole, Names, TreeMatchesState

\* Whenever nothing changes the tree and no rollback has failed, the packages
\* are those of the release that is checked out, and it is the one the state
\* file names (TreeMatchesState of Updater; UpdateExecutor.ts,
\* RollbackHandler.ts): for every set of broken releases, and wherever the
\* process dies except within a rollback.
THEOREM TreeIsWhatTheFileSays ==
    ASSUME Orderly, "rollback" \notin Deaths
    PROVE  Spec /\ []UpdatesWait => []TreeMatchesState
  <1>1. IInv /\ StatusInv /\ TreeInv /\ UpdatesWait /\ UpdatesWait' /\ [Next]_vars => TreeInv'
    BY TreeStep
  <1>2. Spec => []StatusInv
    BY FileIsReliable
  <1> QED BY <1>1, <1>2, InitTree, TreeInvMatches, Invariance, PTL DEF Spec

=============================================================================

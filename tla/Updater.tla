------------------------------- MODULE Updater -------------------------------
(***************************************************************************)
(* The self-updater (node/updater, node/hooks/express/updateActions.ts):   *)
(* a state file that outlives the process, the process's own copy of it,   *)
(* the installed tree, and the runs of applyUpdate that an administrator   *)
(* or the scheduler's timer starts.  A supervisor restarts the process     *)
(* whenever it exits.                                                      *)
(***************************************************************************)
EXTENDS Naturals, Sequences

CONSTANTS
    MaxVersion,    \* releases are 1 .. MaxVersion; 1 is installed at first
    Broken,        \* releases that never become healthy
    Tier,          \* settings.updates.tier
    StalePolls,    \* FALSE: a poll only ends while memory agrees with the file
    LockRaces,     \* FALSE: a run only starts while no other one is about the lock
    Cancels,       \* the situations in which the administrator cancels
    Deaths,        \* the situations in which the process may be killed
    MaxKills       \* a bound on these

Versions == 1 .. MaxVersion
Tiers    == {"off", "notify", "manual", "auto", "autonomous"}
CancelSituations == {"scheduled", "starting", "preflight", "handover", "draining", "timer",
                     "overlap"}
DeathSituations  == {"rest", "prepare", "execute", "boot", "rollback", "early"}

ASSUME UpdaterAssumption ==
    /\ MaxVersion \in Nat \ {0}
    /\ Broken \subseteq Versions
    /\ Tier \in Tiers
    /\ StalePolls \in BOOLEAN
    /\ LockRaces \in BOOLEAN
    /\ Cancels \subseteq CancelSituations
    /\ Deaths \subseteq DeathSituations
    /\ MaxKills \in Nat

VARIABLES
    file,       \* var/update-state.json
    mem,        \* inMemoryState of the running process
    tree,       \* the working tree: its release, the one its packages and pages are of
    proc,       \* the process: its phase and the release it runs
    lock,       \* var/update.lock: absent, naming a live or a dead process, or a run
                \* of this process that has created it and not yet written it
    runs,       \* the calls of applyUpdate: where each is, and the state it holds
    timer,      \* the release the scheduler is armed for, or 0
    drainer,    \* the drainer of the run in progress
    accepting,  \* acceptingConnections
    cancel,     \* a cancel request that has read the file and not yet written it
    health,     \* the health-check timer of this boot: armed, and the state it holds
    writes,     \* writes of the file nobody awaits, in order
    rb,         \* performRollback: its next step, and the state it holds
    kills

vars == <<file, mem, tree, proc, lock, runs, timer, drainer, accepting, cancel,
          health, writes, rb, kills>>

Runs == {"admin", "timer"}

Statuses == {"idle", "scheduled", "preflight", "preflight-failed", "draining", "executing",
             "pending-verification", "verified", "rolling-back", "rolled-back", "rollback-failed"}

\* sha is fromSha or restoredSha, 0 where a status has none.
State == [status: Statuses, tag: 0 .. MaxVersion, sha: 0 .. MaxVersion,
          boot: 0 .. 3, latest: 0 .. MaxVersion]

EmptyState == [status |-> "idle", tag |-> 0, sha |-> 0, boot |-> 0, latest |-> 0]

WithStatus(s, status, tag, sha) ==
    [s EXCEPT !.status = status, !.tag = tag, !.sha = sha]

Idle(s) == WithStatus(s, "idle", 0, 0)

NeedsSha == {"executing", "pending-verification", "rolling-back", "rolled-back", "rollback-failed"}

\* A file whose execution lacks a field it must have is reset.
loadState == IF file.status \in NeedsSha /\ file.sha = 0 THEN EmptyState ELSE file

Up == proc.phase \in {"up", "healthy"}

(***************************************************************************)
(* UpdatePolicy, Scheduler.                                                *)
(***************************************************************************)
canManual(s) == /\ Tier \in {"manual", "auto", "autonomous"}
                /\ proc.version < s.latest

canAuto(s)   == /\ Tier \in {"auto", "autonomous"}
                /\ proc.version < s.latest
                /\ s.status # "rollback-failed"

AllowedEntry == {"idle", "verified", "preflight-failed", "rolled-back", "scheduled"}
CanceledFrom == {"scheduled", "preflight", "draining"}

\* decideSchedule: what a poll makes of the execution.
decideSchedule(s) ==
    IF s.latest = 0 THEN s
    ELSE IF ~canAuto(s) THEN IF s.status = "scheduled" THEN Idle(s) ELSE s
    ELSE IF s.status \in {"idle", "verified"} \/ (s.status = "scheduled" /\ s.tag # s.latest)
         THEN WithStatus(s, "scheduled", s.latest, 0)
    ELSE s

(***************************************************************************)
(* Runs.                                                                   *)
(***************************************************************************)
\* canceled: a cancel was accepted after this run was started and before it had
\* recorded that it executes.  The program keeps no such thing.
NoRun  == [pc |-> "none", st |-> EmptyState, canceled |-> FALSE]
NoCall == [pc |-> "none", st |-> EmptyState]

Goto(r, pc)        == runs' = [runs EXCEPT ![r].pc = pc]
GotoWith(r, pc, s) == runs' = [runs EXCEPT ![r].pc = pc, ![r].st = s]
End(r)             == runs' = [runs EXCEPT ![r] = NoRun]

Locking   == {"create", "write", "read", "reap", "recreate"}
Preparing == {"locked", "preflight", "opening", "opened", "drain"}
Executing == {"readSha", "fetch", "checkout", "install", "build", "finish", "failed", "rollback"}
Owners    == {r \in Runs : runs[r].pc \in Preparing \cup Executing}

\* The stages at which a run has not yet recorded that it executes.
Unexecuted == {"load", "readSha"} \cup Locking \cup Preparing

\* Where the administrator may be clicking, and where a kill may fall.
CancelSituation ==
    IF \E r \in Runs : runs[r].pc \in {"load", "locked"} \cup Locking THEN "starting"
    ELSE IF \E r \in Runs : runs[r].pc \in {"opening", "opened", "readSha"} THEN "handover"
    ELSE IF runs["timer"].pc = "drain" THEN "timer"
    ELSE loadState.status

DeathSituation ==
    IF proc.phase = "starting" THEN "early"
    ELSE IF rb.pc # "none" THEN "rollback"
    ELSE IF \E r \in Runs : runs[r].pc \in Executing THEN "execute"
    ELSE IF \E r \in Runs : runs[r].pc # "none" THEN "prepare"
    ELSE IF health.armed \/ writes # <<>> THEN "boot"
    ELSE "rest"

\* Runs wait for a cancel request to end where the instance says they do.
CancelSettled == cancel.pc = "none" \/ "overlap" \in Cancels

\* The process is gone: what it kept in memory is lost, its lock is stale.
Exit ==
    /\ proc' = [proc EXCEPT !.phase = "down"]
    /\ lock' = IF lock = "free" THEN "free" ELSE "stale"
    /\ runs' = [r \in Runs |-> NoRun]
    /\ mem' = EmptyState
    /\ timer' = 0
    /\ drainer' = "none"
    /\ accepting' = TRUE
    /\ cancel' = NoCall
    /\ health' = [armed |-> FALSE, st |-> EmptyState]
    /\ writes' = <<>>
    /\ rb' = NoCall

Init ==
    /\ file = EmptyState
    /\ mem = EmptyState
    /\ tree = [code |-> 1, deps |-> 1, ui |-> 1]
    /\ proc = [phase |-> "down", version |-> 1]
    /\ lock = "free"
    /\ runs = [r \in Runs |-> NoRun]
    /\ timer = 0
    /\ drainer = "none"
    /\ accepting = TRUE
    /\ cancel = NoCall
    /\ health = [armed |-> FALSE, st |-> EmptyState]
    /\ writes = <<>>
    /\ rb = NoCall
    /\ kills = 0

(***************************************************************************)
(* Start of the process (expressCreateServer, RollbackHandler).            *)
(***************************************************************************)
Boot ==
    /\ proc.phase = "down"
    /\ proc' = [phase |-> "starting", version |-> tree.code]
    /\ UNCHANGED <<file, mem, tree, lock, runs, timer, drainer, accepting, cancel,
                   health, writes, rb, kills>>

\* checkPendingVerification: the boot is counted by a write nobody awaits, and
\* the timer is armed; the fourth boot rolls back instead.
CrashLoop_never(s) == FALSE
CrashLoop(s) == s.boot > 2

Counted_not(s) == s
Counted(s)     == [s EXCEPT !.boot = @ + 1]

checkPendingVerification(s) ==
    IF s.status # "pending-verification" THEN UNCHANGED <<health, writes, rb>>
    ELSE IF CrashLoop(s)
         THEN /\ rb' = [pc |-> "checkout", st |-> s]
              /\ UNCHANGED <<health, writes>>
         ELSE /\ health' = [armed |-> TRUE, st |-> Counted(s)]
              /\ writes' = Append(writes, Counted(s))
              /\ UNCHANGED rb

expressCreateServer ==
    LET s     == loadState
        clear == Tier = "off" /\ s.status = "scheduled" IN
    /\ proc.phase = "starting"
    /\ proc' = [proc EXCEPT !.phase = "up"]
    /\ checkPendingVerification(s)
    /\ mem' = IF clear THEN Idle(s) ELSE s
    /\ file' = IF clear THEN Idle(s) ELSE file
    /\ timer' = IF s.status = "scheduled" /\ ~clear THEN s.tag ELSE 0
    /\ UNCHANGED <<tree, lock, runs, drainer, accepting, cancel, kills>>

BackgroundWrite ==
    /\ writes # <<>>
    /\ file' = Head(writes)
    /\ writes' = Tail(writes)
    /\ UNCHANGED <<mem, tree, proc, lock, runs, timer, drainer, accepting, cancel,
                   health, rb, kills>>

verified(s) == [WithStatus(s, "verified", s.tag, 0) EXCEPT !.boot = 0]

markVerified_first == <<verified(health.st)>> \o writes
markVerified       == Append(writes, verified(health.st))

\* The server is RUNNING.  A timer that has fired does not stop this.
markBootHealthy ==
    /\ proc.phase = "up"
    /\ proc.version \notin Broken
    /\ proc' = [proc EXCEPT !.phase = "healthy"]
    /\ health' = [armed |-> FALSE, st |-> EmptyState]
    /\ writes' = IF health.armed THEN markVerified ELSE writes
    /\ UNCHANGED <<file, mem, tree, lock, runs, timer, drainer, accepting, cancel, rb, kills>>

HealthTimeout ==
    /\ health.armed
    /\ rb.pc = "none"
    /\ rb' = [pc |-> "checkout",
              st |-> WithStatus(health.st, "rolling-back", health.st.tag, health.st.sha)]
    /\ UNCHANGED <<file, mem, tree, proc, lock, runs, timer, drainer, accepting, cancel,
                   health, writes, kills>>

(***************************************************************************)
(* performRollback.  It ends the process, whatever its outcome.            *)
(***************************************************************************)
RollBackTo(status) ==
    /\ file' = [WithStatus(rb.st, status, rb.st.tag, rb.st.sha) EXCEPT !.boot = 0]
    /\ Exit
    /\ UNCHANGED kills

installed_not(t) == t
installed(t)     == [t EXCEPT !.deps = t.code]

RollbackStep(pc, next) ==
    /\ rb.pc = pc
    /\ rb' = [rb EXCEPT !.pc = next]
    /\ UNCHANGED <<file, mem, proc, lock, runs, timer, drainer, accepting, cancel,
                   health, writes, kills>>

RollbackCheckout == RollbackStep("checkout", "install") /\ tree' = [tree EXCEPT !.code = rb.st.sha]
RollbackInstall  == RollbackStep("install", "save") /\ tree' = installed(tree)
RollbackDone     == rb.pc = "save" /\ RollBackTo("rolled-back") /\ UNCHANGED tree

RollbackFails ==
    /\ rb.pc \in {"checkout", "install"}
    /\ RollBackTo("rollback-failed")
    /\ tree' = IF rb.pc = "install" THEN [tree EXCEPT !.deps = 0] ELSE tree

(***************************************************************************)
(* Polls, and the scheduler's timer.                                       *)
(***************************************************************************)
\* performCheck, once GitHub has answered with release v or with no news.
performCheck(v) ==
    LET s == decideSchedule([mem EXCEPT !.latest = v]) IN
    /\ Up
    /\ Tier # "off"
    /\ v >= mem.latest
    /\ StalePolls \/ (mem = loadState /\ writes = <<>> /\ cancel.pc = "none")
    /\ mem' = s
    /\ file' = s
    /\ timer' = IF s.status = "scheduled" /\ (mem.status # "scheduled" \/ mem.tag # s.tag)
                THEN s.tag
                ELSE IF mem.status = "scheduled" /\ s.status = "idle" THEN 0 ELSE timer
    /\ UNCHANGED <<tree, proc, lock, runs, drainer, accepting, cancel, health, writes, rb, kills>>

\* schedulerTriggerApply.  (A fire outside the maintenance window re-arms the
\* timer for the next one, which leaves everything modelled as it is.)
TimerFires ==
    LET s    == loadState
        mine == s.status = "scheduled" /\ s.tag = timer /\ s.latest # 0 IN
    /\ timer # 0
    /\ runs["timer"].pc = "none"
    /\ timer' = 0
    /\ file' = IF mine /\ ~canAuto(s) THEN Idle(s) ELSE file
    /\ IF mine /\ canAuto(s)
       THEN GotoWith("timer", "load", [s EXCEPT !.tag = timer])
       ELSE UNCHANGED runs
    /\ UNCHANGED <<mem, tree, proc, lock, drainer, accepting, cancel, health, writes, rb, kills>>

(***************************************************************************)
(* The administrator's requests.                                           *)
(***************************************************************************)
Apply ==
    LET s == loadState IN
    /\ Up
    /\ runs["admin"].pc = "none"
    /\ s.latest # 0
    /\ s.status \in AllowedEntry
    /\ canManual(s)
    /\ timer' = IF s.status = "scheduled" THEN 0 ELSE timer
    /\ GotoWith("admin", "load", [s EXCEPT !.tag = s.latest])
    /\ UNCHANGED <<file, mem, tree, proc, lock, drainer, accepting, cancel, health, writes,
                   rb, kills>>

CancelAccepts_shut(drains) == accepting
CancelAccepts(drains)      == accepting \/ drains

\* The handler knows the drainer of the administrator's own run only.
Cancel ==
    LET s      == loadState
        drains == runs["admin"].pc \in {"opening", "opened", "drain"}
                  /\ drainer \in {"made", "running"} IN
    /\ Up
    /\ cancel.pc = "none"
    /\ s.status \in CanceledFrom
    /\ CancelSituation \in Cancels
    /\ cancel' = [pc |-> "save", st |-> s]
    /\ runs' = [r \in Runs |-> [runs[r] EXCEPT !.canceled = @ \/ runs[r].pc \in Unexecuted]]
    /\ timer' = IF s.status = "scheduled" THEN 0 ELSE timer
    /\ drainer' = IF ~drains THEN drainer
                  ELSE IF drainer = "running" THEN "resolved" ELSE "cancelled"
    /\ accepting' = CancelAccepts(drains)
    /\ UNCHANGED <<file, mem, tree, proc, lock, health, writes, rb, kills>>

CancelSaves ==
    /\ cancel.pc = "save"
    /\ file' = Idle(cancel.st)
    /\ cancel' = NoCall
    /\ UNCHANGED <<mem, tree, proc, lock, runs, timer, drainer, accepting, health, writes,
                   rb, kills>>

\* An installation that could not be rolled back is repaired before this.
Acknowledge ==
    LET s == loadState IN
    /\ Up
    /\ s.status \in {"rollback-failed", "preflight-failed", "rolled-back"}
    /\ s.status = "rollback-failed" =>
           tree.deps = tree.code /\ proc.version = tree.code /\ tree.code \notin Broken
    /\ file' = [Idle(s) EXCEPT !.boot = 0]
    /\ UNCHANGED <<mem, tree, proc, lock, runs, timer, drainer, accepting, cancel, health,
                   writes, rb, kills>>

\* The operator restores the installation by hand and restarts.
Repair ==
    /\ file.status = "rollback-failed"
    /\ Owners = {} /\ rb.pc = "none"
    /\ \E v \in Versions \ Broken : tree' = [code |-> v, deps |-> v, ui |-> v]
    /\ Exit
    /\ UNCHANGED <<file, kills>>

(***************************************************************************)
(* applyUpdate and executeUpdate.                                          *)
(***************************************************************************)
At(r, pc)  == Up /\ runs[r].pc = pc /\ CancelSettled
RunOnly    == UNCHANGED <<mem, proc, timer, cancel, health, writes, rb, kills>>
Waiting    == UNCHANGED <<drainer, accepting>>
Save(s)   == file' = s
Release(r) == End(r) /\ lock' = "free"

Target(r)  == runs[r].st.tag

Load(r) ==
    LET s == loadState IN
    /\ At(r, "load")
    /\ LockRaces \/ \A q \in Runs : runs[q].pc \notin Locking
    /\ IF s.latest = Target(r) /\ s.status \in AllowedEntry
       THEN GotoWith(r, "create", WithStatus(s, "preflight", Target(r), 0))
       ELSE End(r)
    /\ RunOnly /\ Waiting /\ UNCHANGED <<file, tree, lock>>

\* acquireLock: the file is made if there is none, and written a moment later.
\* One that exists is read, and unlinked and made once more unless it names a
\* live process: nothing can be read in a file that is not yet written.
CreateLock(r) ==
    /\ At(r, "create") \/ At(r, "recreate")
    /\ IF lock = "free" THEN lock' = r /\ Goto(r, "write")
       ELSE /\ IF runs[r].pc = "create" THEN Goto(r, "read") ELSE End(r)
            /\ UNCHANGED lock
    /\ RunOnly /\ Waiting /\ UNCHANGED <<file, tree>>

\* What is written is gone if another run has unlinked the file.
WriteLock(r) ==
    /\ At(r, "write")
    /\ lock' = IF lock = r THEN "held" ELSE lock
    /\ Goto(r, "locked")
    /\ RunOnly /\ Waiting /\ UNCHANGED <<file, tree>>

HolderIsLive_never == FALSE
HolderIsLive       == lock = "held"

ReadLock(r) ==
    /\ At(r, "read")
    /\ IF HolderIsLive THEN End(r) ELSE Goto(r, "reap")
    /\ RunOnly /\ Waiting /\ UNCHANGED <<file, tree, lock>>

ReapLock(r) ==
    /\ At(r, "reap")
    /\ lock' = "free"
    /\ Goto(r, "recreate")
    /\ RunOnly /\ Waiting /\ UNCHANGED <<file, tree>>

acquireLock(r) == CreateLock(r) \/ WriteLock(r) \/ ReadLock(r) \/ ReapLock(r)

SavePreflight(r) ==
    /\ At(r, "locked")
    /\ Save(runs[r].st)
    /\ Goto(r, "preflight")
    /\ RunOnly /\ Waiting /\ UNCHANGED <<tree, lock>>

PreflightFails(r) ==
    /\ At(r, "preflight")
    /\ Save(WithStatus(runs[r].st, "preflight-failed", Target(r), 0))
    /\ Release(r)
    /\ RunOnly /\ Waiting /\ UNCHANGED tree

StillInPreflight_assumed(r) == TRUE
StillInPreflight(r) == loadState.status = "preflight" /\ loadState.tag = Target(r)

PreflightPasses(r) ==
    /\ At(r, "preflight")
    /\ IF StillInPreflight(r)
       THEN Goto(r, "opening") /\ drainer' = "made" /\ UNCHANGED lock
       ELSE Release(r) /\ UNCHANGED drainer
    /\ RunOnly /\ UNCHANGED <<file, tree, accepting>>

SaveDraining(r) ==
    /\ At(r, "opening")
    /\ Save(WithStatus(runs[r].st, "draining", Target(r), 0))
    /\ Goto(r, "opened")
    /\ RunOnly /\ Waiting /\ UNCHANGED <<tree, lock>>

\* start() does not look whether cancel() has been called.
StartDrain(r) ==
    /\ At(r, "opened")
    /\ accepting' = FALSE
    /\ drainer' = IF drainer = "made" THEN "running" ELSE drainer
    /\ Goto(r, "drain")
    /\ RunOnly /\ UNCHANGED <<file, tree, lock>>

DrainEnds(r) ==
    /\ At(r, "drain")
    /\ drainer = "running"
    /\ accepting' = TRUE
    /\ drainer' = "none"
    /\ GotoWith(r, "readSha", [loadState EXCEPT !.tag = Target(r)])
    /\ RunOnly /\ UNCHANGED <<file, tree, lock>>

DrainCanceled(r) ==
    /\ At(r, "drain")
    /\ drainer = "resolved"
    /\ drainer' = "none"
    /\ Release(r)
    /\ RunOnly /\ UNCHANGED <<file, tree, accepting>>

\* Saves `executing' before anything is changed.
SaveExecuting(r) ==
    LET s == [WithStatus(runs[r].st, "executing", Target(r), tree.code) EXCEPT !.boot = 0] IN
    /\ At(r, "readSha")
    /\ Save(s)
    /\ GotoWith(r, "fetch", s)
    /\ RunOnly /\ Waiting /\ UNCHANGED <<tree, lock>>

\* readSha or copyFile throws; without readSha there is nothing to return to.
ExecutorThrows(r) ==
    /\ At(r, "readSha")
    /\ \E sha \in {0, tree.code} :
         Save([WithStatus(runs[r].st, "rolling-back", Target(r), sha) EXCEPT !.boot = 0])
    /\ Goto(r, "failed")
    /\ RunOnly /\ Waiting /\ UNCHANGED <<tree, lock>>

\* One command of the executor, which leaves the tree as `to' when it succeeds
\* and as `otherwise' when it fails.
Command(r, pc, next, to, otherwise) ==
    /\ At(r, pc)
    /\ \/ /\ tree' = to
          /\ Goto(r, next)
          /\ UNCHANGED file
       \/ /\ tree' = otherwise
          /\ Save(WithStatus(runs[r].st, "rolling-back", Target(r), runs[r].st.sha))
          /\ Goto(r, "failed")
    /\ RunOnly /\ Waiting /\ UNCHANGED lock

Fetch(r)    == Command(r, "fetch", "checkout", tree, tree)
Checkout(r) == Command(r, "checkout", "install", [tree EXCEPT !.code = Target(r)], tree)
Install(r)  == Command(r, "install", "build", [tree EXCEPT !.deps = tree.code],
                       [tree EXCEPT !.deps = 0])
Build(r)    == Command(r, "build", "finish",
                       [tree EXCEPT !.ui = tree.code], [tree EXCEPT !.ui = 0])

Finish(r) ==
    /\ At(r, "finish")
    /\ Save(WithStatus(runs[r].st, "pending-verification", Target(r), runs[r].st.sha))
    /\ Exit
    /\ UNCHANGED <<tree, kills>>

RollsBack(s) == s.status = "rolling-back"

\* The pipeline rolls back if the file tells it to.
AfterFailure(r) ==
    LET s == loadState IN
    /\ At(r, "failed")
    /\ IF RollsBack(s)
       THEN /\ rb' = [pc |-> "checkout", st |-> s]
            /\ Goto(r, "rollback")
            /\ UNCHANGED lock
       ELSE Release(r) /\ UNCHANGED rb
    /\ Waiting /\ UNCHANGED <<file, mem, tree, proc, timer, cancel, health, writes, kills>>

ExecutorStep(r) ==
    \/ SaveExecuting(r) \/ ExecutorThrows(r) \/ Fetch(r) \/ Checkout(r) \/ Install(r)
    \/ Build(r) \/ Finish(r) \/ AfterFailure(r)

RunStep(r) ==
    \/ Load(r) \/ acquireLock(r) \/ SavePreflight(r) \/ PreflightFails(r) \/ PreflightPasses(r)
    \/ SaveDraining(r) \/ StartDrain(r) \/ DrainEnds(r) \/ DrainCanceled(r) \/ ExecutorStep(r)

Rollback == RollbackCheckout \/ RollbackInstall \/ RollbackDone \/ RollbackFails

(***************************************************************************)
(* The end of the process from outside, or by a release that cannot run.   *)
(***************************************************************************)
Kill ==
    /\ proc.phase # "down"
    /\ kills < MaxKills
    /\ DeathSituation \in Deaths
    /\ kills' = kills + 1
    /\ Exit
    /\ UNCHANGED <<file, tree>>

\* A broken release goes down by itself, after its first writes.
Crash ==
    /\ proc.phase = "up" \/ (proc.phase = "starting" /\ "early" \in Deaths)
    /\ proc.version \in Broken
    /\ writes = <<>>
    /\ rb.pc = "none" \/ "rollback" \in Deaths
    /\ Exit
    /\ UNCHANGED <<file, tree, kills>>

Next ==
    \/ Boot \/ expressCreateServer \/ BackgroundWrite \/ markBootHealthy \/ HealthTimeout
    \/ Rollback \/ TimerFires \/ Apply \/ Cancel \/ CancelSaves \/ Acknowledge \/ Repair
    \/ \E v \in Versions : performCheck(v)
    \/ \E r \in Runs : RunStep(r)
    \/ Kill \/ Crash

Spec == Init /\ [][Next]_vars

(***************************************************************************)
(* The supervisor restarts the process, handlers and child processes go on *)
(* until they end, and timers fire.  Nobody has to poll, apply, cancel,    *)
(* acknowledge or repair.                                                  *)
(***************************************************************************)
Fairness ==
    /\ WF_vars(Boot) /\ WF_vars(expressCreateServer) /\ WF_vars(BackgroundWrite)
    /\ WF_vars(markBootHealthy) /\ WF_vars(HealthTimeout)
    /\ WF_vars(Rollback) /\ WF_vars(TimerFires) /\ WF_vars(CancelSaves)
    /\ \A r \in Runs : WF_vars(RunStep(r))

FairSpec == Spec /\ Fairness

-----------------------------------------------------------------------------
Pcs == {"none", "load"} \cup Locking \cup Preparing \cup Executing

\* The state file always has one of its shapes, and the process the phases,
\* runs, timers and pending writes that types.ts and index.ts declare.
TypeOK ==
    /\ file \in State /\ mem \in State
    /\ tree \in [code : Versions, deps : 0 .. MaxVersion, ui : 0 .. MaxVersion]
    /\ proc \in [phase : {"down", "starting", "up", "healthy"}, version : Versions]
    /\ lock \in {"free", "held", "stale"} \cup Runs
    /\ runs \in [Runs -> [pc : Pcs, st : State, canceled : BOOLEAN]]
    /\ timer \in 0 .. MaxVersion
    /\ drainer \in {"none", "made", "running", "resolved", "cancelled"}
    /\ accepting \in BOOLEAN
    /\ cancel \in [pc : {"none", "save"}, st : State]
    /\ health \in [armed : BOOLEAN, st : State]
    /\ writes \in Seq(State)
    /\ rb \in [pc : {"none", "checkout", "install", "save"}, st : State]
    /\ kills \in 0 .. MaxKills

\* The lock is held by exactly the run that is past acquireLock, so that two
\* runs never change the tree or the file at once.
OneRunHoldsTheLock ==
    /\ \A r, q \in Owners : r = q
    /\ Owners # {} <=> lock = "held"

AtWork == rb.pc # "none" \/ \E r \in Runs : runs[r].pc \in Executing

Settled == {"idle", "scheduled", "preflight", "preflight-failed", "draining", "verified",
            "pending-verification", "rolled-back"}

\* Whenever nothing changes the tree and the file does not say that a rollback
\* failed, the packages are those of the release that is checked out, and that
\* release is the one the file names: the target once it is to be verified,
\* and what ran before once it is rolled back.
TreeMatchesState ==
    ~AtWork /\ file.status \in Settled =>
        /\ tree.deps = tree.code
        /\ file.status \in {"verified", "pending-verification"} =>
               tree.code = file.tag /\ tree.ui = file.tag
        /\ file.status = "rolled-back" => tree.code = file.sha

\* Once a cancel has been accepted, no update is executed that had not begun to
\* by then, whatever its run saves or reads afterwards.
CanceledStaysCanceled ==
    \A r \in Runs : runs[r].canceled => runs[r].pc \notin Executing

\* Once the server is healthy and the verdict is on disk, the file does not ask
\* for a verification any more.
HealthyIsVerified ==
    proc.phase = "healthy" /\ writes = <<>> /\ rb.pc = "none" =>
        file.status # "pending-verification"

\* A broken release is left again, or the administrator is told that this failed.
BrokenReleaseIsLeft ==
    tree.code \in Broken /\ proc.phase = "down" ~>
        tree.code \notin Broken \/ file.status = "rollback-failed"

\* A drain ends and lets browsers in again.
GateOpensAgain == ~accepting ~> accepting

\* An update that has begun to change the tree comes to an end that is recorded.
UpdateEnds ==
    loadState.status \in {"executing", "pending-verification", "rolling-back"} ~>
        loadState.status \in {"verified", "rolled-back", "rollback-failed", "idle"}
=============================================================================

------------------------------ MODULE PadRecords ------------------------------
(***************************************************************************)
(* Pads and their database records: the cache of loaded pads               *)
(* (node/db/PadManager.ts), what a Pad writes (node/db/Pad.ts), and the    *)
(* removal of old revisions (node/utils/Cleanup.ts).                       *)
(*                                                                         *)
(* A call of the server is a task; it runs from one await to the next      *)
(* while others run in between.  The database library answers reads from   *)
(* what was last set, and resolves a write once it is on disk; the keys    *)
(* reach the disk in any order, and a crash loses those that have not.     *)
(*                                                                         *)
(* A text is the sequence of the edits that made it, a changeset the edits *)
(* it adds.                                                                *)
(*                                                                         *)
(* A definition right before the one it varies (Unloaded_not before        *)
(* Unloaded) is a mistake the properties must notice.                      *)
(***************************************************************************)
EXTENDS Naturals, Integers, Sequences, FiniteSets, SequencesExt, Functions, TLC

CONSTANTS
    Tasks, Pads,
    Nothing,       \* no record, no object, no pad
    Stored,        \* the pad that is stored initially, with one edit
    Ops,           \* which calls are made: "open", "append", "chat", "save",
                   \* "remove", "copy", "snapshot", "move", "compact", "collapse"
    KeyInterval,   \* every such revision holds the whole text; 100 in the code
    KeepRevisions, \* what "compact" keeps
    CopyBatch,     \* how many records a copy reads before it awaits one; 100 in the code
    Overlaps,      \* what may overlap calls on the same pad: "load" a first load,
                   \* "remove", "compact", "copy" onto it, and "chat" the copy of more
                   \* than a batch, which reads the messages last
    MaxCalls, MaxHead, MaxCrashes   \* bounds on calls, revisions of a pad, crashes

ASSUME RecordsAssumption ==
    /\ IsFiniteSet(Tasks) /\ IsFiniteSet(Pads) /\ Stored \in Pads
    /\ Ops \subseteq {"open", "append", "chat", "save", "remove", "copy", "snapshot", "move",
                      "compact", "collapse"}
    /\ KeyInterval \in Nat \ {0} /\ KeepRevisions \in Nat /\ CopyBatch \in Nat
    /\ Overlaps \subseteq {"load", "remove", "compact", "copy", "chat"}
    /\ MaxCalls \in Nat \ {0} /\ MaxHead \in Nat \ {0} /\ MaxCrashes \in Nat
    /\ Nothing \notin Pads \cup Nat
    /\ Nothing \notin [head : Int, chatHead : Int, saved : SUBSET Nat, text : Seq(Nat)]
    /\ Nothing \notin [changeset : Seq(Nat), atext : Seq(Nat) \cup {Nothing}]

VARIABLES
    view,     \* each record as a read returns it
    disk,     \* each record as it has been written
    mem,      \* the Pad objects, by number
    cache,    \* globalPads: the object of each loaded pad
    task,
    kept,     \* edits and messages of each pad whose calls have returned
    forgone,  \* those of kept that compacting the whole history has given up
    stray,    \* messages that a copy has read but that its record does not count
    calls,
    crashes

vars == <<view, disk, mem, cache, task, kept, forgone, stray, calls, crashes>>

PadKey(p)     == <<"pad", p, 0>>
RevKey(p, r)  == <<"revs", p, r>>
ChatKey(p, n) == <<"chat", p, n>>
RevKeys(p, head)      == {RevKey(p, r) : r \in 0 .. head}
ChatKeys(p, chatHead) == {ChatKey(p, n) : n \in 0 .. chatHead}
RecordKeys(p, pad)    == {PadKey(p)} \cup RevKeys(p, pad.head) \cup ChatKeys(p, pad.chatHead)
KeysOf(p)     == {PadKey(p)} \cup RevKeys(p, MaxHead) \cup ChatKeys(p, MaxCalls)
Keys          == UNION {KeysOf(p) : p \in Pads}

NewPad  == [head |-> -1, chatHead |-> -1, saved |-> {}, text |-> <<>>]

Idle == [pc |-> "idle", op |-> "none", pad |-> Nothing, dst |-> Nothing,
         held |-> Nothing,    \* the object of pad
         obj |-> Nothing,     \* the object being loaded
         awaits |-> {},       \* the keys whose writes are awaited
         n |-> 0,             \* the edit or message of this call
         records |-> {},      \* what has been read and is still to be written
         from |-> <<>>]       \* the text when the call took it up

\* The calls that copy a pad with its history (copyPad, movePad), and without
\* (copyPadWithoutHistory, and both halves of deleteAllRevisions).
Copies    == {"copy", "move"}
Snapshots == {"snapshot", "collapse", "recreate"}

IsKeyRevision(r) == r % KeyInterval = 0
Revision(r, cs, text) ==
    [changeset |-> cs, atext |-> IF IsKeyRevision(r) THEN text ELSE Nothing]

-----------------------------------------------------------------------------
(* Pad *)

\* appendRevision: a changeset without effect makes no revision.
HasEffect(pad, cs) == cs # <<>> \/ pad.head = -1
appendRevision(pad, cs) ==
    IF HasEffect(pad, cs) THEN [pad EXCEPT !.head = @ + 1, !.text = @ \o cs] ELSE pad

revisionRecords(p, pad, cs) ==
    LET new == appendRevision(pad, cs) IN
    IF HasEffect(pad, cs)
    THEN [k \in {RevKey(p, new.head), PadKey(p)} |->
             IF k = PadKey(p) THEN new ELSE Revision(new.head, cs, new.text)]
    ELSE <<>>

\* The head is not kept waiting for its record.
RevisionAwaits_recordless(p, pad, cs) ==
    DOMAIN revisionRecords(p, pad, cs) \ {PadKey(p)}
RevisionAwaits(p, pad, cs) == DOMAIN revisionRecords(p, pad, cs)

\* remove: everything up to the heads of the object at hand.
Removed_short(p, pad) ==
    [k \in {PadKey(p)} \cup RevKeys(p, pad.head - 1) \cup ChatKeys(p, pad.chatHead) |-> Nothing]
Removed(p, pad) == [k \in RecordKeys(p, pad) |-> Nothing]

Set(records)   == view' = [k \in Keys |-> IF k \in DOMAIN records THEN records[k] ELSE view[k]]
SetOne(k, rec) == view' = [view EXCEPT ![k] = rec]

-----------------------------------------------------------------------------
Exists(p) == view[PadKey(p)] # Nothing
Busy(t)   == task[t].pc # "idle"
Uses(t)   == {task[t].pad, task[t].dst} \ {Nothing}

\* The pads a call should have to itself.
Alone(op, p, q) ==
    (IF cache[p] = Nothing /\ "load" \notin Overlaps THEN {p} ELSE {})
        \cup (IF op \in {"remove", "move"} /\ "remove" \notin Overlaps THEN {p} ELSE {})
        \cup (IF op \in {"compact", "collapse"} /\ "compact" \notin Overlaps THEN {p} ELSE {})
        \cup (IF op = "recreate" THEN {p} ELSE {})    \* nobody knows its name
        \cup (IF op \in Copies \cup Snapshots /\ "copy" \notin Overlaps THEN {q} ELSE {})

Undisturbed(t, op, p, q) ==
    \A u \in Tasks \ {t} : Busy(u) =>
        /\ Alone(op, p, q) \cap Uses(u) = {}
        /\ ({p, q} \ {Nothing}) \cap Alone(task[u].op, task[u].pad, task[u].dst) = {}

\* Objects nobody refers to are forgotten.
Live(m, c, ts) ==
    Restrict(m, {o \in DOMAIN m : \/ \E p \in Pads : c[p] = o
                                  \/ \E t \in Tasks : o \in {ts[t].held, ts[t].obj}})

Init ==
    /\ view = [k \in Keys |->
                 IF k = PadKey(Stored) THEN [NewPad EXCEPT !.head = 1, !.text = <<0, 1>>]
                 ELSE IF k = RevKey(Stored, 0) THEN Revision(0, <<0>>, <<0>>)
                 ELSE IF k = RevKey(Stored, 1) THEN Revision(1, <<1>>, <<0, 1>>)
                 ELSE Nothing]
    /\ disk = view
    /\ mem = <<>>
    /\ cache = [p \in Pads |-> Nothing]
    /\ task = [t \in Tasks |-> Idle]
    /\ kept = [p \in Pads |-> IF p = Stored THEN {0, 1} ELSE {}]
    /\ forgone = [p \in Pads |-> {}]
    /\ stray = {}
    /\ calls = 1
    /\ crashes = 0

\* A task in state pc, done with its awaits.
At(t, pc) == task[t].pc = pc /\ task[t].awaits = {}

\* The task goes on at pc, having set records that it awaits.
Goto(t, pc, awaits) == [task[t] EXCEPT !.pc = pc, !.awaits = awaits]
Step(t, new) == task' = [task EXCEPT ![t] = new]

\* A call arrives.  Only opening a pad may create it.
Call(t) ==
    /\ ~Busy(t)
    /\ calls < MaxCalls
    /\ \E op \in Ops, p \in Pads, q \in Pads \cup {Nothing} :
         /\ (q \in Pads) = (op \in Copies \cup Snapshots)
         /\ p # q
         /\ op # "open" => Exists(p)
         /\ op = "collapse" => ~Exists(q) \* a random name
         /\ Undisturbed(t, op, p, q)
         /\ Step(t, [Idle EXCEPT !.pc = "getPad", !.op = op, !.pad = p, !.dst = q,
                                 !.n = IF op \in {"append", "chat"} THEN calls + 1 ELSE 0])
    /\ calls' = calls + 1
    /\ UNCHANGED <<view, disk, mem, cache, kept, forgone, stray, crashes>>

\* The call is over.  What it has been asked to keep is kept from here on.
Return(t, m, c, keeps) ==
    /\ Step(t, Idle)
    /\ mem' = Live(m, c, [task EXCEPT ![t] = Idle])
    /\ cache' = c
    /\ kept' = keeps
    /\ UNCHANGED <<forgone, stray>>

\* Nothing of the pad is to be kept any more.
Forget(p) ==
    /\ kept' = [kept EXCEPT ![p] = {}]
    /\ forgone' = [forgone EXCEPT ![p] = {}]

-----------------------------------------------------------------------------
(* PadManager *)

\* The pad that is being loaded.
Target(t) == IF task[t].held = Nothing THEN task[t].pad ELSE task[t].dst

Got(t, o) ==
    IF task[t].held = Nothing
    THEN [Goto(t, "run", {}) EXCEPT !.held = o, !.obj = Nothing,
                                    !.from = IF task[t].dst = Nothing THEN <<>> ELSE mem[o].text]
    ELSE [Goto(t, "second", {}) EXCEPT !.obj = o]

Fresh == CHOOSE o \in 1 .. Cardinality(DOMAIN mem) + 1 : o \notin DOMAIN mem

getPad(t) ==
    /\ At(t, "getPad")
    /\ IF cache[Target(t)] # Nothing
       THEN Step(t, Got(t, cache[Target(t)])) /\ UNCHANGED mem
       ELSE /\ Step(t, [Goto(t, "init", {}) EXCEPT !.obj = Fresh])
            /\ mem' = [o \in DOMAIN mem \cup {Fresh} |-> IF o = Fresh THEN NewPad ELSE mem[o]]
    /\ UNCHANGED <<view, disk, cache, kept, forgone, stray, calls, crashes>>

\* Pad.init: load the record, or write revision 0.
init(t) ==
    LET p == Target(t)
        first == IF task[t].op \in Snapshots /\ task[t].held # Nothing THEN <<>> ELSE <<0>>
    IN  /\ At(t, "init")
        /\ IF Exists(p)
           THEN /\ mem' = [mem EXCEPT ![task[t].obj] = view[PadKey(p)]]
                /\ Step(t, Goto(t, "padLoad", {}))
                /\ UNCHANGED view
           ELSE /\ mem' = [mem EXCEPT ![task[t].obj] = appendRevision(NewPad, first)]
                /\ Set(revisionRecords(p, NewPad, first))
                /\ Step(t, Goto(t, "padLoad", RevisionAwaits(p, NewPad, first)))
        /\ UNCHANGED <<disk, cache, kept, forgone, stray, calls, crashes>>

\* The loaded pad goes to the cache.
cachePad(t) ==
    /\ At(t, "padLoad")
    /\ cache' = [cache EXCEPT ![Target(t)] = task[t].obj]
    /\ Step(t, Got(t, task[t].obj))
    /\ UNCHANGED <<view, disk, mem, kept, forgone, stray, calls, crashes>>

-----------------------------------------------------------------------------
(* Calls that write one pad. *)

Running(t, op) == At(t, "run") /\ task[t].op = op

Open(t) ==
    /\ Running(t, "open")
    /\ Return(t, mem, cache, kept)
    /\ UNCHANGED <<view, disk, calls, crashes>>

\* The object changes and its records are set before anything is awaited.
Change(t, pad, records, awaits) ==
    /\ mem' = [mem EXCEPT ![task[t].held] = pad]
    /\ Set(records)
    /\ Step(t, Goto(t, "write", awaits))
    /\ UNCHANGED <<disk, cache, kept, forgone, stray, calls, crashes>>

AppendEdit(t) ==
    LET p == task[t].pad
        pad == mem[task[t].held]
        cs == <<task[t].n>>
    IN  /\ Running(t, "append")
        /\ pad.head < MaxHead
        /\ Change(t, appendRevision(pad, cs), revisionRecords(p, pad, cs),
                  RevisionAwaits(p, pad, cs))

appendChatMessage(t) ==
    LET p == task[t].pad
        pad == [mem[task[t].held] EXCEPT !.chatHead = @ + 1]
        records == [k \in {ChatKey(p, pad.chatHead), PadKey(p)} |->
                       IF k = PadKey(p) THEN pad ELSE task[t].n]
    IN  /\ Running(t, "chat")
        /\ Change(t, pad, records, DOMAIN records)

addSavedRevision(t) ==
    LET p == task[t].pad
        pad == mem[task[t].held]
        new == [pad EXCEPT !.saved = @ \cup {pad.head}]
    IN  /\ Running(t, "save")
        /\ IF pad.head \in pad.saved
           THEN Step(t, Goto(t, "write", {})) /\ UNCHANGED <<view, disk, mem, cache, kept, forgone, stray, calls, crashes>>
           ELSE Change(t, new, [k \in {PadKey(p)} |-> new], {PadKey(p)})

remove(t) ==
    LET p == task[t].pad
        records == Removed(p, mem[task[t].held])
    IN  /\ Running(t, "remove")
        /\ Set(records)
        /\ cache' = [cache EXCEPT ![p] = Nothing]
        /\ Forget(p)
        /\ Step(t, Goto(t, "write", DOMAIN records))
        /\ UNCHANGED <<disk, mem, stray, calls, crashes>>

Written(t) ==
    /\ At(t, "write")
    /\ Return(t, mem, cache,
              IF task[t].op \in {"append", "chat"}
              THEN [kept EXCEPT ![task[t].pad] = @ \cup {task[t].n}] ELSE kept)
    /\ UNCHANGED <<view, disk, calls, crashes>>

-----------------------------------------------------------------------------
(* copy and copyPadWithoutHistory. *)

\* The source is saved; copyPadWithoutHistory does not wait for that.
SaveSource(t) ==
    LET key == PadKey(task[t].pad) IN
    /\ At(t, "run")
    /\ task[t].op \in Copies \cup Snapshots
    /\ SetOne(key, mem[task[t].held])
    /\ Step(t, Goto(t, "clear", IF task[t].op \in Copies THEN {key} ELSE {}))
    /\ UNCHANGED <<disk, mem, cache, kept, forgone, stray, calls, crashes>>

Current(p) == IF cache[p] # Nothing THEN mem[cache[p]] ELSE view[PadKey(p)]

\* What is removed of an existing destination.
Cleared_not(p) == <<>>
Cleared(p) == IF Exists(p) THEN Removed(p, Current(p)) ELSE <<>>

removePadIfForceIsTrueAndAlreadyExist(t) ==
    LET q == task[t].dst
        records == Cleared(q)
    IN  /\ At(t, "clear")
        /\ \/ \* forced, or there is nothing to force
              /\ Set(records)
              /\ cache' = [cache EXCEPT ![q] = IF Exists(q) THEN Nothing ELSE @]
              /\ IF task[t].op = "recreate"
                 THEN forgone' = [forgone EXCEPT ![q] = kept[q]] /\ UNCHANGED kept
                 ELSE Forget(q)
              /\ Step(t, Goto(t, IF task[t].op \in Copies THEN "read" ELSE "getPad", DOMAIN records))
              /\ UNCHANGED <<mem, stray>>
           \/ \* destinationID already exists
              /\ Exists(q) /\ task[t].op # "recreate"
              /\ Return(t, mem, cache, kept)
              /\ UNCHANGED view
        /\ UNCHANGED <<disk, calls, crashes>>

\* The key of a source's record in the destination.
Renamed(k, q) == <<k[1], q, k[3]>>

Read(t, keys) == {<<Renamed(k, task[t].dst), view[k]>> : k \in keys}

\* The pad's record, the revisions and the messages are read, in this order and
\* a batch at a time; the messages are counted when they have their turn.  What
\* is there already does not change meanwhile, so that this makes a difference
\* only if a message arrives in between.
CountedLate(pad) == "chat" \in Overlaps /\ pad.head + 2 >= CopyBatch

ReadRecords(t) ==
    LET p == task[t].pad
        pad == mem[task[t].held]
        read == RecordKeys(p, IF CountedLate(pad) THEN [pad EXCEPT !.chatHead = -1] ELSE pad)
    IN  /\ At(t, "read")
        /\ Step(t, [Goto(t, IF CountedLate(pad) THEN "messages" ELSE "records", {}) EXCEPT
                      !.records = Read(t, read)])
        /\ UNCHANGED <<view, disk, mem, cache, kept, forgone, stray, calls, crashes>>

\* The next batch, once the first record, the pad's, has been written.
ReadMessages(t) ==
    LET q == task[t].dst
        pad == mem[task[t].held]
    IN  /\ task[t].pc = "messages"
        /\ PadKey(q) \notin task[t].awaits \cup {r[1] : r \in task[t].records}
        /\ Step(t, [task[t] EXCEPT !.pc = "records",
                                   !.records = @ \cup Read(t, ChatKeys(task[t].pad, pad.chatHead))])
        /\ stray' = stray \cup (ChatKeys(q, pad.chatHead) \ ChatKeys(q, view[PadKey(q)].chatHead))
        /\ UNCHANGED <<view, disk, mem, cache, kept, forgone, calls, crashes>>

copyRecord(t) ==
    /\ task[t].pc \in {"messages", "records"}
    /\ \E r \in task[t].records :
         /\ SetOne(r[1], r[2])
         /\ Step(t, [task[t] EXCEPT !.records = @ \ {r}, !.awaits = @ \cup {r[1]}])
    /\ UNCHANGED <<disk, mem, cache, kept, forgone, stray, calls, crashes>>

RecordsCopied(t) ==
    /\ At(t, "records")
    /\ task[t].records = {}
    /\ Step(t, Goto(t, "getPad", {}))
    /\ UNCHANGED <<view, disk, mem, cache, kept, forgone, stray, calls, crashes>>

\* The edits and messages that the records of a pad hold.
Holds(db, p, pad) ==
    ({db[k] : k \in ChatKeys(p, pad.chatHead)} \ {Nothing})
        \cup {e \in ToSet(pad.text) :
                \E k \in RevKeys(p, pad.head) : db[k] # Nothing /\ e \in ToSet(db[k].changeset)}

\* A call that goes on with another one, on pads and objects it has.
Continue(t, op, p, q, o) ==
    Step(t, [Idle EXCEPT !.pc = "run", !.op = op, !.pad = p, !.dst = q, !.held = o,
                         !.from = IF q = Nothing THEN <<>> ELSE mem'[o].text])

Copied(t) ==
    LET q == task[t].dst
        keeps == [kept EXCEPT ![q] = Holds(view, q, mem[task[t].obj])]
    IN  /\ At(t, "second")
        /\ task[t].op \in Copies
        /\ IF task[t].op = "copy"
           THEN Return(t, mem, cache, keeps)
           ELSE /\ kept' = keeps
                /\ UNCHANGED <<mem, cache, forgone, stray>>
                /\ Continue(t, "remove", task[t].pad, Nothing, task[t].held)
        /\ UNCHANGED <<view, disk, calls, crashes>>

\* The text of the source becomes revision 1; its writes are not awaited.
\* deleteAllRevisions makes such a copy, makes the pad anew from it, and removes it.
AppendSnapshot(t) ==
    LET p == task[t].pad
        q == task[t].dst
        pad == mem[task[t].obj]
        cs == mem[task[t].held].text
        snapshot == [mem EXCEPT ![task[t].obj] = appendRevision(pad, cs)]
    IN  /\ At(t, "second")
        /\ Set(revisionRecords(q, pad, cs))
        /\ \/ /\ task[t].op = "snapshot"
              /\ Return(t, snapshot, cache, kept)
           \/ /\ task[t].op = "collapse"
              /\ mem' = snapshot
              /\ Continue(t, "recreate", q, p, task[t].obj)
              /\ UNCHANGED <<cache, kept, forgone, stray>>
           \/ /\ task[t].op = "recreate"
              /\ mem' = snapshot
              /\ Continue(t, "remove", p, Nothing, task[t].held)
              /\ UNCHANGED <<cache, kept, forgone, stray>>
        /\ UNCHANGED <<disk, calls, crashes>>

-----------------------------------------------------------------------------
(* deleteRevisions ("compact"), step by step; task[t].n is                  *)
(* cleanupUntilRevision.                                                    *)

\* The text that the revisions 0 .. to make, by the records db.
Composed(db, p, to) == FlattenSeq([i \in 1 .. to + 1 |-> db[RevKey(p, i - 1)].changeset])

\* Pad.check(): the revisions up to the head are there and lead to the text,
\* key revisions hold it, and no message or saved revision is missing.
check(db, p, pad) ==
    /\ \A r \in 0 .. pad.head :
         /\ db[RevKey(p, r)] # Nothing
         /\ IsKeyRevision(r) => db[RevKey(p, r)].atext = Composed(db, p, r)
    /\ pad.text = Composed(db, p, pad.head)
    /\ pad.saved \subseteq 0 .. pad.head
    /\ \A n \in 0 .. pad.chatHead : db[ChatKey(p, n)] # Nothing

\* Revisions 0 .. until are composed into one.
ComposedUntil_short(until) == until - 1
ComposedUntil(until) == until

\* The revision that becomes revision r; where r is a key revision it holds the text.
Recreated_unchanged(p, until, r) == view[RevKey(p, until + r)]
Recreated(p, until, r) ==
    Revision(r, IF r = 0 THEN Composed(view, p, ComposedUntil(until))
                ELSE view[RevKey(p, until + r)].changeset,
             Composed(view, p, until + r))

LoadRevisions(t) ==
    LET pad == mem[task[t].held]
        until == pad.head - KeepRevisions
    IN  /\ Running(t, "compact")
        /\ IF ~check(view, task[t].pad, pad) \/ until <= 0
           THEN Step(t, Goto(t, "write", {}))
           ELSE Step(t, [Goto(t, "delete", {}) EXCEPT
                           !.n = until,
                           !.records = {<<RevKey(task[t].pad, r), Recreated(task[t].pad, until, r)>> :
                                            r \in 0 .. KeepRevisions}])
        /\ UNCHANGED <<view, disk, mem, cache, kept, forgone, stray, calls, crashes>>

DeleteRevisions(t) ==
    LET keys == RevKeys(task[t].pad, mem[task[t].held].head) IN
    /\ At(t, "delete")
    /\ Set([k \in keys |-> Nothing])
    /\ Step(t, Goto(t, "head", keys))
    /\ UNCHANGED <<disk, mem, cache, kept, forgone, stray, calls, crashes>>

Renumbered(saved, until) == {r - until : r \in {s \in saved : s > until}}

RewriteRecord(t) ==
    LET key == PadKey(task[t].pad) IN
    /\ At(t, "head")
    /\ SetOne(key, [view[key] EXCEPT !.head = KeepRevisions,
                                      !.saved = Renumbered(@, task[t].n)])
    /\ Step(t, Goto(t, "revs", {key}))
    /\ UNCHANGED <<disk, mem, cache, kept, forgone, stray, calls, crashes>>

RewriteRevisions(t) ==
    LET records == task[t].records IN
    /\ At(t, "revs")
    /\ Set([k \in {r[1] : r \in records} |-> (CHOOSE r \in records : r[1] = k)[2]])
    /\ Step(t, [Goto(t, "unload", {r[1] : r \in records}) EXCEPT !.records = {}])
    /\ UNCHANGED <<disk, mem, cache, kept, forgone, stray, calls, crashes>>

\* unloadPad, and the pad is loaded anew.
Unloaded_not(p) == cache
Unloaded(p) == [cache EXCEPT ![p] = Nothing]

Unload(t) ==
    /\ At(t, "unload")
    /\ cache' = Unloaded(task[t].pad)
    /\ Step(t, [Goto(t, "getPad", {}) EXCEPT !.dst = task[t].pad])
    /\ UNCHANGED <<view, disk, mem, kept, forgone, stray, calls, crashes>>

Reloaded(t) ==
    /\ At(t, "second")
    /\ task[t].op = "compact"
    /\ Return(t, mem, cache, kept)
    /\ UNCHANGED <<view, disk, calls, crashes>>

-----------------------------------------------------------------------------
(* The database and the process. *)

\* A record reaches the disk, and whoever awaits that goes on.
Flush(k) ==
    /\ view[k] # disk[k] \/ \E t \in Tasks : k \in task[t].awaits
    /\ disk' = [disk EXCEPT ![k] = view[k]]
    /\ task' = [t \in Tasks |-> [task[t] EXCEPT !.awaits = @ \ {k}]]
    /\ UNCHANGED <<view, mem, cache, kept, forgone, stray, calls, crashes>>

\* What compact has deleted is not on disk until it has written it again.
Compacting(p) == \E t \in Tasks :
    task[t].op = "compact" /\ task[t].pad = p /\ task[t].pc \in {"head", "revs", "unload"}

Crash ==
    /\ crashes < MaxCrashes
    /\ \A p \in Pads : ~Compacting(p)
    /\ view' = disk
    /\ mem' = <<>>
    /\ cache' = [p \in Pads |-> Nothing]
    /\ task' = [t \in Tasks |-> Idle]
    /\ crashes' = crashes + 1
    /\ UNCHANGED <<disk, kept, forgone, stray, calls>>

TaskStep(t) ==
    \/ Call(t) \/ getPad(t) \/ init(t) \/ cachePad(t)
    \/ Open(t) \/ AppendEdit(t) \/ appendChatMessage(t) \/ addSavedRevision(t) \/ remove(t)
    \/ Written(t)
    \/ SaveSource(t) \/ removePadIfForceIsTrueAndAlreadyExist(t)
    \/ ReadRecords(t) \/ ReadMessages(t) \/ copyRecord(t) \/ RecordsCopied(t) \/ Copied(t) \/ AppendSnapshot(t)
    \/ LoadRevisions(t) \/ DeleteRevisions(t) \/ RewriteRecord(t) \/ RewriteRevisions(t)
    \/ Unload(t) \/ Reloaded(t)

Next == (\E t \in Tasks : TaskStep(t)) \/ (\E k \in Keys : Flush(k)) \/ Crash

Spec == Init /\ [][Next]_vars

-----------------------------------------------------------------------------
Texts == Seq(0 .. MaxCalls)
PadRecord == [head : -1 .. MaxHead, chatHead : -1 .. MaxCalls, saved : SUBSET (0 .. MaxHead), text : Texts]
RevisionRecord(r) ==
    [changeset : Texts, atext : IF IsKeyRevision(r) THEN Texts ELSE {Nothing}]

\* Every record is of its kind, key revisions hold a text, and every reference to an object leads to one.
TypeOK ==
    /\ \A k \in Keys : \A rec \in {view[k], disk[k]} \ {Nothing} :
         rec \in CASE k[1] = "pad" -> PadRecord
                   [] k[1] = "revs" -> RevisionRecord(k[3])
                   [] k[1] = "chat" -> 0 .. MaxCalls
    /\ \A o \in DOMAIN mem : mem[o] \in PadRecord
    /\ \A p \in Pads : cache[p] \in DOMAIN mem \cup {Nothing}
    /\ \A t \in Tasks : {task[t].held, task[t].obj} \subseteq DOMAIN mem \cup {Nothing}
    /\ \A t \in Tasks : task[t].awaits \subseteq Keys

\* Somebody is in the midst of rewriting the records of p.
BeingWritten(p) == Compacting(p) \/ \E t \in Tasks :
    task[t].op \in Copies /\ task[t].dst = p /\ task[t].pc \in {"messages", "records"}

\* However calls interleave, a pad passes its own check: an edit, a message or a
\* copy is never half there for a reader (Pad.ts, "Asserts that all pad data is
\* consistent").  A crash may break a pad, in what nobody was promised yet.
CheckPasses ==
    \A p \in Pads :
        crashes = 0 /\ Current(p) # Nothing /\ ~BeingWritten(p) => check(view, p, Current(p))

\* The cached pad is the stored one: nobody writes behind its back.
CacheMatches ==
    \A p \in Pads :
        cache[p] # Nothing /\ ~BeingWritten(p) => mem[cache[p]] = view[PadKey(p)]

\* A pad that has been removed, or has never been, leaves no record behind, but
\* for messages that arrived while it was copied: remove does not count them.
NothingLeftBehind ==
    \A p \in Pads :
        crashes = 0 /\ ~Exists(p) /\ ~BeingWritten(p) =>
            \A k \in KeysOf(p) \ stray : view[k] = Nothing

\* What a call has been answered for outlives a crash: an edit in the text and in
\* a revision, a message under its number, a copy as a whole.  compactPad without
\* keepRevisions does not keep what it finds: the messages are gone, and until
\* the new revision is written a crash takes the text.
AcknowledgedKept ==
    \A p \in Pads : kept[p] \ forgone[p] # {} =>
        LET pad == disk[PadKey(p)] IN
        pad # Nothing /\ (Compacting(p) \/ kept[p] \ forgone[p] \subseteq Holds(disk, p, pad))

\* A copy has the text its source had at one moment of the call, although
\* others go on writing.
CopyIsSnapshot ==
    [][\A t \in Tasks :
         task[t].pc = "second" /\ task[t].op \in Copies \cup Snapshots
             /\ task'[t].pc # "second" /\ crashes' = crashes =>
           LET text == mem'[cache'[task[t].dst]].text IN
           IsPrefix(task[t].from, text) /\ IsPrefix(text, mem[task[t].held].text)]_vars
=============================================================================

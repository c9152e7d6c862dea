---------------------------- MODULE PadCalls_proofs ----------------------------
(***************************************************************************)
(* What calls leave behind, when those that need a pad for themselves have *)
(* it: a copy has a text that its source had, and what a call has been     *)
(* answered for outlives a crash.                                          *)
(***************************************************************************)
EXTENDS PadRecords_proofs

-----------------------------------------------------------------------------
(* Copies. *)

\* A text that the source of a copy has had since the call took it up.
Between(s, text) ==
    text \in Texts /\ IsPrefix(s.from, text) /\ IsPrefix(text, mem[s.held].text)

SourceOf(t) ==
    LET s == task[t]
        dst == PadKey(s.dst) IN
    /\ IsPrefix(s.from, mem[s.held].text)
    /\ s.pc = "records" => Between(s, Planned(s, view)[dst].text)
    /\ s.op \in Copies /\ s.pc \in Loading \cup {"second"} => Between(s, view[dst].text)

Copying(s) == s.op \in CopyOps /\ s.held # Nothing

SourceInv == \A t \in Tasks : Copying(task[t]) => SourceOf(t)

LEMMA PrefixIs ==
    ASSUME NEW s \in Texts, NEW t \in Texts
    PROVE  IsPrefix(s, t) <=> Len(s) <= Len(t) /\ \A i \in 1 .. Len(s) : s[i] = t[i]
  <1>1. Len(s) \in Nat /\ Len(t) \in Nat
    BY DEF Texts
  <1>2. ASSUME Len(s) <= Len(t), \A i \in 1 .. Len(s) : s[i] = t[i]
        PROVE  IsPrefix(s, t)
    BY <1>2 DEF IsPrefix, Texts
  <1>3. ASSUME IsPrefix(s, t), NEW i \in 1 .. Len(s)
        PROVE  s[i] = t[i]
    <2>1. SubSeq(s, 1, Len(s))[i] = s[i] /\ SubSeq(t, 1, Len(s))[i] = t[i]
      BY <1>1, <1>3 DEF Texts, IsPrefix
    <2> QED BY <1>3, <2>1 DEF IsPrefix
  <1> QED BY <1>2, <1>3 DEF IsPrefix

LEMMA PrefixRules ==
    ASSUME NEW a \in Texts, NEW b \in Texts, NEW c \in Texts
    PROVE  /\ IsPrefix(a, a) /\ IsPrefix(a, a \o b)
           /\ IsPrefix(a, b) /\ IsPrefix(b, c) => IsPrefix(a, c)
  <1>1. Len(a) \in Nat /\ Len(b) \in Nat /\ Len(c) \in Nat /\ a \o b \in Texts
        /\ Len(a \o b) = Len(a) + Len(b) /\ \A i \in 1 .. Len(a) : (a \o b)[i] = a[i]
    BY DEF Texts
  <1> DEFINE ab == a \o b
  <1>2. ab \in Texts /\ Len(ab) = Len(a) + Len(b) /\ \A i \in 1 .. Len(a) : ab[i] = a[i]
    BY <1>1
  <1> HIDE DEF ab
  <1>4. Len(a) <= Len(ab) /\ Len(a) <= Len(a)
    BY <1>1, <1>2
  <1>5. IsPrefix(a, a) /\ IsPrefix(a, ab)
    BY <1>2, <1>4, PrefixIs
  <1>3. ASSUME IsPrefix(a, b), IsPrefix(b, c) PROVE IsPrefix(a, c)
    <2>1. Len(a) <= Len(b) /\ \A i \in 1 .. Len(a) : a[i] = b[i]
      BY <1>3, PrefixIs
    <2>2. Len(b) <= Len(c) /\ \A i \in 1 .. Len(b) : b[i] = c[i]
      BY <1>3, PrefixIs
    <2> QED BY <1>1, <2>1, <2>2, PrefixIs
  <1> QED BY <1>3, <1>5 DEF ab

\* What a pad was, it goes on from.
Grows(old, new) == IsPrefix(old.text, new.text)

LEMMA AppendGrows ==
    ASSUME NEW room \in Int, NEW pad \in PadIn(room), NEW cs \in Texts
    PROVE  Grows(pad, pad) /\ Grows(pad, appendRevision(pad, cs))
  <1>1. pad.text \in Texts
    BY PadParts
  <1>2. appendRevision(pad, cs).text \in {pad.text, pad.text \o cs}
    <2>1. CASE ~HasEffect(pad, cs)
      BY <2>1 DEF appendRevision
    <2>2. CASE HasEffect(pad, cs)
      <3>1. [pad EXCEPT !.head = @ + 1, !.text = @ \o cs].text = pad.text \o cs
        BY DEF PadIn
      <3> QED BY <2>2, <3>1 DEF appendRevision
    <2> QED BY <2>1, <2>2
  <1> QED BY <1>1, <1>2, PrefixRules DEF Grows

\* The text of a pad that is loaded is only ever added to.
LEMMA TextsGrow ==
    ASSUME TakeTurns, TypeInv, HandsInv, NEW t \in Tasks, TaskStep(t), NEW o \in DOMAIN mem \cap DOMAIN mem',
           ~(o = task[t].obj /\ task[t].pc = "init")
    PROVE  Grows(mem[o], mem'[o])
  <1>1. ChatRoom \in Int /\ mem[o] \in PadIn(ChatRoom) /\ IsFiniteSet(DOMAIN mem)
    BY RoomBounded DEF TypeInv
  <1>2. /\ Grows(mem[o], mem[o])
        /\ \A cs \in Texts : Grows(mem[o], appendRevision(mem[o], cs))
    BY <1>1, EmptyText, AppendGrows
  <1>3. mem' = mem => Grows(mem[o], mem'[o])
    BY <1>2
  <1>4. ASSUME NEW m, NEW c, NEW keeps, Return(t, m, c, keeps), DOMAIN m = DOMAIN mem, Grows(mem[o], m[o])
        PROVE  Grows(mem[o], mem'[o])
    <2>1. mem' = Live(m, cache', task')
      BY <1>4 DEF Return, Step
    <2>2. mem'[o] = m[o]
      BY <1>1, <1>4, <2>1, LiveIs
    <2> QED BY <1>4, <2>2
  <1>5. ASSUME NEW pad, NEW records, NEW awaits, Change(t, pad, records, awaits),
               o = task[t].held => Grows(mem[o], pad)
        PROVE  Grows(mem[o], mem'[o])
    BY <1>2, <1>5 DEF Change
  <1>6. task[t].n \in Nat /\ calls \in Nat
    BY SMTT(30), TaskFields DEF TypeInv
  <1>7. CASE Call(t) \/ cachePad(t) \/ remove(t) \/ SaveSource(t) \/ ReadRecords(t) \/ copyRecord(t)
               \/ RecordsCopied(t) \/ LoadRevisions(t) \/ DeleteRevisions(t) \/ RewriteRecord(t)
               \/ RewriteRevisions(t) \/ Unload(t)
    BY <1>3, <1>7 DEF Call, cachePad, remove, SaveSource, ReadRecords, copyRecord, RecordsCopied, LoadRevisions,
                      DeleteRevisions, RewriteRecord, RewriteRevisions, Unload
  <1>8. CASE Open(t) \/ Written(t) \/ Reloaded(t)
    <2>1. PICK keeps : Return(t, mem, cache, keeps)
      BY <1>8 DEF Open, Written, Reloaded
    <2> QED BY <1>2, <1>4, <2>1
  <1>9. CASE getPad(t)
    <2>1. CASE cache[Target(t)] # Nothing
      BY <1>3, <1>9, <2>1 DEF getPad
    <2>2. CASE cache[Target(t)] = Nothing
      <3>1. mem' = [x \in DOMAIN mem \cup {Fresh} |-> IF x = Fresh THEN NewPad ELSE mem[x]]
        BY <1>9, <2>2 DEF getPad
      <3>2. Fresh \notin DOMAIN mem
        BY FreshIsNew DEF TypeInv
      <3> DEFINE fresh == Fresh
      <3> HIDE DEF fresh
      <3>3. mem' = [x \in DOMAIN mem \cup {fresh} |-> IF x = fresh THEN NewPad ELSE mem[x]]
        BY <3>1 DEF fresh
      <3>4. fresh \notin DOMAIN mem
        BY <3>2 DEF fresh
      <3> QED BY <1>2, <3>3, <3>4
    <2> QED BY <2>1, <2>2
  <1>10. CASE init(t)
    <2>1. task[t].pc = "init" /\ o # task[t].obj
      BY <1>10 DEF init, At
    <2>2. PICK pad : mem' = [mem EXCEPT ![task[t].obj] = pad]
      BY <1>10 DEF init
    <2> QED BY <1>2, <2>1, <2>2
  <1>11. CASE AppendEdit(t)
    <2> DEFINE pad == mem[task[t].held]
               cs == <<task[t].n>>
    <2>1. PICK records, awaits : Change(t, appendRevision(pad, cs), records, awaits)
      BY <1>11 DEF AppendEdit
    <2>2. task[t].op = "append"
      BY <1>11 DEF AppendEdit, Running
    <2>3. cs \in Texts
      <3>1. task[t].n <= MaxCalls
        BY <2>2 DEF TypeInv
      <3> QED BY <1>6, <3>1, Constants DEF Texts
    <2> HIDE DEF cs
    <2> QED BY <1>2, <1>5, <2>1, <2>3
  <1>12. CASE appendChatMessage(t)
    <2> DEFINE pad == [mem[task[t].held] EXCEPT !.chatHead = @ + 1]
    <2>1. PICK records, awaits : Change(t, pad, records, awaits)
      BY <1>12 DEF appendChatMessage
    <2>2. o = task[t].held => pad.text = mem[o].text
      BY <1>1 DEF PadIn
    <2> HIDE DEF pad
    <2>3. o = task[t].held => Grows(mem[o], pad)
      BY <1>2, <2>2 DEF Grows
    <2> QED BY <1>5, <2>1, <2>3
  <1>13. CASE addSavedRevision(t)
    <2> DEFINE pad == mem[task[t].held]
               new == [pad EXCEPT !.saved = @ \cup {pad.head}]
    <2>1. CASE mem' = mem
      BY <1>3, <2>1
    <2>2. CASE mem' # mem
      <3>1. PICK records, awaits : Change(t, new, records, awaits)
        BY <1>13, <2>2 DEF addSavedRevision
      <3>2. o = task[t].held => new.text = mem[o].text
        BY <1>1 DEF PadIn
      <3> HIDE DEF new
      <3>3. o = task[t].held => Grows(mem[o], new)
        BY <1>2, <3>2 DEF Grows
      <3> QED BY <1>5, <3>1, <3>3
    <2> QED BY <2>1, <2>2
  <1>14. CASE removePadIfForceIsTrueAndAlreadyExist(t)
    <2>1. mem' = mem \/ Return(t, mem, cache, kept)
      BY <1>14 DEF removePadIfForceIsTrueAndAlreadyExist
    <2> QED BY <1>2, <1>3, <1>4, <2>1
  <1>15. CASE Copied(t)
    <2>1. mem' = mem \/ \E keeps : Return(t, mem, cache, keeps)
      BY <1>15 DEF Copied
    <2> QED BY <1>2, <1>3, <1>4, <2>1
  <1>16. CASE AppendSnapshot(t)
    <2> DEFINE cs == mem[task[t].held].text
               snapshot == [mem EXCEPT ![task[t].obj] = appendRevision(mem[task[t].obj], cs)]
    <2>1. mem' = snapshot \/ Return(t, snapshot, cache, kept)
      BY <1>16 DEF AppendSnapshot
    <2>2. cs \in Texts
      BY <1>16, SnapshotParts
    <2> HIDE DEF cs
    <2>3. DOMAIN snapshot = DOMAIN mem /\ Grows(mem[o], snapshot[o])
      BY <1>2, <2>2
    <2> HIDE DEF snapshot
    <2> QED BY <1>4, <2>1, <2>3
  <1> QED BY <1>7, <1>8, <1>9, <1>10, <1>11, <1>12, <1>13, <1>14, <1>15, <1>16, ReadAtOnce DEF TaskStep

\* A copy has its source in hand, and its destination to itself.
LEMMA CopyingHas ==
    ASSUME TakeTurns, TypeInv, HandsInv, NEW t \in Tasks, Copying(task[t])
    PROVE  /\ Busy(t) /\ Shape(task[t]) /\ InHand(t) /\ task[t].held \in DOMAIN mem
           /\ task[t].from \in Texts /\ mem[task[t].held].text \in Texts
           /\ task[t].dst \in Pads /\ task[t].dst \in AloneOf(t) /\ PadKey(task[t].dst) \in KeysOf(task[t].dst)
           /\ PadKey(task[t].dst) \in Keys
           /\ ~(\E u \in Tasks : task[u].pc = "init" /\ task[u].obj = task[t].held)
  <1>1. Shape(task[t]) /\ task[t].held # Nothing /\ task[t].op \in CopyOps
    BY DEF HandsInv, Copying
  <1>2. Busy(t)
    <2>1. Idle.held = Nothing
      BY DEF Idle
    <2> QED BY <1>1, <2>1 DEF Shape, Busy
  <1>3. task[t].held \in DOMAIN mem /\ task[t].from \in Texts /\ mem[task[t].held] \in PadIn(ChatRoom)
    BY <1>1, TaskFields DEF TaskType
  <1>4. mem[task[t].held].text \in Texts
    BY <1>3, RoomBounded, PadParts
  <1>5. task[t].dst \in Pads /\ task[t].dst \in AloneOf(t)
    BY <1>1, <1>2, AlonePads
  <1>6. PadKey(task[t].dst) \in KeysOf(task[t].dst) /\ PadKey(task[t].dst) \in Keys
    BY <1>5, KeysInside
  <1>7. ~(\E u \in Tasks : task[u].pc = "init" /\ task[u].obj = task[t].held)
    BY DEF HandsInv, Private
  <1> QED BY <1>1, <1>2, <1>3, <1>4, <1>5, <1>6, <1>7 DEF HandsInv

\* The source grows on while a copy is under way.
LEMMA BetweenStays ==
    ASSUME NEW s, NEW old \in Texts, NEW new \in Texts, s.from \in Texts, IsPrefix(old, new)
    PROVE  /\ IsPrefix(s.from, old) => IsPrefix(s.from, new)
           /\ \A text \in Texts : IsPrefix(text, old) => IsPrefix(text, new)
  BY PrefixRules

\* What others copy is copied on.
LEMMA OthersSource ==
    ASSUME TakeTurns, TypeInv, TypeInv', HandsInv, SourceInv, NEW t \in Tasks, TaskStep(t), Footprint(t),
           NEW u \in Tasks \ {t}, Copying(task[u])
    PROVE  SourceOf(u)'
  <1> DEFINE s == task[u]
             dst == PadKey(s.dst)
             old == mem[s.held].text
             new == mem'[s.held].text
  <1>1. /\ Busy(u) /\ s.held \in DOMAIN mem /\ s.from \in Texts /\ old \in Texts /\ s.dst \in Pads
        /\ s.dst \in AloneOf(u) /\ dst \in KeysOf(s.dst) /\ dst \in Keys
        /\ ~(task[t].pc = "init" /\ task[t].obj = s.held)
    BY CopyingHas
  <1>2. task'[u] = s /\ view'[dst] = view[dst]
    BY <1>1, OthersKeep
  <1>3. s.held \in DOMAIN mem' /\ new \in Texts
    <2>1. s.held \in DOMAIN mem'
      BY <1>1, <1>2, Constants DEF TypeInv
    <2>2. mem'[s.held] \in PadIn(ChatRoom') /\ ChatRoom' \in Int
      BY <2>1 DEF TypeInv
    <2> QED BY <2>1, <2>2, PadParts
  <1>4. IsPrefix(old, new)
    BY <1>1, <1>3, TextsGrow DEF Grows
  <1>5. SourceOf(u)
    BY DEF SourceInv
  <1>6. Planned(s, view')[dst] = Planned(s, view)[dst]
    BY <1>1, <1>2 DEF Planned
  <1> HIDE DEF old, new, s, dst
  <1>7. IsPrefix(s.from, new) /\ \A text \in Texts : IsPrefix(text, old) => IsPrefix(text, new)
    <2>1. IsPrefix(s.from, old)
      BY <1>5 DEF SourceOf, s, old
    <2> QED BY <1>1, <1>3, <1>4, <2>1, BetweenStays
  <1>8. s.pc = "records" =>
          LET text == Planned(s, view)[dst].text IN
          text \in Texts /\ IsPrefix(s.from, text) /\ IsPrefix(text, old)
    BY <1>5 DEF SourceOf, Between, s, dst, old
  <1>9. s.op \in Copies /\ s.pc \in Loading \cup {"second"} =>
          LET text == view[dst].text IN
          text \in Texts /\ IsPrefix(s.from, text) /\ IsPrefix(text, old)
    BY <1>5 DEF SourceOf, Between, s, dst, old
  <1>10. IsPrefix(s.from, mem'[s.held].text)
    BY <1>7 DEF new
  <1>11. s.pc = "records" =>
           LET text == Planned(s, view')[dst].text IN
           text \in Texts /\ IsPrefix(s.from, text) /\ IsPrefix(text, new)
    BY <1>6, <1>7, <1>8
  <1>12. s.op \in Copies /\ s.pc \in Loading \cup {"second"} =>
           LET text == view'[dst].text IN
           text \in Texts /\ IsPrefix(s.from, text) /\ IsPrefix(text, new)
    BY <1>2, <1>7, <1>9
  <1> QED BY <1>2, <1>10, <1>11, <1>12 DEF SourceOf, Between, new, s, dst

LEMMA SameSource ==
    ASSUME TakeTurns, TypeInv, TypeInv', HandsInv, SourceInv, NEW t \in Tasks, TaskStep(t), Copying(task[t]),
           task'[t].held = task[t].held, task'[t].dst = task[t].dst, task'[t].from = task[t].from,
           task'[t].op = task[t].op, task'[t].pc # "records",
           task[t].op \in Copies /\ task'[t].pc \in Loading \cup {"second"} =>
             task[t].pc \in Loading \cup {"second"} /\ view'[PadKey(task[t].dst)] = view[PadKey(task[t].dst)]
    PROVE  SourceOf(t)'
  <1> DEFINE s == task[t]
             dst == PadKey(s.dst)
             old == mem[s.held].text
             new == mem'[s.held].text
  <1>1. /\ s.held \in DOMAIN mem /\ s.held # Nothing /\ s.from \in Texts /\ old \in Texts
        /\ ~(s.pc = "init" /\ s.obj = s.held)
    BY CopyingHas DEF Copying
  <1>2. s.held \in DOMAIN mem' /\ new \in Texts
    <2>1. s.held \in DOMAIN mem'
      BY <1>1 DEF TypeInv
    <2>2. mem'[s.held] \in PadIn(ChatRoom') /\ ChatRoom' \in Int
      BY <2>1 DEF TypeInv
    <2> QED BY <2>1, <2>2, PadParts
  <1>3. IsPrefix(old, new)
    BY <1>1, <1>2, TextsGrow DEF Grows
  <1>4. SourceOf(t)
    BY DEF SourceInv
  <1>5. s.op \in Copies /\ task'[t].pc \in Loading \cup {"second"} =>
          s.pc \in Loading \cup {"second"} /\ view'[dst] = view[dst]
    OBVIOUS
  <1>6. task'[t].held = s.held /\ task'[t].dst = s.dst /\ task'[t].from = s.from /\ task'[t].op = s.op
    OBVIOUS
  <1> HIDE DEF old, new, s, dst
  <1>7. IsPrefix(s.from, new) /\ \A text \in Texts : IsPrefix(text, old) => IsPrefix(text, new)
    <2>1. IsPrefix(s.from, old)
      BY <1>4 DEF SourceOf, s, old
    <2> QED BY <1>1, <1>2, <1>3, <2>1, BetweenStays
  <1>8. s.op \in Copies /\ s.pc \in Loading \cup {"second"} =>
          LET text == view[dst].text IN
          text \in Texts /\ IsPrefix(s.from, text) /\ IsPrefix(text, old)
    BY <1>4 DEF SourceOf, Between, s, dst, old
  <1>9. s.op \in Copies /\ task'[t].pc \in Loading \cup {"second"} =>
          LET text == view'[dst].text IN
          text \in Texts /\ IsPrefix(s.from, text) /\ IsPrefix(text, new)
    BY <1>5, <1>7, <1>8
  <1> QED BY <1>6, <1>7, <1>9 DEF SourceOf, Between, new, dst

LEMMA GotIs ==
    ASSUME TypeInv, NEW t \in Tasks, NEW o
    PROVE  LET s == Got(t, o) IN
           /\ s.op = task[t].op /\ s.dst = task[t].dst
           /\ task[t].held = Nothing =>
                s.pc = "run" /\ s.held = o /\ s.from = IF task[t].dst = Nothing THEN <<>> ELSE mem[o].text
           /\ task[t].held # Nothing => s.pc = "second" /\ s.held = task[t].held /\ s.from = task[t].from
  <1> DEFINE text == IF task[t].dst = Nothing THEN <<>> ELSE mem[o].text
             run == Goto(t, "run", {})
             second == Goto(t, "second", {})
  <1>1. /\ run \in TaskType /\ run.op = task[t].op /\ run.dst = task[t].dst /\ run.pc = "run"
        /\ second \in TaskType /\ second.op = task[t].op /\ second.dst = task[t].dst /\ second.pc = "second"
        /\ second.held = task[t].held /\ second.from = task[t].from
    BY GotoIs
  <1>2. Got(t, o) = IF task[t].held = Nothing
                    THEN [run EXCEPT !.held = o, !.obj = Nothing, !.from = text]
                    ELSE [second EXCEPT !.obj = o]
    BY DEF Got
  <1> HIDE DEF run, second, text
  <1>3. LET s == [run EXCEPT !.held = o, !.obj = Nothing, !.from = text] IN
        s.op = run.op /\ s.dst = run.dst /\ s.pc = run.pc /\ s.held = o /\ s.from = text
    BY <1>1 DEF TaskType
  <1>4. LET s == [second EXCEPT !.obj = o] IN
        /\ s.op = second.op /\ s.dst = second.dst /\ s.pc = second.pc /\ s.held = second.held
        /\ s.from = second.from
    BY <1>1 DEF TaskType
  <1> QED BY <1>1, <1>2, <1>3, <1>4 DEF text

\* The source is taken up.
LEMMA TakenUp ==
    ASSUME TypeInv, NEW t \in Tasks, NEW o \in DOMAIN mem, task[t].held = Nothing,
           task'[t] = Got(t, o), mem' = mem, Copying(task'[t]), Shape(task'[t])
    PROVE  SourceOf(t)'
  <1>1. /\ task'[t].dst = task[t].dst /\ task'[t].pc = "run" /\ task'[t].held = o
        /\ task'[t].from = IF task[t].dst = Nothing THEN <<>> ELSE mem[o].text
    BY GotIs
  <1>2. task'[t].dst # Nothing
    BY Constants DEF Copying, Shape
  <1>3. mem[o].text \in Texts
    BY RoomBounded, PadParts DEF TypeInv
  <1>4. IsPrefix(mem[o].text, mem[o].text)
    BY <1>3, PrefixRules
  <1>5. IsPrefix(task'[t].from, mem'[task'[t].held].text)
    BY <1>1, <1>2, <1>4
  <1> QED BY <1>1, <1>5 DEF SourceOf, Loading

\* The source is read as it is then.
LEMMA ReadRecordsSource ==
    ASSUME TakeTurns, TypeInv, HandsInv, SourceInv, NEW t \in Tasks, ReadRecords(t)
    PROVE  SourceOf(t)'
  <1> DEFINE p == task[t].pad
             q == task[t].dst
             pad == mem[task[t].held]
             records == {<<Renamed(k, q), view[k]>> : k \in RecordKeys(p, pad)}
             g == Goto(t, "records", {})
  <1>1. /\ task[t].pc = "read" /\ view' = view /\ mem' = mem
        /\ task'[t] = [g EXCEPT !.records = records]
    BY Places, ReadAtOnce DEF At
  <1>2. task[t].op \in CopyOps /\ Copying(task[t])
    BY <1>1 DEF HandsInv, Shape, CopyOps, Copying, Loading
  <1>3. p \in Pads /\ q \in Pads /\ pad = view[PadKey(p)] /\ pad \in PadIn(ChatRoom)
    BY <1>1, <1>2, CopyingPad
  <1>4. IsPrefix(task[t].from, pad.text) /\ pad.text \in Texts
    BY <1>2, CopyingHas DEF SourceInv, SourceOf
  <1>5. IsPrefix(pad.text, pad.text)
    BY <1>4, PrefixRules
  <1>6. RecordKeys(p, pad) \subseteq KeysOf(p) /\ PadKey(p) \in RecordKeys(p, pad)
    <2>1. ChatRoom \in Int /\ ChatRoom <= MaxCalls
      BY RoomBounded, Constants
    <2> QED BY <1>3, <2>1, RemovedTyped
  <1>7. \A r1, r2 \in records : r1[1] = r2[1] => r1 = r2
    <2> DEFINE read == RecordKeys(p, pad)
    <2>1. \A i, j \in read : Renamed(i, q) = Renamed(j, q) => i = j
      BY <1>3, <1>6, RenamedIs
    <2> HIDE DEF read
    <2> QED BY <2>1 DEF read
  <1>8. <<PadKey(q), view[PadKey(p)]>> \in records
    <2>1. Renamed(PadKey(p), q) = PadKey(q)
      BY <1>3, <1>6, RenamedIs
    <2> QED BY <1>6, <2>1
  <1> DEFINE new == task'[t]
  <1>9. /\ new.pc = "records" /\ new.dst = q /\ new.held = task[t].held /\ new.from = task[t].from
        /\ new.records = records
    <2>1. /\ g \in TaskType /\ g.pc = "records" /\ g.dst = q /\ g.held = task[t].held
          /\ g.from = task[t].from
      BY GotoIs
    <2> HIDE DEF g, records
    <2> QED BY <1>1, <2>1 DEF TaskType
  <1> HIDE DEF new, records
  <1>10. Planned(new, view)[PadKey(q)] = pad
    <2>1. PadKey(q) \in Keys
      BY <1>3, KeysInside
    <2>2. \A r \in records : r[1] \in Keys => Planned(new, view)[r[1]] = r[2]
      BY <1>7, <1>9, PlannedIs
    <2> QED BY <1>3, <1>8, <2>1, <2>2
  <1>11. Between(new, Planned(new, view)[PadKey(q)].text)
    BY <1>4, <1>5, <1>9, <1>10 DEF Between
  <1> QED BY <1>1, <1>4, <1>9, <1>11 DEF SourceOf, Between, new, Loading

\* The records that are still to be written are those that have been read.
LEMMA CopyRecordSource ==
    ASSUME TakeTurns, TypeInv, HandsInv, SourceInv, NEW t \in Tasks, copyRecord(t)
    PROVE  SourceOf(t)'
  <1> DEFINE s == task[t]
             new == task'[t]
             dst == PadKey(s.dst)
  <1>1. PICK r \in s.records :
          SetOne(r[1], r[2]) /\ Step(t, [s EXCEPT !.records = @ \ {r}, !.awaits = @ \cup {r[1]}])
    BY DEF copyRecord
  <1>2. s.pc = "records" /\ mem' = mem
    BY ReadAtOnce DEF copyRecord
  <1>3. s.op \in CopyOps /\ Copying(s) /\ s \in TaskType
    BY <1>2, TaskFields DEF HandsInv, Shape, CopyOps, Copying, Loading
  <1>4. new = [s EXCEPT !.records = @ \ {r}, !.awaits = @ \cup {r[1]}]
    BY <1>1, Places
  <1>5. SourceOf(t) /\ InHand(t)
    BY <1>3, CopyingHas DEF SourceInv
  <1>6. r[1] \in Keys /\ \A r1, r2 \in s.records : r1[1] = r2[1] => r1 = r2
    <2>1. s.records \subseteq Keys \X AnyRecord
      BY TaskFields
    <2>2. r[1] \in Keys
      BY <1>1, <2>1
    <2> QED BY <1>5, <2>2 DEF InHand
  <1>7. view'[r[1]] = r[2] /\ (\A k \in Keys \ {r[1]} : view'[k] = view[k]) /\ DOMAIN view = Keys
    BY <1>1, <1>6, SetOneIs DEF TypeInv, IsDatabase
  <1> HIDE DEF s, new
  <1>8. /\ new.pc = "records" /\ new.dst = s.dst /\ new.held = s.held /\ new.from = s.from
        /\ new.records = s.records \ {r}
    BY <1>2, <1>3, <1>4 DEF TaskType
  <1>9. Planned(new, view') = Planned(s, view)
    BY <1>1, <1>6, <1>7, <1>8, PlannedStep
  <1>10. Between(s, Planned(s, view)[dst].text) /\ IsPrefix(s.from, mem[s.held].text)
    BY <1>2, <1>5 DEF SourceOf, s
  <1> QED BY <1>2, <1>8, <1>9, <1>10 DEF SourceOf, Between, new, Loading

\* All records are written: the copy is stored.
LEMMA RecordsCopiedSource ==
    ASSUME TakeTurns, TypeInv, HandsInv, SourceInv, NEW t \in Tasks, RecordsCopied(t)
    PROVE  SourceOf(t)'
  <1> DEFINE s == task[t]
             new == task'[t]
             dst == PadKey(s.dst)
  <1>1. s.pc = "records" /\ s.records = {} /\ view' = view /\ mem' = mem /\ new = Goto(t, "getPad", {})
    BY Places DEF RecordsCopied, At
  <1>2. Copying(s)
    BY <1>1 DEF HandsInv, Shape, CopyOps, Copying, Loading
  <1>3. SourceOf(t) /\ dst \in Keys
    BY <1>2, CopyingHas DEF SourceInv
  <1>4. new.pc = "getPad" /\ new.dst = s.dst /\ new.held = s.held /\ new.from = s.from
    BY <1>1, GotoIs DEF Loading
  <1>5. Planned(s, view)[dst] = view[dst]
    BY <1>1, <1>3 DEF Planned
  <1>6. Between(s, view[dst].text) /\ IsPrefix(s.from, mem[s.held].text)
    BY <1>1, <1>3, <1>5 DEF SourceOf
  <1> HIDE DEF s, new
  <1> QED BY <1>1, <1>4, <1>6 DEF SourceOf, Between, new

\* deleteAllRevisions makes the pad anew from the pad it has just made.
LEMMA MadeAnewSource ==
    ASSUME TakeTurns, TypeInv, HandsInv, NEW t \in Tasks, AppendSnapshot(t), Copying(task'[t])
    PROVE  SourceOf(t)'
  <1> DEFINE p == task[t].pad
             q == task[t].dst
             o == task[t].obj
             pad == appendRevision(mem[o], mem[task[t].held].text)
             snapshot == [mem EXCEPT ![o] = pad]
  <1>1. /\ p \in Pads /\ q \in Pads /\ o \in DOMAIN mem /\ o \in Nat /\ mem[o] = Blank
        /\ task[t].held \in Nat /\ task[t].op \in Snapshots /\ pad.text \in Texts
    BY SnapshotParts
  <1>2. task[t].op = "collapse"
    <2>1. CASE task[t].op = "snapshot"
      <3>1. Step(t, Idle)
        BY <2>1 DEF AppendSnapshot, Return
      <3> QED BY <3>1, Places, IdleTyped DEF Copying
    <2>2. CASE task[t].op = "recreate"
      <3> DEFINE s == [Idle EXCEPT !.pc = "run", !.op = "remove", !.pad = p, !.dst = Nothing,
                                   !.held = task[t].held, !.from = <<>>]
      <3>1. Step(t, s)
        BY <2>2 DEF AppendSnapshot, Continue
      <3>2. s.op = "remove"
        BY DEF Idle
      <3>3. task'[t].op = "remove"
        BY <3>1, <3>2, Places
      <3> QED BY <3>3 DEF Copying, CopyOps, Copies, Snapshots
    <2> QED BY <1>1, <2>1, <2>2 DEF Snapshots
  <1>3. mem' = snapshot /\ Continue(t, "recreate", q, p, o)
    BY <1>2 DEF AppendSnapshot
  <1> DEFINE s == [Idle EXCEPT !.pc = "run", !.op = "recreate", !.pad = q, !.dst = p, !.held = o,
                               !.from = pad.text]
  <1> HIDE DEF pad
  <1>4. mem'[o].text = pad.text
    BY <1>1, <1>3
  <1>5. task'[t] = s
    BY <1>1, <1>3, <1>4, Places, Constants DEF Continue
  <1>6. s.pc = "run" /\ s.held = o /\ s.from = pad.text
    BY DEF Idle
  <1> HIDE DEF s
  <1>7. IsPrefix(pad.text, pad.text)
    BY <1>1, PrefixRules
  <1> QED BY <1>4, <1>5, <1>6, <1>7 DEF SourceOf, Loading

\* Steps that leave no copy behind, or are none of a copy.
LEMMA NoCopyAfter ==
    ASSUME TypeInv, HandsInv, NEW t \in Tasks,
           \/ Call(t) \/ Open(t) \/ AppendEdit(t) \/ appendChatMessage(t) \/ addSavedRevision(t) \/ remove(t)
           \/ Written(t) \/ Copied(t) \/ LoadRevisions(t) \/ DeleteRevisions(t) \/ RewriteRecord(t)
           \/ RewriteRevisions(t) \/ Unload(t) \/ Reloaded(t)
    PROVE  ~Copying(task'[t])
  <1>1. ASSUME NEW m, NEW c, NEW keeps, Return(t, m, c, keeps) PROVE ~Copying(task'[t])
    <2>1. task'[t] = Idle
      BY <1>1, Places DEF Return
    <2> QED BY <2>1, IdleTyped DEF Copying
  <1>2. ASSUME NEW pc, NEW awaits, task'[t] = Goto(t, pc, awaits), task[t].op \notin CopyOps
        PROVE  ~Copying(task'[t])
    <2>1. task'[t].op = task[t].op
      BY <1>2, TaskFields DEF Goto, TaskType
    <2> QED BY <1>2, <2>1 DEF Copying
  <1>3. CASE Call(t)
    <2>1. PICK op \in Ops, p \in Pads, q \in Pads \cup {Nothing} :
            Step(t, [Idle EXCEPT !.pc = "getPad", !.op = op, !.pad = p, !.dst = q,
                                 !.n = IF op \in {"append", "chat"} THEN calls + 1 ELSE 0])
      BY <1>3 DEF Call
    <2> DEFINE n == IF op \in {"append", "chat"} THEN calls + 1 ELSE 0
               s == [Idle EXCEPT !.pc = "getPad", !.op = op, !.pad = p, !.dst = q, !.n = n]
    <2>2. task'[t] = s
      BY <2>1, Places
    <2> HIDE DEF n
    <2>3. s.held = Nothing
      BY DEF Idle
    <2> QED BY <2>2, <2>3 DEF Copying
  <1>4. CASE Open(t) \/ Written(t) \/ Reloaded(t)
    BY <1>1, <1>4 DEF Open, Written, Reloaded
  <1>5. CASE AppendEdit(t) \/ appendChatMessage(t) \/ addSavedRevision(t) \/ remove(t)
    <2>1. task[t].op \notin CopyOps
      BY SMTT(30), <1>5 DEF AppendEdit, appendChatMessage, addSavedRevision, remove, Running, CopyOps, Copies, Snapshots
    <2>2. \E pc, awaits : Step(t, Goto(t, pc, awaits))
      BY <1>5 DEF AppendEdit, appendChatMessage, addSavedRevision, remove, Change
    <2> QED BY <1>2, <2>1, <2>2, Places
  <1>6. CASE Copied(t)
    <2>1. CASE task[t].op = "copy"
      BY <1>1, <1>6, <2>1 DEF Copied
    <2>2. CASE task[t].op # "copy"
      <3> DEFINE s == [Idle EXCEPT !.pc = "run", !.op = "remove", !.pad = task[t].pad, !.dst = Nothing,
                                   !.held = task[t].held, !.from = <<>>]
      <3>1. Step(t, s)
        BY <1>6, <2>2 DEF Copied, Continue
      <3>2. s.op = "remove"
        BY DEF Idle
      <3>3. task'[t].op = "remove"
        BY <3>1, <3>2, Places
      <3> QED BY <3>3 DEF Copying, CopyOps, Copies, Snapshots
    <2> QED BY <2>1, <2>2
  <1>7. ASSUME LoadRevisions(t) \/ DeleteRevisions(t) \/ RewriteRecord(t) \/ RewriteRevisions(t) \/ Unload(t)
        PROVE  task[t].op \notin CopyOps
    <2>1. task[t].op = "compact"
      BY <1>7 DEF LoadRevisions, DeleteRevisions, RewriteRecord, RewriteRevisions, Unload, Running, At, HandsInv,
                  Shape
    <2> QED BY <2>1 DEF CopyOps, Copies, Snapshots
  <1>8. CASE DeleteRevisions(t) \/ RewriteRecord(t)
    <2>1. \E pc, awaits : Step(t, Goto(t, pc, awaits))
      BY <1>8 DEF DeleteRevisions, RewriteRecord
    <2> QED BY <1>2, <1>7, <1>8, <2>1, Places
  <1>9. ASSUME NEW pc, NEW awaits, NEW s, task'[t] = s, s.op = Goto(t, pc, awaits).op, task[t].op \notin CopyOps
        PROVE  ~Copying(task'[t])
    <2>1. Goto(t, pc, awaits).op = task[t].op
      BY TaskFields DEF Goto, TaskType
    <2> QED BY <1>9, <2>1 DEF Copying
  <1>10. CASE LoadRevisions(t)
    <2> DEFINE g == Goto(t, "delete", {})
    <2>1. Step(t, Goto(t, "write", {})) \/ \E n, records : Step(t, [g EXCEPT !.n = n, !.records = records])
      BY <1>10 DEF LoadRevisions
    <2>2. g \in TaskType
      BY GotoIs
    <2>3. \A n, records : [g EXCEPT !.n = n, !.records = records].op = g.op
      <3> HIDE DEF g
      <3> QED BY <2>2 DEF TaskType
    <2>4. CASE Step(t, Goto(t, "write", {}))
      BY <1>2, <1>7, <1>10, <2>4, Places
    <2>5. CASE \E n, records : Step(t, [g EXCEPT !.n = n, !.records = records])
      <3>1. PICK n, records : Step(t, [g EXCEPT !.n = n, !.records = records])
        BY <2>5
      <3>2. task'[t] = [g EXCEPT !.n = n, !.records = records]
        BY <3>1, Places
      <3> QED BY <1>7, <1>9, <1>10, <2>3, <3>2
    <2> QED BY <2>1, <2>4, <2>5
  <1>11. CASE RewriteRevisions(t)
    <2> DEFINE g == Goto(t, "unload", {r[1] : r \in task[t].records})
    <2>1. task'[t] = [g EXCEPT !.records = {}]
      BY <1>11, Places DEF RewriteRevisions
    <2>2. [g EXCEPT !.records = {}].op = g.op
      BY TaskFields DEF Goto, TaskType
    <2> QED BY <1>7, <1>9, <1>11, <2>1, <2>2
  <1>12. CASE Unload(t)
    <2> DEFINE g == Goto(t, "getPad", {})
    <2>1. task'[t] = [g EXCEPT !.dst = task[t].pad]
      BY <1>12, Places DEF Unload
    <2>2. [g EXCEPT !.dst = task[t].pad].op = g.op
      BY TaskFields DEF Goto, TaskType
    <2> QED BY <1>7, <1>9, <1>12, <2>1, <2>2
  <1> QED BY <1>3, <1>4, <1>5, <1>6, <1>8, <1>10, <1>11, <1>12

\* A step of a copy keeps its source, and what it is copied to.
LEMMA OwnSource ==
    ASSUME TakeTurns, TypeInv, TypeInv', HandsInv, HandsInv', SourceInv, NEW t \in Tasks, TaskStep(t),
           Copying(task'[t])
    PROVE  SourceOf(t)'
  <1> DEFINE s == task[t]
             new == task'[t]
             dst == PadKey(s.dst)
  <1>1. Shape(new)
    BY DEF HandsInv
  <1>2. ASSUME s.held # Nothing, new.held = s.held, new.dst = s.dst, new.from = s.from, new.op = s.op,
               new.pc # "records",
               s.op \in Copies /\ new.pc \in Loading \cup {"second"} =>
                 s.pc \in Loading \cup {"second"} /\ view'[dst] = view[dst]
        PROVE  SourceOf(t)'
    <2>1. Copying(s)
      BY <1>2 DEF Copying
    <2> QED BY <1>2, <2>1, SameSource
  <1>4. ASSUME NEW o \in DOMAIN mem, new = Got(t, o), mem' = mem, view' = view, s.pc \in Loading
        PROVE  SourceOf(t)'
    <2>1. CASE s.held = Nothing
      BY <1>1, <1>4, <2>1, TakenUp
    <2>2. CASE s.held # Nothing
      <3>1. /\ new.op = s.op /\ new.dst = s.dst /\ new.pc = "second" /\ new.held = s.held
            /\ new.from = s.from
        BY <1>4, <2>2, GotIs
      <3> HIDE DEF s, new, dst
      <3> QED BY <1>2, <1>4, <2>2, <3>1
    <2> QED BY <2>1, <2>2
  <1>5. CASE getPad(t)
    <2>1. s.pc = "getPad" /\ view' = view
      BY <1>5 DEF getPad, At
    <2>2. CASE cache[Target(t)] # Nothing
      <3>1. new = Got(t, cache[Target(t)]) /\ mem' = mem
        BY <1>5, <2>2, Places DEF getPad
      <3>2. Busy(t)
        BY <2>1 DEF Busy
      <3>3. Target(t) \in Pads
        BY <2>1, <3>2, AlonePads, AloneInUses DEF Loading
      <3>4. cache[Target(t)] \in DOMAIN mem
        BY <2>2, <3>3, TaskFields
      <3> QED BY <1>4, <2>1, <3>1, <3>4 DEF Loading
    <2>3. CASE cache[Target(t)] = Nothing
      <3> DEFINE g == Goto(t, "init", {})
      <3>1. new = [g EXCEPT !.obj = Fresh]
        BY <1>5, <2>3, Places DEF getPad
      <3>2. /\ g \in TaskType /\ g.pc = "init" /\ g.op = s.op /\ g.dst = s.dst /\ g.held = s.held
            /\ g.from = s.from
        BY GotoIs DEF Loading
      <3> HIDE DEF g, s, new, dst
      <3>3. new.pc = "init" /\ new.op = s.op /\ new.dst = s.dst /\ new.held = s.held /\ new.from = s.from
        BY <3>1, <3>2 DEF TaskType
      <3>4. s.held # Nothing
        BY <3>3 DEF Copying, new
      <3> QED BY <1>2, <2>1, <3>3, <3>4 DEF Loading
    <2> QED BY <2>2, <2>3
  <1>6. CASE init(t)
    <2>1. s.pc = "init" /\ \E awaits : Step(t, Goto(t, "padLoad", awaits))
      BY <1>6 DEF init, At
    <2>2. PICK awaits : new = Goto(t, "padLoad", awaits)
      BY <2>1, Places
    <2>3. /\ new.pc = "padLoad" /\ new.op = s.op /\ new.dst = s.dst /\ new.held = s.held
          /\ new.from = s.from
      BY <2>2, TaskFields DEF Goto, TaskType
    <2>4. s.held # Nothing
      BY <2>3 DEF Copying
    <2>5. s.op \in Copies => view' = view
      <3> SUFFICES ASSUME s.op \in Copies PROVE view' = view
        OBVIOUS
      <3>1. InHand(t) /\ s.op \notin Snapshots
        BY <2>1 DEF HandsInv, Busy, Copies, Snapshots
      <3>2. Exists(Target(t))
        BY <2>1, <2>4, <3>1 DEF InHand, Target, Exists
      <3> QED BY <1>6, <3>2 DEF init
    <2> HIDE DEF s, new, dst
    <2> QED BY <1>2, <2>1, <2>3, <2>4, <2>5 DEF Loading
  <1>7. CASE cachePad(t)
    <2>1. s.pc = "padLoad" /\ view' = view /\ mem' = mem /\ new = Got(t, s.obj)
      BY <1>7, Places DEF cachePad, At
    <2>2. s.obj \in DOMAIN mem
      BY <2>1, TaskFields DEF HandsInv, Shape
    <2> QED BY <1>4, <2>1, <2>2 DEF Loading
  <1>8. CASE SaveSource(t)
    <2>1. PICK awaits : new = Goto(t, "clear", awaits)
      BY <1>8, Places DEF SaveSource
    <2>2. new.pc = "clear" /\ new.op = s.op /\ new.dst = s.dst /\ new.held = s.held /\ new.from = s.from
      BY <2>1, TaskFields DEF Goto, TaskType
    <2>3. s.held # Nothing
      BY <2>2 DEF Copying
    <2> HIDE DEF s, new, dst
    <2> QED BY <1>2, <2>2, <2>3 DEF Loading
  <1>9. CASE removePadIfForceIsTrueAndAlreadyExist(t)
    <2>1. CASE Return(t, mem, cache, kept)
      <3>1. new = Idle
        BY <2>1, Places DEF Return
      <3> QED BY <3>1, IdleTyped DEF Copying
    <2>2. CASE ~Return(t, mem, cache, kept)
      <3>1. PICK awaits : new = Goto(t, IF s.op \in Copies THEN "read" ELSE "getPad", awaits)
        BY <1>9, <2>2, Places DEF removePadIfForceIsTrueAndAlreadyExist
      <3>2. /\ new.pc = (IF s.op \in Copies THEN "read" ELSE "getPad") /\ new.op = s.op /\ new.dst = s.dst
            /\ new.held = s.held /\ new.from = s.from
        BY <3>1, TaskFields DEF Goto, TaskType
      <3>3. s.held # Nothing
        BY <3>2 DEF Copying
      <3> HIDE DEF s, new, dst
      <3> QED BY <1>2, <3>2, <3>3 DEF Loading
    <2> QED BY <2>1, <2>2
  <1>10. CASE ReadRecords(t) \/ copyRecord(t) \/ RecordsCopied(t) \/ AppendSnapshot(t)
    BY <1>10, ReadRecordsSource, CopyRecordSource, RecordsCopiedSource, MadeAnewSource
  <1> QED BY <1>5, <1>6, <1>7, <1>8, <1>9, <1>10, NoCopyAfter, ReadAtOnce DEF TaskStep

LEMMA NextSource ==
    ASSUME TakeTurns, TypeInv, HandsInv, SourceInv, [Next]_vars
    PROVE  SourceInv'
  <1>1. TypeInv' /\ HandsInv'
    BY NextHands
  <1>2. CASE UNCHANGED vars
    BY <1>2 DEF vars, SourceInv, SourceOf, Between
  <1>3. CASE \E t \in Tasks : TaskStep(t)
    <2>1. PICK t \in Tasks : TaskStep(t)
      BY <1>3
    <2>2. Footprint(t)
      BY <2>1, TaskSteps
    <2>3. ASSUME NEW u \in Tasks, Copying(task'[u]) PROVE SourceOf(u)'
      <3>1. CASE u = t
        BY <1>1, <2>1, <2>3, <3>1, OwnSource
      <3>2. CASE u # t
        <4>1. Copying(task[u])
          BY <2>2, <2>3, <3>2 DEF Footprint
        <4> QED BY <1>1, <2>1, <2>2, <3>2, <4>1, OthersSource
      <3> QED BY <3>1, <3>2
    <2> QED BY <2>3 DEF SourceInv
  <1>4. CASE \E k \in Keys : Flush(k)
    <2>1. PICK k \in Keys : Flush(k)
      BY <1>4
    <2>2. view' = view /\ mem' = mem
      BY <2>1 DEF Flush
    <2>3. ASSUME NEW u \in Tasks, Copying(task'[u]) PROVE SourceOf(u)'
      <3> DEFINE s == task[u]
                 new == task'[u]
                 dst == PadKey(s.dst)
      <3>1. /\ new.pc = s.pc /\ new.op = s.op /\ new.dst = s.dst /\ new.held = s.held /\ new.from = s.from
            /\ new.records = s.records
        BY <2>1, FlushIs
      <3>2. SourceOf(u)
        BY <2>3, <3>1 DEF SourceInv, Copying
      <3> HIDE DEF s, new
      <3>3. Planned(new, view) = Planned(s, view)
        BY <3>1 DEF Planned
      <3>4. /\ IsPrefix(s.from, mem[s.held].text)
            /\ s.pc = "records" => Between(s, Planned(s, view)[dst].text)
            /\ s.op \in Copies /\ s.pc \in Loading \cup {"second"} => Between(s, view[dst].text)
        BY <3>2 DEF SourceOf, s
      <3> QED BY <2>2, <3>1, <3>3, <3>4 DEF SourceOf, Between, new
    <2> QED BY <2>3 DEF SourceInv
  <1>5. CASE Crash
    <2>1. \A u \in Tasks : task'[u] = Idle
      BY <1>5 DEF Crash
    <2> QED BY <2>1, IdleTyped DEF SourceInv, Copying
  <1> QED BY <1>2, <1>3, <1>4, <1>5 DEF Next

LEMMA AlwaysSource == TakeTurns /\ Spec => [](TypeInv /\ HandsInv /\ SourceInv /\ crashes \in Nat)
  <1> SUFFICES ASSUME TakeTurns PROVE Spec => [](TypeInv /\ HandsInv /\ SourceInv /\ crashes \in Nat)
    OBVIOUS
  <1> DEFINE IInv == TypeInv /\ HandsInv /\ SourceInv /\ crashes \in Nat
  <1>1. Init => IInv
    <2> SUFFICES ASSUME Init PROVE SourceInv /\ crashes \in Nat
      BY InitInv
    <2>1. \A t \in Tasks : task[t] = Idle
      BY DEF Init
    <2> QED BY <2>1, IdleTyped DEF SourceInv, Copying, Init
  <1>2. IInv /\ [Next]_vars => IInv'
    <2> SUFFICES ASSUME IInv, [Next]_vars PROVE IInv'
      OBVIOUS
    <2>1. crashes' \in Nat
      <3>1. CASE \E t \in Tasks : TaskStep(t)
        BY <3>1, NoCrash
      <3>2. CASE ~(\E t \in Tasks : TaskStep(t))
        BY <3>2 DEF Next, Flush, Crash, vars
      <3> QED BY <3>1, <3>2
    <2> QED BY <2>1, NextHands, NextSource
  <1> HIDE DEF IInv
  <1>3. IInv => TypeInv /\ HandsInv /\ SourceInv /\ crashes \in Nat
    BY DEF IInv
  <1> QED BY <1>1, <1>2, <1>3, PTL DEF Spec

\* What a call leaves a copy with, whose last step this is.
LEMMA CopyDone ==
    ASSUME TakeTurns, TypeInv, TypeInv', HandsInv, SourceInv, NEW t \in Tasks, Copying(task[t]),
           Copied(t) \/ AppendSnapshot(t)
    PROVE  LET text == mem'[cache'[task[t].dst]].text IN
           IsPrefix(task[t].from, text) /\ IsPrefix(text, mem[task[t].held].text)
  <1> DEFINE o == task[t].obj
             q == task[t].dst
             cs == mem[task[t].held].text
  <1>1. IsPrefix(task[t].from, cs) /\ cs \in Texts /\ IsPrefix(cs, cs) /\ q \in Pads
    BY CopyingHas, PrefixRules DEF SourceInv, SourceOf
  <1>2. CASE Copied(t)
    <2>1. task[t].pc = "second" /\ task[t].op \in Copies /\ cache' = cache
      BY <1>2 DEF Copied, At, Return
    <2>2. cache[q] = o /\ o # Nothing /\ o \in DOMAIN mem
      BY <2>1, CopyingHas, TaskFields DEF InHand, Shape
    <2>3. mem[o] = view[PadKey(q)]
      <3>1. q \in Uses(t) /\ ~Rewritten(q)
        BY <2>1, CopyingPad DEF Copying
      <3> QED BY <1>1, <2>2, <3>1 DEF HandsInv, CacheIsStored
    <2>4. Between(task[t], mem[o].text)
      BY <2>1, <2>3 DEF SourceInv, SourceOf
    <2>5. mem'[o] = mem[o]
      <3>1. CASE mem' = mem
        BY <3>1
      <3>2. CASE mem' # mem
        <4>1. mem' = Live(mem, cache', task')
          BY <1>2, <3>2 DEF Copied, Return, Step
        <4>2. o \in DOMAIN mem'
          BY <1>1, <2>1, <2>2, <4>1, LiveIs DEF TypeInv
        <4> QED BY <4>1, <4>2, LiveIs DEF TypeInv
      <3> QED BY <3>1, <3>2
    <2> QED BY <2>1, <2>2, <2>4, <2>5 DEF Between
  <1>3. CASE AppendSnapshot(t)
    <2> DEFINE new == appendRevision(Blank, cs)
               snapshot == [mem EXCEPT ![o] = new]
    <2>1. /\ o \in DOMAIN mem /\ cache[q] = o /\ mem[o] = Blank /\ cache' = cache
      BY <1>3, SnapshotParts
    <2>2. new.text = cs
      <3> DEFINE blank == Blank
      <3>1. blank.head = 0 /\ blank.text = <<>> /\ <<>> \o cs = cs
        BY <1>1, ConcatProperties DEF Blank, Texts
      <3>2. CASE HasEffect(blank, cs)
        <4>1. blank \in PadIn(ChatRoom)
          BY RoomBounded, BlankTyped
        <4> HIDE DEF blank
        <4>2. [blank EXCEPT !.head = @ + 1, !.text = @ \o cs].text = blank.text \o cs
          BY <4>1 DEF PadIn
        <4>3. appendRevision(blank, cs).text = cs
          BY <3>1, <3>2, <4>2 DEF appendRevision
        <4> QED BY <4>3 DEF blank
      <3>3. CASE ~HasEffect(blank, cs)
        BY <3>1, <3>3 DEF appendRevision, HasEffect
      <3> QED BY <3>2, <3>3
    <2>3. mem' = snapshot \/ Return(t, snapshot, cache, kept)
      BY <1>3, <2>1 DEF AppendSnapshot
    <2> HIDE DEF new
    <2>4. DOMAIN snapshot = DOMAIN mem /\ snapshot[o] = new
      BY <2>1
    <2> HIDE DEF snapshot
    <2>5. mem'[o] = new
      <3>1. CASE mem' = snapshot
        BY <2>4, <3>1
      <3>2. CASE Return(t, snapshot, cache, kept)
        <4>1. mem' = Live(snapshot, cache', task') /\ IsFiniteSet(DOMAIN snapshot)
          BY <2>4, <3>2 DEF Return, Step, TypeInv
        <4>2. o \in DOMAIN mem'
          BY <1>1, <2>1, <2>4, <4>1, LiveIs
        <4> QED BY <2>4, <4>1, <4>2, LiveIs
      <3> QED BY <2>3, <3>1, <3>2
    <2> QED BY <1>1, <2>1, <2>2, <2>5
  <1> QED BY <1>2, <1>3

\* A copy (copyPad, movePad, copyPadWithoutHistory and both halves of
\* deleteAllRevisions) has the text that its source had at one moment of the
\* call, whatever others write to the source in the meantime (Pad.ts, copy).
THEOREM CopiesAreSnapshots == TakeTurns /\ Spec => CopyIsSnapshot
  <1> DEFINE Good == TypeInv /\ HandsInv /\ SourceInv /\ crashes \in Nat
             A == \A t \in Tasks :
                    task[t].pc = "second" /\ task[t].op \in Copies \cup Snapshots
                        /\ task'[t].pc # "second" /\ crashes' = crashes =>
                      LET text == mem'[cache'[task[t].dst]].text IN
                      IsPrefix(task[t].from, text) /\ IsPrefix(text, mem[task[t].held].text)
  <1>1. TakeTurns => (Good /\ [Next]_vars => [A]_vars)
    <2> SUFFICES ASSUME TakeTurns, Good, [Next]_vars, NEW t \in Tasks, task[t].pc = "second",
                        task[t].op \in Copies \cup Snapshots, task'[t].pc # "second", crashes' = crashes
                 PROVE  LET text == mem'[cache'[task[t].dst]].text IN
                        IsPrefix(task[t].from, text) /\ IsPrefix(text, mem[task[t].held].text)
      OBVIOUS
    <2>1. TypeInv' /\ HandsInv'
      BY NextHands
    <2>2. Copying(task[t])
      BY DEF HandsInv, Shape, Copying, CopyOps, Loading
    <2>3. \E u \in Tasks : TaskStep(u)
      <3>1. ~(\E k \in Keys : Flush(k))
        BY FlushIs
      <3>2. ~Crash
        BY DEF Crash
      <3> QED BY <3>1, <3>2 DEF Next, vars
    <2>4. TaskStep(t)
      BY <2>3, TaskSteps DEF Footprint
    <2>5. Copied(t) \/ AppendSnapshot(t)
      <3>1. task[t].op \notin {"open", "append", "chat", "save", "remove", "compact"}
        BY DEF Copies, Snapshots
      <3>2. task[t].pc # "idle"
        OBVIOUS
      <3>3. ~ReadMessages(t) /\ ~copyRecord(t)
        BY ReadAtOnce
      <3> QED BY <2>4, <3>1, <3>2, <3>3
              DEF TaskStep, Call, getPad, init, cachePad, Open, AppendEdit, appendChatMessage, addSavedRevision,
                  remove, Written, SaveSource, removePadIfForceIsTrueAndAlreadyExist, ReadRecords, RecordsCopied,
                  LoadRevisions, DeleteRevisions, RewriteRecord, RewriteRevisions, Unload, Reloaded,
                  Running, At, Busy
    <2> QED BY <2>1, <2>2, <2>5, CopyDone
  <1> SUFFICES ASSUME TakeTurns PROVE Spec => CopyIsSnapshot
    OBVIOUS
  <1>3. Good /\ [Next]_vars => [A]_vars
    BY <1>1
  <1>4. Spec => []Good
    BY AlwaysSource
  <1> HIDE DEF Good
  <1> QED BY <1>3, <1>4, PTL DEF Spec, CopyIsSnapshot

-----------------------------------------------------------------------------
(* What calls have been answered for. *)

\* Whether the record of k does its part in keeping e under key: the pad's by a
\* text that holds it, or by a head, the other by what it holds.
Bears(key, e, k, rec) ==
    /\ rec # Nothing
    /\ k[1] = "pad" => IF key[1] = "revs" THEN key[3] <= rec.head /\ e \in ToSet(rec.text)
                       ELSE key[3] <= rec.chatHead
    /\ k[1] = "revs" => e \in ToSet(rec.changeset)
    /\ k[1] = "chat" => rec = e

Bearing(db, p, key, e) == Bears(key, e, PadKey(p), db[PadKey(p)]) /\ Bears(key, e, key, db[key])

\* e is kept under a key, on the disk too but for the records that are awaited.
Safe(db, stored, p, e, awaited) == \E key \in KeysOf(p) \ {PadKey(p)} :
    /\ Bearing(db, p, key, e)
    /\ \A k \in {PadKey(p), key} : k \in awaited \/ Bears(key, e, k, stored[k])

\* The keys a compaction has yet to write, or awaits.
Unwritten(s) ==
    s.awaits \cup {r[1] : r \in s.records} \cup (IF s.pc \in {"delete", "head"} THEN {PadKey(s.pad)} ELSE {})

\* Nobody awaits the records of another's pad.
AwaitsOwn == \A t \in Tasks : \A k \in task[t].awaits : \E p \in Uses(t) : k \in KeysOf(p)

\* What is not on the disk yet is awaited, or of a pad that exists, and so of
\* one whose removal will await it.
NothingForgotten == \A k \in Keys : view[k] # disk[k] =>
    (\E t \in Tasks : k \in task[t].awaits)
    \/ (\E p \in Pads : Exists(p) /\ k \in RecordKeys(p, view[PadKey(p)]))

\* What is kept for good.
Promised == [p \in Pads |-> kept[p] \ forgone[p]]
KeptType == kept \in [Pads -> SUBSET Nat] /\ forgone \in [Pads -> SUBSET Nat]

\* What a copy has not on the disk yet it awaits.
Replacing(s) == s.op \in Copies /\ (s.pc \in {"read", "records", "second"} \/ (s.pc \in Loading /\ s.held # Nothing))

CopyAwaited == \A t \in Tasks : Replacing(task[t]) =>
    /\ Promised[task[t].dst] = {}
    /\ \A k \in KeysOf(task[t].dst) : view[k] = disk[k] \/ k \in task[t].awaits

\* The revisions that a compaction has deleted are off the disk before it goes on.
DeletedAwaited == \A t \in Tasks : task[t].pc = "head" =>
    \A k \in RevKeys(task[t].pad, task[t].n + KeepRevisions) : view[k] = disk[k] \/ k \in task[t].awaits

KeptSafeOf(p) ==
    /\ Promised[p] # {} => Exists(p) /\ disk[PadKey(p)] # Nothing
    /\ Compacting(p) \/ \A e \in Promised[p] : Safe(view, disk, p, e, {})

KeptSafe == \A p \in Pads : KeptSafeOf(p)

\* What a call will be answered for, and what a compaction carries over.
EditSafe(t) == task[t].pc = "write" /\ task[t].op \in {"append", "chat"} =>
    Safe(view, disk, task[t].pad, task[t].n, task[t].awaits)

PlanSafe(t) == task[t].pc \in {"delete", "head", "revs", "unload"} =>
    \A e \in Promised[task[t].pad] : Safe(Compacted(task[t], view), disk, task[t].pad, e, Unwritten(task[t]))

AnsweredSafe == \A t \in Tasks :
    EditSafe(t) /\ PlanSafe(t) /\ (task[t].pc = "unload" => task[t].records = {})

KeptInv ==
    /\ KeptType /\ crashes \in Nat
    /\ AwaitsOwn /\ NothingForgotten /\ DeletedAwaited /\ CopyAwaited /\ KeptSafe /\ AnsweredSafe

-----------------------------------------------------------------------------
(* Records that keep an edit or a message. *)

LEMMA BearsIs ==
    ASSUME NEW key, NEW e, NEW p, NEW rec
    PROVE  /\ Bears(key, e, PadKey(p), rec) <=>
                rec # Nothing /\ IF key[1] = "revs" THEN key[3] <= rec.head /\ e \in ToSet(rec.text)
                                 ELSE key[3] <= rec.chatHead
           /\ \A r : Bears(key, e, RevKey(p, r), rec) <=> rec # Nothing /\ e \in ToSet(rec.changeset)
           /\ \A n : Bears(key, e, ChatKey(p, n), rec) <=> rec # Nothing /\ rec = e
  <1>1. PadKey(p)[1] = "pad" /\ (\A r : RevKey(p, r)[1] = "revs") /\ (\A n : ChatKey(p, n)[1] = "chat")
    BY KeyParts
  <1>2. ASSUME NEW r PROVE Bears(key, e, RevKey(p, r), rec) <=> rec # Nothing /\ e \in ToSet(rec.changeset)
    BY <1>1 DEF Bears
  <1>3. ASSUME NEW n PROVE Bears(key, e, ChatKey(p, n), rec) <=> rec # Nothing /\ rec = e
    BY <1>1 DEF Bears
  <1>4. Bears(key, e, PadKey(p), rec) <=>
          rec # Nothing /\ IF key[1] = "revs" THEN key[3] <= rec.head /\ e \in ToSet(rec.text)
                           ELSE key[3] <= rec.chatHead
    BY <1>1 DEF Bears
  <1> QED BY <1>2, <1>3, <1>4

\* A key of a pad other than the pad's own.
LEMMA OtherKeyIs ==
    ASSUME NEW p \in Pads, NEW key \in KeysOf(p) \ {PadKey(p)}
    PROVE  /\ key \in Keys /\ key[2] = p /\ key[3] \in Nat
           /\ \/ key[1] = "revs" /\ key[3] \in 0 .. MaxHead /\ key = RevKey(p, key[3])
              \/ key[1] = "chat" /\ key[3] \in 0 .. MaxCalls /\ key = ChatKey(p, key[3])
  <1>1. (\E r \in 0 .. MaxHead : key = RevKey(p, r)) \/ (\E n \in 0 .. MaxCalls : key = ChatKey(p, n))
    BY DEF KeysOf, RevKeys, ChatKeys
  <1>2. CASE \E r \in 0 .. MaxHead : key = RevKey(p, r)
    <2>1. PICK r \in 0 .. MaxHead : key = RevKey(p, r)
      BY <1>2
    <2>2. key[1] = "revs" /\ key[2] = p /\ key[3] = r
      BY <2>1, KeyParts
    <2> QED BY <2>1, <2>2, KeysInside
  <1>3. CASE \E n \in 0 .. MaxCalls : key = ChatKey(p, n)
    <2>1. PICK n \in 0 .. MaxCalls : key = ChatKey(p, n)
      BY <1>3
    <2>2. key[1] = "chat" /\ key[2] = p /\ key[3] = n
      BY <2>1, KeyParts
    <2> QED BY <2>1, <2>2, KeysInside
  <1> QED BY <1>1, <1>2, <1>3

\* Which keys the records of a pad have.
LEMMA RecordKeysAre ==
    ASSUME NEW room \in Int, room <= MaxCalls, NEW pad \in PadIn(room), NEW p \in Pads, NEW key \in KeysOf(p) \ {PadKey(p)}
    PROVE  key \in RecordKeys(p, pad) <=>
             key[3] <= IF key[1] = "revs" THEN pad.head ELSE pad.chatHead
  <1>1. pad.head \in Int /\ pad.chatHead \in Int /\ key[3] \in Nat
    BY PadParts, OtherKeyIs
  <1>2. CASE key[1] = "revs"
    <2>1. key = RevKey(p, key[3])
      BY <1>2, OtherKeyIs
    <2>2. key \in RevKeys(p, pad.head) <=> key[3] \in 0 .. pad.head
      <3>1. \A r : RevKey(p, r) = key => r = key[3]
        BY KeyParts
      <3> QED BY <2>1, <3>1 DEF RevKeys
    <2>3. key \notin ChatKeys(p, pad.chatHead)
      BY <1>2, KeyParts DEF ChatKeys
    <2> QED BY <1>1, <1>2, <2>2, <2>3 DEF RecordKeys
  <1>3. CASE key[1] = "chat"
    <2>1. key = ChatKey(p, key[3])
      BY <1>3, OtherKeyIs
    <2>2. key \in ChatKeys(p, pad.chatHead) <=> key[3] \in 0 .. pad.chatHead
      <3>1. \A n : ChatKey(p, n) = key => n = key[3]
        BY KeyParts
      <3> QED BY <2>1, <3>1 DEF ChatKeys
    <2>3. key \notin RevKeys(p, pad.head)
      BY <1>3, KeyParts DEF RevKeys
    <2> QED BY <1>1, <1>3, <2>2, <2>3 DEF RecordKeys
  <1> QED BY <1>2, <1>3, OtherKeyIs

\* What a pad holds some record keeps.
LEMMA HoldsIs ==
    ASSUME NEW room \in Int, room <= MaxCalls, NEW db, IsDatabase(room, db), NEW p \in Pads, db[PadKey(p)] # Nothing,
           NEW e
    PROVE  e # Nothing =>
             (e \in Holds(db, p, db[PadKey(p)]) <=> \E key \in KeysOf(p) \ {PadKey(p)} : Bearing(db, p, key, e))
  <1> DEFINE pad == db[PadKey(p)]
  <1> SUFFICES ASSUME e # Nothing
               PROVE  e \in Holds(db, p, pad) <=> \E key \in KeysOf(p) \ {PadKey(p)} : Bearing(db, p, key, e)
    OBVIOUS
  <1>1. pad \in PadIn(room) /\ pad.head \in 0 .. MaxHead /\ pad.chatHead \in -1 .. room
    BY StoredHead, PadParts
  <1>2. pad # Nothing
    OBVIOUS
  <1> HIDE DEF pad
  <1>3. ASSUME NEW r \in 0 .. MaxHead
        PROVE  Bearing(db, p, RevKey(p, r), e) <=>
                 /\ r <= pad.head /\ e \in ToSet(pad.text)
                 /\ db[RevKey(p, r)] # Nothing /\ e \in ToSet(db[RevKey(p, r)].changeset)
    <2>1. RevKey(p, r)[1] = "revs" /\ RevKey(p, r)[3] = r
      BY KeyParts
    <2>2. Bears(RevKey(p, r), e, PadKey(p), pad) <=> r <= pad.head /\ e \in ToSet(pad.text)
      BY <1>2, <2>1, BearsIs
    <2> QED BY <2>2, BearsIs DEF Bearing, pad
  <1>4. ASSUME NEW n \in 0 .. MaxCalls
        PROVE  Bearing(db, p, ChatKey(p, n), e) <=> n <= pad.chatHead /\ db[ChatKey(p, n)] = e
    <2>1. ChatKey(p, n)[1] = "chat" /\ ChatKey(p, n)[3] = n
      BY KeyParts
    <2>2. Bears(ChatKey(p, n), e, PadKey(p), pad) <=> n <= pad.chatHead
      BY <1>2, <2>1, BearsIs
    <2> QED BY <2>2, BearsIs DEF Bearing, pad
  <1>5. ASSUME NEW key \in KeysOf(p) \ {PadKey(p)}, Bearing(db, p, key, e)
        PROVE  e \in Holds(db, p, pad)
    <2>1. CASE key[1] = "revs"
      <3>1. key[3] \in 0 .. MaxHead /\ key = RevKey(p, key[3])
        BY <2>1, OtherKeyIs
      <3>2. /\ key[3] <= pad.head /\ e \in ToSet(pad.text)
            /\ db[key] # Nothing /\ e \in ToSet(db[key].changeset)
        BY <1>3, <1>5, <3>1
      <3>3. key \in RevKeys(p, pad.head)
        BY <1>1, <3>1, <3>2 DEF RevKeys
      <3> QED BY <3>2, <3>3 DEF Holds
    <2>2. CASE key[1] = "chat"
      <3>1. key[3] \in 0 .. MaxCalls /\ key = ChatKey(p, key[3])
        BY <2>2, OtherKeyIs
      <3>2. key[3] <= pad.chatHead /\ db[key] = e
        BY <1>4, <1>5, <3>1
      <3>3. key \in ChatKeys(p, pad.chatHead)
        BY <1>1, <3>1, <3>2 DEF ChatKeys
      <3> QED BY <3>2, <3>3 DEF Holds
    <2> QED BY <2>1, <2>2, OtherKeyIs
  <1>6. ASSUME e \in Holds(db, p, pad)
        PROVE  \E key \in KeysOf(p) \ {PadKey(p)} : Bearing(db, p, key, e)
    <2>1. CASE \E k \in ChatKeys(p, pad.chatHead) : db[k] = e
      <3>1. PICK n \in 0 .. pad.chatHead : db[ChatKey(p, n)] = e
        BY <2>1 DEF ChatKeys
      <3>2. n \in 0 .. MaxCalls /\ n <= pad.chatHead
        BY <1>1, <3>1, Constants
      <3> QED BY <1>4, <3>1, <3>2, OtherKeys
    <2>2. CASE e \in ToSet(pad.text) /\ \E k \in RevKeys(p, pad.head) : db[k] # Nothing /\ e \in ToSet(db[k].changeset)
      <3>1. PICK r \in 0 .. pad.head : db[RevKey(p, r)] # Nothing /\ e \in ToSet(db[RevKey(p, r)].changeset)
        BY <2>2 DEF RevKeys
      <3>2. r \in 0 .. MaxHead /\ r <= pad.head
        BY <1>1, <3>1, Constants
      <3> QED BY <1>3, <2>2, <3>1, <3>2, OtherKeys
    <2> QED BY <1>6, <2>1, <2>2 DEF Holds
  <1> QED BY <1>5, <1>6

LEMMA SafeStays ==
    ASSUME NEW db, NEW db2, NEW stored, NEW stored2, NEW p, NEW e, NEW W, NEW W2, Safe(db, stored, p, e, W),
           \A key \in KeysOf(p) \ {PadKey(p)} : Bearing(db, p, key, e) =>
             /\ Bearing(db2, p, key, e)
             /\ \A k \in {PadKey(p), key} :
                  k \in W \/ Bears(key, e, k, stored[k]) => k \in W2 \/ Bears(key, e, k, stored2[k])
    PROVE  Safe(db2, stored2, p, e, W2)
  <1>1. PICK key \in KeysOf(p) \ {PadKey(p)} :
          /\ Bearing(db, p, key, e)
          /\ \A k \in {PadKey(p), key} : k \in W \/ Bears(key, e, k, stored[k])
    BY DEF Safe
  <1>2. Bearing(db2, p, key, e) /\ \A k \in {PadKey(p), key} : k \in W2 \/ Bears(key, e, k, stored2[k])
    BY <1>1
  <1> QED BY <1>2 DEF Safe

\* What is kept without waiting is in the database on disk.
LEMMA SafeOnDisk ==
    ASSUME NEW db, NEW stored, NEW p, NEW e
    PROVE  Safe(db, stored, p, e, {}) <=>
             \E key \in KeysOf(p) \ {PadKey(p)} : Bearing(db, p, key, e) /\ Bearing(stored, p, key, e)
  BY DEF Safe, Bearing

-----------------------------------------------------------------------------
(* What steps do to the records of a pad. *)

\* The pad is written on: nothing below its heads changes.
Onward(p) ==
    Exists(p) =>
        LET old == view[PadKey(p)]
            new == view'[PadKey(p)] IN
        /\ new # Nothing /\ old.head <= new.head /\ old.chatHead <= new.chatHead
        /\ ToSet(old.text) \subseteq ToSet(new.text)
        /\ \A key \in RecordKeys(p, old) \ {PadKey(p)} : view'[key] = view[key]

LEMMA OnwardBears ==
    ASSUME TypeInv, TypeInv', NEW p \in Pads, Onward(p), NEW key \in KeysOf(p) \ {PadKey(p)}, NEW e,
           Bearing(view, p, key, e)
    PROVE  Bearing(view', p, key, e)
  <1> DEFINE old == view[PadKey(p)]
             new == view'[PadKey(p)]
  <1>1. old # Nothing /\ Exists(p)
    BY DEF Bearing, Bears, Exists
  <1>2. old \in PadIn(ChatRoom) /\ ChatRoom \in Int /\ ChatRoom <= MaxCalls
    BY <1>1, RoomBounded, StoredHead, Constants DEF TypeInv
  <1>3. new # Nothing /\ old.head <= new.head /\ old.chatHead <= new.chatHead /\ ToSet(old.text) \subseteq ToSet(new.text)
        /\ \A k \in RecordKeys(p, old) \ {PadKey(p)} : view'[k] = view[k]
    BY <1>1 DEF Onward
  <1>4. new.head \in Int /\ new.chatHead \in Int
    <2>1. ChatRoom' \in Int /\ IsDatabase(ChatRoom', view')
      BY DEF TypeInv
    <2>2. new \in PadIn(ChatRoom')
      BY <1>3, <2>1, StoredHead
    <2> QED BY <2>1, <2>2, PadParts
  <1>5. old.head \in Int /\ old.chatHead \in Int /\ key[3] \in Nat
    BY <1>2, PadParts, OtherKeyIs
  <1>6. Bears(key, e, PadKey(p), old) /\ Bears(key, e, key, view[key])
    BY DEF Bearing
  <1> HIDE DEF old, new
  <1>7. IF key[1] = "revs" THEN key[3] <= old.head /\ e \in ToSet(old.text) ELSE key[3] <= old.chatHead
    BY <1>6, BearsIs
  <1>8. Bears(key, e, PadKey(p), new)
    BY <1>3, <1>4, <1>5, <1>7, BearsIs
  <1>9. view'[key] = view[key]
    <2>1. key \in RecordKeys(p, old)
      BY <1>2, <1>5, <1>7, RecordKeysAre
    <2> QED BY <1>3, <2>1
  <1> QED BY <1>6, <1>8, <1>9 DEF Bearing, new

LEMMA OnwardKeys ==
    ASSUME TypeInv, TypeInv', NEW p \in Pads, Exists(p), Onward(p)
    PROVE  Exists(p)' /\ RecordKeys(p, view[PadKey(p)]) \subseteq RecordKeys(p, view'[PadKey(p)])
  <1> DEFINE old == view[PadKey(p)]
             new == view'[PadKey(p)]
  <1>1. old \in PadIn(ChatRoom) /\ ChatRoom \in Int /\ ChatRoom <= MaxCalls
    BY RoomBounded, StoredHead, Constants DEF TypeInv, Exists
  <1>2. new # Nothing /\ old.head <= new.head /\ old.chatHead <= new.chatHead
    BY DEF Onward
  <1>3. new \in PadIn(ChatRoom') /\ ChatRoom' \in Int
    <2>1. ChatRoom' \in Int /\ IsDatabase(ChatRoom', view')
      BY DEF TypeInv
    <2> QED BY <1>2, <2>1, StoredHead
  <1>4. old.head \in Int /\ old.chatHead \in Int /\ new.head \in Int /\ new.chatHead \in Int
    BY <1>1, <1>3, PadParts
  <1> HIDE DEF old, new
  <1>5. 0 .. old.head \subseteq 0 .. new.head /\ 0 .. old.chatHead \subseteq 0 .. new.chatHead
    BY <1>2, <1>4
  <1>6. RecordKeys(p, old) \subseteq RecordKeys(p, new)
    BY <1>5 DEF RecordKeys, RevKeys, ChatKeys
  <1> QED BY <1>2, <1>6 DEF Exists, old, new

\* A pad nobody writes to.
LEMMA OnwardSame ==
    ASSUME TypeInv, NEW p \in Pads, \A k \in KeysOf(p) : view'[k] = view[k]
    PROVE  Onward(p)
  <1> SUFFICES ASSUME Exists(p) PROVE Onward(p)
    BY DEF Onward
  <1> DEFINE old == view[PadKey(p)]
  <1>1. old \in PadIn(ChatRoom) /\ ChatRoom \in Int /\ ChatRoom <= MaxCalls /\ old # Nothing
    BY RoomBounded, StoredHead, Constants DEF TypeInv, Exists
  <1>2. view'[PadKey(p)] = old /\ old.head \in Int /\ old.chatHead \in Int
    BY <1>1, KeysInside, PadParts
  <1>3. RecordKeys(p, old) \subseteq KeysOf(p)
    BY <1>1, RemovedTyped
  <1> QED BY <1>1, <1>2, <1>3 DEF Onward

LEMMA MoreText ==
    ASSUME NEW s \in Texts, NEW t \in Texts
    PROVE  ToSet(s) \subseteq ToSet(s \o t) /\ ToSet(t) \subseteq ToSet(s \o t)
  <1>1. Len(s) \in Nat /\ Len(t) \in Nat /\ DOMAIN s = 1 .. Len(s) /\ DOMAIN t = 1 .. Len(t)
    BY DEF Texts
  <1>2. /\ DOMAIN (s \o t) = 1 .. Len(s) + Len(t)
        /\ \A i \in 1 .. Len(s) : (s \o t)[i] = s[i]
        /\ \A i \in 1 .. Len(t) : (s \o t)[Len(s) + i] = t[i]
    BY DEF Texts
  <1> DEFINE st == s \o t
  <1> HIDE DEF st
  <1>3. /\ DOMAIN st = 1 .. Len(s) + Len(t) /\ \A i \in 1 .. Len(s) : st[i] = s[i]
        /\ \A i \in 1 .. Len(t) : st[Len(s) + i] = t[i]
    BY <1>2 DEF st
  <1>4. ASSUME NEW i \in 1 .. Len(s) PROVE s[i] \in ToSet(st)
    <2>1. i \in DOMAIN st /\ st[i] = s[i]
      BY <1>1, <1>3
    <2> QED BY <2>1 DEF ToSet
  <1>5. ASSUME NEW i \in 1 .. Len(t) PROVE t[i] \in ToSet(st)
    <2>1. Len(s) + i \in DOMAIN st /\ st[Len(s) + i] = t[i]
      BY <1>1, <1>3
    <2> QED BY <2>1 DEF ToSet
  <1>6. ToSet(s) \subseteq ToSet(st) /\ ToSet(t) \subseteq ToSet(st)
    BY <1>1, <1>4, <1>5 DEF ToSet
  <1> QED BY <1>6 DEF st

LEMMA OnwardWrite ==
    ASSUME TypeInv, NEW p \in Pads, NEW f, DOMAIN f \subseteq KeysOf(p), Set(f), PadKey(p) \in DOMAIN f,
           NEW new, f[PadKey(p)] = new, new # Nothing, DOMAIN f \subseteq RecordKeys(p, new),
           Exists(p) =>
             LET old == view[PadKey(p)] IN
             /\ old.head <= new.head /\ old.chatHead <= new.chatHead /\ ToSet(old.text) \subseteq ToSet(new.text)
             /\ DOMAIN f \cap RecordKeys(p, old) \subseteq {PadKey(p)}
    PROVE  /\ \A q \in Pads : Onward(q)
           /\ \A k \in Keys : view'[k] # view[k] => view'[PadKey(p)] # Nothing /\ k \in RecordKeys(p, view'[PadKey(p)])
  <1>1. DOMAIN f \subseteq Keys
    BY KeysInside
  <1>2. IsDatabase(ChatRoom, view)
    BY DEF TypeInv
  <1>3. (\A k \in DOMAIN f : view'[k] = f[k]) /\ \A k \in Keys \ DOMAIN f : view'[k] = view[k]
    BY <1>1, <1>2, SetIs
  <1>4. view'[PadKey(p)] = new
    BY <1>3
  <1>5. ASSUME NEW q \in Pads, q # p PROVE Onward(q)
    <2>1. \A k \in KeysOf(q) : k \in Keys /\ k \notin DOMAIN f
      BY <1>5, KeysInside
    <2> QED BY <1>3, <2>1, OnwardSame
  <1>6. Onward(p)
    <2> SUFFICES ASSUME Exists(p) PROVE Onward(p)
      BY DEF Onward
    <2> DEFINE old == view[PadKey(p)]
    <2>1. RecordKeys(p, old) \subseteq Keys
      <3>1. old \in PadIn(ChatRoom) /\ ChatRoom \in Int /\ ChatRoom <= MaxCalls
        BY RoomBounded, StoredHead, Constants DEF TypeInv, Exists
      <3> QED BY <3>1, RemovedTyped, KeysInside
    <2>2. \A k \in RecordKeys(p, old) \ {PadKey(p)} : view'[k] = view[k]
      BY <1>3, <2>1
    <2> QED BY <1>4, <2>2 DEF Onward
  <1>7. \A k \in Keys : view'[k] # view[k] => k \in DOMAIN f
    BY <1>3
  <1> QED BY <1>4, <1>5, <1>6, <1>7 DEF Exists

LEMMA OnwardRevision ==
    ASSUME TypeInv, NEW p \in Pads, NEW pad \in PadIn(ChatRoom), pad.head < MaxHead, NEW cs \in Texts,
           Set(revisionRecords(p, pad, cs)), Exists(p) => view[PadKey(p)] = pad
    PROVE  /\ \A q \in Pads : Onward(q)
           /\ \A k \in Keys : view'[k] # view[k] => view'[PadKey(p)] # Nothing /\ k \in RecordKeys(p, view'[PadKey(p)])
  <1> DEFINE f == revisionRecords(p, pad, cs)
             new == appendRevision(pad, cs)
  <1>1. ChatRoom \in Int /\ ChatRoom <= MaxCalls /\ IsDatabase(ChatRoom, view)
    BY RoomBounded, Constants DEF TypeInv
  <1>2. /\ DOMAIN f \subseteq KeysOf(p)
        /\ ~HasEffect(pad, cs) => DOMAIN f = {}
        /\ HasEffect(pad, cs) =>
             /\ new.head = pad.head + 1 /\ new.head \in 0 .. MaxHead
             /\ DOMAIN f = {RevKey(p, new.head), PadKey(p)} /\ f[PadKey(p)] = new
    BY <1>1, RevisionRecordsTyped
  <1>3. new \in PadIn(ChatRoom)
    BY <1>1, AppendTyped
  <1>4. CASE ~HasEffect(pad, cs)
    <2>1. \A k \in Keys : view'[k] = view[k]
      <3>1. DOMAIN f = {}
        BY <1>2, <1>4
      <3> HIDE DEF f
      <3> QED BY <1>1, <3>1, SetIs DEF f
    <2> QED BY <2>1, OnwardSame, KeysInside
  <1>5. CASE HasEffect(pad, cs)
    <2> DEFINE key == RevKey(p, new.head)
    <2>1. new.chatHead = pad.chatHead /\ new.text = pad.text \o cs
      BY <1>1, <1>5, AppendTyped
    <2>2. ToSet(pad.text) \subseteq ToSet(new.text)
      BY <1>1, <2>1, PadParts, MoreText
    <2>3. new # Nothing
      BY <1>3, PadsAreRecords
    <2>4. pad.head \in Int /\ pad.chatHead \in Int /\ pad.head <= new.head /\ pad.chatHead <= new.chatHead
      BY <1>1, <1>2, <1>5, <2>1, PadParts
    <2>5. key \in KeysOf(p) \ {PadKey(p)} /\ key[1] = "revs" /\ key[3] = new.head
      BY <1>2, <1>5, OtherKeys, KeyParts
    <2> HIDE DEF key
    <2>6. key \in RecordKeys(p, new) /\ key \notin RecordKeys(p, pad)
      BY <1>1, <1>2, <1>3, <1>5, <2>4, <2>5, RecordKeysAre
    <2>7. PadKey(p) \in RecordKeys(p, new)
      BY DEF RecordKeys
    <2>8. DOMAIN f = {key, PadKey(p)} /\ f[PadKey(p)] = new
      BY <1>2, <1>5 DEF key
    <2>9. Set(f) /\ DOMAIN f \subseteq KeysOf(p)
      BY <1>2
    <2> HIDE DEF f, new
    <2> QED BY <2>2, <2>3, <2>4, <2>6, <2>7, <2>8, <2>9, OnwardWrite
  <1> QED BY <1>4, <1>5

\* What a step awaits, and what it writes.
AwaitsIn(t) == \A k \in task'[t].awaits : \E p \in {task'[t].pad, task'[t].dst} \ {Nothing} : k \in KeysOf(p)
Covered == \A k \in Keys : view'[k] # view[k] =>
    \E p \in Pads : view'[PadKey(p)] # Nothing /\ k \in RecordKeys(p, view'[PadKey(p)])
WritesOn(t) == (\A q \in Pads : Onward(q)) /\ Covered /\ AwaitsIn(t)

LEMMA InitWrites ==
    ASSUME TakeTurns, TypeInv, HandsInv, NEW t \in Tasks, init(t)
    PROVE  WritesOn(t)
  <1> DEFINE p == Target(t)
             first == IF task[t].op \in Snapshots /\ task[t].held # Nothing THEN <<>> ELSE <<0>>
             awaits == RevisionAwaits(p, NewPad, first)
  <1>1. task[t].pc = "init" /\ p \in Pads /\ ChatRoom \in Int /\ -1 <= ChatRoom
    BY LoadingPad, RoomBounded DEF init, At
  <1>2. p = task[t].pad \/ p = task[t].dst
    BY DEF Target
  <1>3. CASE Exists(p)
    <2>1. view' = view /\ Step(t, Goto(t, "padLoad", {}))
      BY <1>3 DEF init
    <2>2. task'[t].awaits = {}
      BY <2>1, Places, GotoIs DEF Loading
    <2> QED BY <2>1, <2>2, OnwardSame DEF WritesOn, Covered, AwaitsIn
  <1>4. CASE ~Exists(p)
    <2>1. Set(revisionRecords(p, NewPad, first)) /\ Step(t, Goto(t, "padLoad", awaits))
      BY <1>4 DEF init
    <2>2. first \in Texts
      <3>1. <<0>> \in Seq(0 .. MaxCalls)
        BY Constants
      <3> QED BY <3>1, EmptyText DEF Texts
    <2>3. NewPad \in PadIn(ChatRoom) /\ NewPad.head < MaxHead
      BY <1>1, BlankTyped, Constants DEF NewPad
    <2> HIDE DEF first, p
    <2>4. awaits \subseteq KeysOf(p)
      <3> DEFINE pad == NewPad
      <3> HIDE DEF pad
      <3>1. pad \in PadIn(ChatRoom) /\ pad.head < MaxHead
        BY <2>3 DEF pad
      <3>2. RevisionAwaits(p, pad, first) = DOMAIN revisionRecords(p, pad, first)
            /\ DOMAIN revisionRecords(p, pad, first) \subseteq KeysOf(p)
        BY <1>1, <2>2, <3>1, RevisionRecordsTyped
      <3> QED BY <3>2 DEF pad
    <2>5. /\ \A q \in Pads : Onward(q)
          /\ \A k \in Keys : view'[k] # view[k] => view'[PadKey(p)] # Nothing /\ k \in RecordKeys(p, view'[PadKey(p)])
      <3> DEFINE pad == NewPad
      <3> HIDE DEF pad
      <3>1. pad \in PadIn(ChatRoom) /\ pad.head < MaxHead /\ Set(revisionRecords(p, pad, first))
        BY <2>1, <2>3 DEF pad
      <3> QED BY <1>1, <1>4, <2>2, <3>1, OnwardRevision
    <2> HIDE DEF awaits
    <2>6. task'[t].awaits = awaits /\ task'[t].pad = task[t].pad /\ task'[t].dst = task[t].dst
      <3>1. awaits \in SUBSET Keys
        BY <1>1, <2>4, KeysInside
      <3> QED BY <2>1, <3>1, Places, GotoIs DEF Loading
    <2>7. AwaitsIn(t)
      BY <1>1, <1>2, <2>4, <2>6, Constants DEF AwaitsIn
    <2> QED BY <1>1, <2>5, <2>7 DEF WritesOn, Covered
  <1> QED BY <1>3, <1>4

LEMMA AppendWrites ==
    ASSUME TakeTurns, TypeInv, HandsInv, NEW t \in Tasks, AppendEdit(t)
    PROVE  WritesOn(t)
  <1> DEFINE p == task[t].pad
             pad == mem[task[t].held]
             cs == <<task[t].n>>
             awaits == RevisionAwaits(p, pad, cs)
  <1>1. /\ task[t].pc = "run" /\ task[t].op = "append" /\ pad.head < MaxHead
        /\ Set(revisionRecords(p, pad, cs)) /\ Step(t, Goto(t, "write", awaits))
    BY DEF AppendEdit, Running, At, Change
  <1>2. /\ p \in Pads /\ pad \in PadIn(ChatRoom) /\ task[t].n \in 0 .. MaxCalls /\ ChatRoom \in Int
        /\ pad = view[PadKey(p)]
    BY <1>1, RunningPad DEF PlainOps
  <1>3. cs \in Texts
    <2>1. <<task[t].n>> \in Seq(0 .. MaxCalls)
      BY <1>2
    <2> QED BY <2>1 DEF Texts
  <1> HIDE DEF p, pad, cs
  <1>4. /\ \A q \in Pads : Onward(q)
        /\ \A k \in Keys : view'[k] # view[k] => view'[PadKey(p)] # Nothing /\ k \in RecordKeys(p, view'[PadKey(p)])
    BY <1>1, <1>2, <1>3, OnwardRevision
  <1>5. awaits \subseteq KeysOf(p)
    <2>1. RevisionAwaits(p, pad, cs) = DOMAIN revisionRecords(p, pad, cs)
          /\ DOMAIN revisionRecords(p, pad, cs) \subseteq KeysOf(p)
      <3>1. pad.head < MaxHead
        BY <1>1
      <3> HIDE DEF awaits
      <3> QED BY <1>2, <1>3, <3>1, RevisionRecordsTyped
    <2> QED BY <2>1
  <1> HIDE DEF awaits
  <1>6. task'[t].awaits = awaits /\ task'[t].pad = p
    <2>1. awaits \in SUBSET Keys
      BY <1>2, <1>5, KeysInside
    <2> QED BY <1>1, <2>1, Places, GotoIs DEF p
  <1>7. AwaitsIn(t)
    BY <1>2, <1>5, <1>6, Constants DEF AwaitsIn
  <1> QED BY <1>2, <1>4, <1>7 DEF WritesOn, Covered

LEMMA ChatWrites ==
    ASSUME TakeTurns, TypeInv, HandsInv, NEW t \in Tasks, appendChatMessage(t)
    PROVE  WritesOn(t)
  <1> DEFINE p == task[t].pad
             old == mem[task[t].held]
             pad == [old EXCEPT !.chatHead = @ + 1]
             f == [k \in {ChatKey(p, pad.chatHead), PadKey(p)} |-> IF k = PadKey(p) THEN pad ELSE task[t].n]
             key == ChatKey(p, pad.chatHead)
  <1>1. task[t].pc = "run" /\ task[t].op = "chat" /\ Set(f) /\ Step(t, Goto(t, "write", DOMAIN f))
    BY DEF appendChatMessage, Running, At, Change
  <1>2. /\ p \in Pads /\ old \in PadIn(ChatRoom) /\ ChatRoom \in Int
        /\ ChatRoom < MaxCalls /\ old = view[PadKey(p)]
    BY <1>1, RunningPad DEF PlainOps
  <1>3. /\ pad.chatHead = old.chatHead + 1 /\ pad.chatHead \in 0 .. MaxCalls /\ pad.head = old.head
        /\ pad.text = old.text /\ pad \in PadIn(ChatRoom + 1)
        /\ old.chatHead \in Int /\ old.head \in Int
    <2>1. pad = [head |-> old.head, chatHead |-> old.chatHead + 1, saved |-> old.saved, text |-> old.text]
      BY <1>2 DEF PadIn
    <2>2. old.chatHead \in -1 .. ChatRoom /\ old.head \in -1 .. MaxHead /\ old.saved \in SUBSET (0 .. MaxHead)
          /\ old.text \in Texts
      BY <1>2 DEF PadIn
    <2>3. old.chatHead + 1 \in -1 .. ChatRoom + 1 /\ old.chatHead + 1 \in 0 .. MaxCalls
      BY <1>2, <2>2, Constants
    <2> QED BY <1>2, <2>1, <2>2, <2>3, Constants DEF PadIn
  <1>4. key \in KeysOf(p) \ {PadKey(p)} /\ key[1] = "chat" /\ key[3] = pad.chatHead
    BY <1>2, <1>3, OtherKeys, KeyParts
  <1>5. DOMAIN f = {key, PadKey(p)} /\ f[PadKey(p)] = pad
    OBVIOUS
  <1>6. DOMAIN f \subseteq KeysOf(p) /\ DOMAIN f \in SUBSET Keys
    BY <1>2, <1>4, <1>5, KeysInside
  <1> HIDE DEF f, pad, key, old, p
  <1>7. pad # Nothing
    BY <1>3, PadsAreRecords
  <1>8. key \in RecordKeys(p, pad) /\ key \notin RecordKeys(p, old) /\ PadKey(p) \in RecordKeys(p, pad)
    <2>1. ChatRoom + 1 \in Int /\ ChatRoom + 1 <= MaxCalls /\ ChatRoom <= MaxCalls
      BY <1>2, Constants
    <2>2. key \in RecordKeys(p, pad) <=> key[3] <= pad.chatHead
      <3> DEFINE room == ChatRoom + 1
      <3> HIDE DEF room
      <3>1. room \in Int /\ room <= MaxCalls /\ pad \in PadIn(room)
        BY <1>3, <2>1 DEF room
      <3> QED BY <1>2, <1>4, <3>1, RecordKeysAre
    <2>3. key \in RecordKeys(p, old) <=> key[3] <= old.chatHead
      BY <1>2, <1>4, <2>1, RecordKeysAre
    <2> QED BY <1>3, <1>4, <2>2, <2>3 DEF RecordKeys
  <1>9. /\ \A q \in Pads : Onward(q)
        /\ \A k \in Keys : view'[k] # view[k] => view'[PadKey(p)] # Nothing /\ k \in RecordKeys(p, view'[PadKey(p)])
    <2>1. old.head <= pad.head /\ old.chatHead <= pad.chatHead /\ ToSet(old.text) \subseteq ToSet(pad.text)
      BY <1>3
    <2> QED BY <1>1, <1>2, <1>5, <1>6, <1>7, <1>8, <2>1, OnwardWrite
  <1>10. task'[t].awaits = DOMAIN f /\ task'[t].pad = p
    BY <1>1, <1>6, Places, GotoIs DEF p
  <1>11. AwaitsIn(t)
    BY <1>2, <1>6, <1>10, Constants DEF AwaitsIn
  <1> QED BY <1>2, <1>9, <1>11 DEF WritesOn, Covered

LEMMA SaveWrites ==
    ASSUME TakeTurns, TypeInv, HandsInv, NEW t \in Tasks, addSavedRevision(t)
    PROVE  WritesOn(t)
  <1> DEFINE p == task[t].pad
             pad == mem[task[t].held]
             new == [pad EXCEPT !.saved = @ \cup {pad.head}]
             f == [k \in {PadKey(p)} |-> new]
  <1>1. CASE pad.head \in pad.saved
    <2>1. view' = view /\ Step(t, Goto(t, "write", {}))
      BY <1>1 DEF addSavedRevision
    <2>2. task'[t].awaits = {}
      BY <2>1, Places, GotoIs DEF Loading
    <2> QED BY <2>1, <2>2, OnwardSame DEF WritesOn, Covered, AwaitsIn
  <1>2. CASE pad.head \notin pad.saved
    <2>1. task[t].pc = "run" /\ task[t].op = "save" /\ Set(f) /\ Step(t, Goto(t, "write", {PadKey(p)}))
      BY <1>2 DEF addSavedRevision, Running, At, Change
    <2>2. p \in Pads /\ pad \in PadIn(ChatRoom) /\ pad = view[PadKey(p)] /\ pad.head \in 0 .. MaxHead
          /\ ChatRoom \in Int
      BY <2>1, RunningPad DEF PlainOps
    <2>3. /\ new.head = pad.head /\ new.chatHead = pad.chatHead /\ new.text = pad.text /\ new \in PadIn(ChatRoom)
          /\ pad.chatHead \in Int
      BY <2>2, PadParts DEF PadIn
    <2>4. DOMAIN f = {PadKey(p)} /\ f[PadKey(p)] = new
      OBVIOUS
    <2>5. PadKey(p) \in KeysOf(p) /\ {PadKey(p)} \in SUBSET Keys
      BY <2>2, KeysInside
    <2> HIDE DEF f, new, pad, p
    <2>6. new # Nothing /\ PadKey(p) \in RecordKeys(p, new)
      BY <2>3, PadsAreRecords DEF RecordKeys
    <2>7. /\ \A q \in Pads : Onward(q)
          /\ \A k \in Keys : view'[k] # view[k] => view'[PadKey(p)] # Nothing /\ k \in RecordKeys(p, view'[PadKey(p)])
      <3>1. pad.head <= new.head /\ pad.chatHead <= new.chatHead /\ ToSet(pad.text) \subseteq ToSet(new.text)
        BY <2>2, <2>3
      <3> QED BY <2>1, <2>2, <2>4, <2>5, <2>6, <3>1, OnwardWrite
    <2>8. task'[t].awaits = {PadKey(p)} /\ task'[t].pad = p
      BY <2>1, <2>5, Places, GotoIs DEF p
    <2>9. AwaitsIn(t)
      BY <2>2, <2>5, <2>8, Constants DEF AwaitsIn
    <2> QED BY <2>2, <2>7, <2>9 DEF WritesOn, Covered
  <1> QED BY <1>1, <1>2

LEMMA SourceWrites ==
    ASSUME TakeTurns, TypeInv, HandsInv, NEW t \in Tasks, SaveSource(t)
    PROVE  WritesOn(t)
  <1> DEFINE p == task[t].pad
             awaits == IF task[t].op \in Copies THEN {PadKey(p)} ELSE {}
  <1>1. /\ task[t].pc = "run" /\ task[t].op \in CopyOps /\ SetOne(PadKey(p), mem[task[t].held])
        /\ Step(t, Goto(t, "clear", awaits))
    BY DEF SaveSource, At, CopyOps
  <1>2. p \in Pads /\ mem[task[t].held] = view[PadKey(p)]
    BY <1>1, CopyingPad
  <1>3. PadKey(p) \in Keys /\ PadKey(p) \in KeysOf(p) /\ awaits \in SUBSET Keys /\ awaits \subseteq {PadKey(p)}
    BY <1>2, KeysInside
  <1> HIDE DEF awaits, p
  <1>4. task'[t].awaits = awaits /\ task'[t].pad = p
    BY <1>1, <1>3, Places, GotoIs DEF p
  <1>5. \A k \in Keys : view'[k] = view[k]
    BY <1>1, <1>2, <1>3, SetOneIs DEF TypeInv
  <1>6. AwaitsIn(t)
    BY <1>2, <1>3, <1>4, Constants DEF AwaitsIn
  <1> QED BY <1>5, <1>6, OnwardSame, KeysInside DEF WritesOn, Covered

LEMMA Continued ==
    ASSUME TypeInv, NEW t \in Tasks, NEW op, NEW p, NEW q, NEW o, Continue(t, op, p, q, o)
    PROVE  /\ task'[t].pc = "run" /\ task'[t].op = op /\ task'[t].pad = p /\ task'[t].dst = q
           /\ task'[t].awaits = {} /\ task'[t].records = {}
  <1> DEFINE text == IF q = Nothing THEN <<>> ELSE mem'[o].text
             s == [Idle EXCEPT !.pc = "run", !.op = op, !.pad = p, !.dst = q, !.held = o, !.from = text]
  <1>1. task'[t] = s
    BY Places DEF Continue
  <1> HIDE DEF text
  <1>2. s.pc = "run" /\ s.op = op /\ s.pad = p /\ s.dst = q /\ s.awaits = {} /\ s.records = {}
    BY DEF Idle
  <1> QED BY <1>1, <1>2

LEMMA SnapshotWrites ==
    ASSUME TakeTurns, TypeInv, HandsInv, NEW t \in Tasks, AppendSnapshot(t)
    PROVE  WritesOn(t)
  <1> DEFINE q == task[t].dst
             cs == mem[task[t].held].text
             blank == Blank
  <1>1. /\ q \in Pads /\ cs \in Texts /\ Set(revisionRecords(q, blank, cs)) /\ view[PadKey(q)] = blank
        /\ task[t].pad \in Pads /\ task[t].held \in Nat /\ mem[task[t].held].text \in Texts
    BY SnapshotParts
  <1>2. blank \in PadIn(ChatRoom) /\ blank.head < MaxHead
    BY RoomBounded, BlankTyped, Constants DEF Blank
  <1>3. task'[t].awaits = {}
    <2>1. CASE \E m : Return(t, m, cache, kept)
      <3>1. task'[t] = Idle
        BY <2>1, Places DEF Return
      <3> QED BY <3>1 DEF Idle
    <2>2. CASE ~ \E m : Return(t, m, cache, kept)
      <3>1. /\ mem' = [mem EXCEPT ![task[t].obj] = appendRevision(mem[task[t].obj], cs)]
            /\ \/ Continue(t, "recreate", q, task[t].pad, task[t].obj)
               \/ Continue(t, "remove", task[t].pad, Nothing, task[t].held)
        BY <2>2 DEF AppendSnapshot
      <3> QED BY <3>1, Continued
    <2> QED BY <2>1, <2>2
  <1> HIDE DEF q, cs, blank
  <1>4. /\ \A p \in Pads : Onward(p)
        /\ \A k \in Keys : view'[k] # view[k] => view'[PadKey(q)] # Nothing /\ k \in RecordKeys(q, view'[PadKey(q)])
    BY <1>1, <1>2, OnwardRevision
  <1> QED BY <1>1, <1>3, <1>4 DEF WritesOn, Covered, AwaitsIn

\* A step that writes nothing, and awaits nothing.
Quiet(t) ==
    \/ Call(t) \/ getPad(t) \/ cachePad(t) \/ Open(t) \/ Written(t) \/ ReadRecords(t) \/ RecordsCopied(t)
    \/ Copied(t) \/ LoadRevisions(t) \/ Unload(t) \/ Reloaded(t)
    \/ (removePadIfForceIsTrueAndAlreadyExist(t) /\ Return(t, mem, cache, kept) /\ UNCHANGED view)

LEMMA QuietWrites ==
    ASSUME TakeTurns, TypeInv, HandsInv, NEW t \in Tasks, Quiet(t)
    PROVE  view' = view /\ task'[t].awaits = {} /\ WritesOn(t)
  <1>3. ASSUME NEW pc \in {"write", "getPad", "run", "init", "second", "records", "delete"},
               NEW s, s = Goto(t, pc, {}),
               \/ task'[t] = s \/ (\E o : task'[t] = [s EXCEPT !.obj = o]) \/ (\E q : task'[t] = [s EXCEPT !.dst = q])
               \/ (\E recs : task'[t] = [s EXCEPT !.records = recs])
               \/ (\E h, o, text : task'[t] = [s EXCEPT !.held = h, !.obj = o, !.from = text])
        PROVE  task'[t].awaits = {}
    <2>1. s \in TaskType /\ s.awaits = {}
      BY ZenonT(60), <1>3, GotoIs DEF Loading
    <2> QED BY ZenonT(60), <1>3, <2>1 DEF TaskType
  <1>4. ASSUME NEW m, NEW c, NEW keeps, Return(t, m, c, keeps)
        PROVE  task'[t].awaits = {}
    <2>1. task'[t] = Idle
      BY <1>4, Places DEF Return
    <2> QED BY <2>1 DEF Idle
  <1>5. ASSUME NEW o, task'[t] = Got(t, o) PROVE task'[t].awaits = {}
    <2> DEFINE text == IF task[t].dst = Nothing THEN <<>> ELSE mem[o].text
               run == Goto(t, "run", {})
               second == Goto(t, "second", {})
    <2> HIDE DEF text
    <2>1. task'[t] = [run EXCEPT !.held = o, !.obj = Nothing, !.from = text] \/ task'[t] = [second EXCEPT !.obj = o]
      BY <1>5 DEF Got, text
    <2> HIDE DEF run, second
    <2>2. \/ \E h, x, y : task'[t] = [run EXCEPT !.held = h, !.obj = x, !.from = y]
          \/ \E x : task'[t] = [second EXCEPT !.obj = x]
      BY <2>1
    <2> QED BY <1>3, <2>2 DEF run, second
  <1>6. view' = view
    BY DEF Quiet, Call, getPad, cachePad, Open, Written, ReadRecords, RecordsCopied, Copied, LoadRevisions,
           Unload, Reloaded, removePadIfForceIsTrueAndAlreadyExist
  <1>7. task'[t].awaits = {}
    <2>1. CASE Call(t)
      <3>1. PICK op, p, q : Step(t, [Idle EXCEPT !.pc = "getPad", !.op = op, !.pad = p, !.dst = q,
                                                 !.n = IF op \in {"append", "chat"} THEN calls + 1 ELSE 0])
        BY <2>1 DEF Call
      <3> DEFINE n == IF op \in {"append", "chat"} THEN calls + 1 ELSE 0
      <3>2. task'[t] = [Idle EXCEPT !.pc = "getPad", !.op = op, !.pad = p, !.dst = q, !.n = n]
        BY <3>1, Places
      <3> HIDE DEF n
      <3> QED BY <3>2 DEF Idle
    <2>2. CASE getPad(t)
      <3>1. \E s : (Step(t, s) /\ \E o : s = Got(t, o)) \/ (Step(t, s) /\ \E o : s = [Goto(t, "init", {}) EXCEPT !.obj = o])
        BY <2>2 DEF getPad
      <3>2. (\E o : task'[t] = Got(t, o)) \/ \E o : task'[t] = [Goto(t, "init", {}) EXCEPT !.obj = o]
        BY <3>1, Places
      <3> QED BY <1>3, <1>5, <3>2
    <2>3. CASE cachePad(t)
      BY <1>5, <2>3, Places DEF cachePad
    <2>4. CASE Open(t) \/ Written(t) \/ Reloaded(t) \/ Return(t, mem, cache, kept)
      BY <1>4, <2>4 DEF Open, Written, Reloaded
    <2>5. CASE ReadRecords(t)
      <3> DEFINE recs == {<<Renamed(k, task[t].dst), view[k]>> : k \in RecordKeys(task[t].pad, mem[task[t].held])}
      <3>1. Step(t, [Goto(t, "records", {}) EXCEPT !.records = recs])
        BY <2>5, ReadAtOnce
      <3> HIDE DEF recs
      <3>2. task'[t] = [Goto(t, "records", {}) EXCEPT !.records = recs]
        BY <3>1, Places
      <3> QED BY <1>3, <3>2
    <2>6. CASE RecordsCopied(t)
      <3>1. task'[t] = Goto(t, "getPad", {})
        BY <2>6, Places DEF RecordsCopied
      <3> QED BY <1>3, <3>1
    <2>7. CASE Copied(t)
      <3>1. CASE \E keeps : Return(t, mem, cache, keeps)
        BY <1>4, <3>1
      <3>2. CASE Continue(t, "remove", task[t].pad, Nothing, task[t].held)
        BY <3>2, Continued
      <3> QED BY <2>7, <3>1, <3>2 DEF Copied
    <2>8. CASE LoadRevisions(t)
      <3>1. CASE Step(t, Goto(t, "write", {}))
        BY <1>3, <3>1, Places
      <3>2. CASE ~Step(t, Goto(t, "write", {}))
        <4> DEFINE until == mem[task[t].held].head - KeepRevisions
                   recs == {<<RevKey(task[t].pad, r), Recreated(task[t].pad, until, r)>> : r \in 0 .. KeepRevisions}
                   s == Goto(t, "delete", {})
        <4>1. Step(t, [s EXCEPT !.n = until, !.records = recs])
          BY <2>8, <3>2 DEF LoadRevisions
        <4>2. s \in TaskType /\ s.awaits = {}
          BY GotoIs
        <4> HIDE DEF until, recs, s
        <4>3. task'[t] = [s EXCEPT !.n = until, !.records = recs]
          BY <4>1, Places
        <4> QED BY <4>2, <4>3 DEF TaskType
      <3> QED BY <3>1, <3>2
    <2>9. CASE Unload(t)
      <3>1. \E q : task'[t] = [Goto(t, "getPad", {}) EXCEPT !.dst = q]
        BY <2>9, Places DEF Unload
      <3> QED BY <1>3, <3>1
    <2> QED BY <2>1, <2>2, <2>3, <2>4, <2>5, <2>6, <2>7, <2>8, <2>9 DEF Quiet
  <1> QED BY <1>6, <1>7, OnwardSame DEF WritesOn, Covered, AwaitsIn

\* Compacting the whole history gives up what the pad has.
GivesUp(p) == forgone' = [forgone EXCEPT ![p] = kept[p]] /\ kept' = kept

\* A pad is removed, and the removal awaited.
Empties(t, p) ==
    /\ p \in Pads /\ p \in AloneOf(t) /\ task[t].awaits = {}
    /\ disk' = disk /\ (Forget(p) \/ GivesUp(p))
    /\ task'[t].awaits = IF Exists(p) THEN RecordKeys(p, view[PadKey(p)]) ELSE {}
    /\ task'[t].awaits \subseteq KeysOf(p) /\ p \in {task'[t].pad, task'[t].dst}
    /\ \A k \in Keys \ task'[t].awaits : view'[k] = view[k]

LEMMA RemoveEmpties ==
    ASSUME TakeTurns, TypeInv, HandsInv, NEW t \in Tasks, remove(t)
    PROVE  Empties(t, task[t].pad) /\ task'[t].pc = "write" /\ task'[t].op = "remove"
  <1> DEFINE p == task[t].pad
             pad == mem[task[t].held]
             f == Removed(p, pad)
             s == Goto(t, "write", DOMAIN f)
  <1>1. /\ task[t].pc = "run" /\ task[t].op = "remove" /\ task[t].awaits = {} /\ Set(f) /\ Step(t, s)
        /\ disk' = disk /\ Forget(p)
    BY DEF remove, Running, At
  <1>2. /\ p \in Pads /\ pad \in PadIn(ChatRoom) /\ pad = view[PadKey(p)] /\ ChatRoom \in Int /\ ChatRoom <= MaxCalls
    BY <1>1, RunningPad, Constants DEF PlainOps
  <1>3. DOMAIN f = RecordKeys(p, pad) /\ DOMAIN f \subseteq KeysOf(p) /\ DOMAIN f \in SUBSET Keys
    BY <1>2, RemovedTyped, KeysInside
  <1>4. s.pc = "write" /\ s.op = "remove" /\ s.pad = p /\ s.awaits = DOMAIN f
    BY <1>1, <1>3, GotoIs
  <1>5. task'[t] = s
    BY <1>1, Places
  <1>6. Exists(p)
    BY <1>2, PadsAreRecords DEF Exists
  <1>7. p \in AloneOf(t)
    BY <1>1, AloneIs
  <1> HIDE DEF f, s
  <1>8. \A k \in Keys \ DOMAIN f : view'[k] = view[k]
    BY <1>1, <1>3, SetIs DEF TypeInv
  <1> QED BY <1>1, <1>2, <1>3, <1>4, <1>5, <1>6, <1>7, <1>8 DEF Empties

LEMMA ClearEmpties ==
    ASSUME TakeTurns, TypeInv, HandsInv, NEW t \in Tasks, removePadIfForceIsTrueAndAlreadyExist(t),
           ~(Return(t, mem, cache, kept) /\ UNCHANGED view)
    PROVE  /\ Empties(t, task[t].dst) /\ task[t].op \in CopyOps
           /\ task'[t].op = task[t].op /\ task'[t].dst = task[t].dst /\ task'[t].held = task[t].held
           /\ task'[t].records = task[t].records
           /\ task'[t].pc = IF task[t].op \in Copies THEN "read" ELSE "getPad"
  <1> DEFINE q == task[t].dst
             f == Cleared(q)
             pc == IF task[t].op \in Copies THEN "read" ELSE "getPad"
             s == Goto(t, pc, DOMAIN f)
  <1>1. /\ task[t].pc = "clear" /\ task[t].awaits = {} /\ Set(f) /\ Step(t, s)
        /\ disk' = disk /\ (Forget(q) \/ GivesUp(q))
    BY DEF removePadIfForceIsTrueAndAlreadyExist, At, GivesUp
  <1>2. task[t].op \in CopyOps
    BY <1>1 DEF HandsInv, Shape
  <1>3. q \in Pads /\ q \in AloneOf(t) /\ ~Rewritten(q) /\ ChatRoom \in Int /\ ChatRoom <= MaxCalls
    BY <1>1, <1>2, CopyingPad, RoomBounded, Constants
  <1> HIDE DEF q
  <1>4. DOMAIN f = (IF Exists(q) THEN RecordKeys(q, view[PadKey(q)]) ELSE {}) /\ DOMAIN f \subseteq KeysOf(q)
    <2>1. CASE Exists(q)
      <3>1. Current(q) = view[PadKey(q)] /\ Current(q) \in PadIn(ChatRoom)
        BY <1>3, <2>1, CurrentTyped
      <3> DEFINE pad == Current(q)
      <3>2. f = Removed(q, pad)
        BY <2>1 DEF Cleared
      <3> HIDE DEF pad, f
      <3>3. pad = view[PadKey(q)] /\ pad \in PadIn(ChatRoom)
        BY <3>1 DEF pad
      <3>4. DOMAIN Removed(q, pad) = RecordKeys(q, pad) /\ RecordKeys(q, pad) \subseteq KeysOf(q)
        BY <1>3, <3>3, RemovedTyped
      <3> QED BY <2>1, <3>2, <3>3, <3>4
    <2>2. CASE ~Exists(q)
      <3>1. f = <<>> /\ DOMAIN <<>> = {}
        BY <2>2 DEF Cleared
      <3> QED BY <2>2, <3>1
    <2> QED BY <2>1, <2>2
  <1>5. DOMAIN f \in SUBSET Keys
    BY <1>3, <1>4, KeysInside
  <1>6. /\ s.pc = pc /\ s.op = task[t].op /\ s.dst = task[t].dst /\ s.held = task[t].held
        /\ s.records = task[t].records /\ s.awaits = DOMAIN f
    BY <1>5, GotoIs DEF Loading
  <1>7. task'[t] = s
    BY <1>1, Places
  <1> HIDE DEF f, s, pc
  <1>8. \A k \in Keys \ DOMAIN f : view'[k] = view[k]
    BY <1>1, <1>5, SetIs DEF TypeInv
  <1>9. Empties(t, q)
    BY <1>1, <1>3, <1>4, <1>6, <1>7, <1>8 DEF Empties, q
  <1> QED BY <1>2, <1>6, <1>7, <1>9 DEF q, pc

LEMMA CopyRecordParts ==
    ASSUME TakeTurns, TypeInv, HandsInv, NEW t \in Tasks, copyRecord(t)
    PROVE  /\ task[t].pc = "records" /\ task[t].op \in Copies /\ task[t].dst \in Pads /\ task[t].dst \in AloneOf(t)
           /\ disk' = disk /\ UNCHANGED <<kept, forgone>>
           /\ task'[t].pc = "records" /\ task'[t].op = task[t].op /\ task'[t].dst = task[t].dst
           /\ task'[t].pad = task[t].pad
           /\ \E key \in KeysOf(task[t].dst) :
                /\ task'[t].awaits = task[t].awaits \cup {key}
                /\ \A k \in Keys \ {key} : view'[k] = view[k]
  <1>1. PICK r \in task[t].records :
          /\ SetOne(r[1], r[2])
          /\ Step(t, [task[t] EXCEPT !.records = @ \ {r}, !.awaits = @ \cup {r[1]}])
    BY DEF copyRecord
  <1> DEFINE key == r[1]
             s == [task[t] EXCEPT !.records = @ \ {r}, !.awaits = @ \cup {r[1]}]
  <1>2. task[t].pc = "records" /\ disk' = disk /\ UNCHANGED <<kept, forgone>>
    BY ReadAtOnce DEF copyRecord
  <1>3. task[t].op \in Copies
    BY <1>2 DEF HandsInv, Shape
  <1>4. task[t].dst \in Pads /\ task[t].dst \in AloneOf(t) /\ InHand(t)
    BY <1>2, <1>3, CopyingPad DEF CopyOps
  <1>5. key \in KeysOf(task[t].dst) /\ key \in Keys
    BY <1>2, <1>4, KeysInside DEF InHand
  <1>6. /\ s.pc = task[t].pc /\ s.op = task[t].op /\ s.pad = task[t].pad /\ s.dst = task[t].dst
        /\ s.awaits = task[t].awaits \cup {key}
    BY TaskFields DEF TaskType
  <1>7. task'[t] = s
    BY <1>1, Places
  <1> HIDE DEF key, s
  <1>8. \A k \in Keys \ {key} : view'[k] = view[k]
    <2>1. SetOne(key, r[2])
      BY <1>1 DEF key
    <2> QED BY <1>5, <2>1, SetOneIs DEF TypeInv
  <1> QED BY <1>2, <1>3, <1>4, <1>5, <1>6, <1>7, <1>8

-----------------------------------------------------------------------------
(* Nobody awaits the records of another's pad. *)

\* A task goes on when nothing is awaited, but for a copy, which writes all its records at once.
LEMMA NotWaiting ==
    ASSUME TakeTurns, TypeInv, HandsInv, NEW t \in Tasks, TaskStep(t)
    PROVE  disk' = disk /\ (copyRecord(t) \/ task[t].awaits = {})
  <1>1. Idle.awaits = {}
    BY DEF Idle
  <1>2. CASE Call(t)
    <2>1. task[t] = Idle /\ disk' = disk
      BY <1>2 DEF Call, Busy, HandsInv, Shape
    <2> QED BY <1>1, <2>1
  <1>3. CASE getPad(t) \/ init(t) \/ cachePad(t) \/ Open(t) \/ AppendEdit(t) \/ appendChatMessage(t)
               \/ addSavedRevision(t) \/ remove(t) \/ Written(t)
    BY SMTT(30), <1>3 DEF getPad, init, cachePad, Open, AppendEdit, appendChatMessage, addSavedRevision, remove, Written,
                Running, At, Change
  <1>4. CASE SaveSource(t) \/ removePadIfForceIsTrueAndAlreadyExist(t) \/ ReadRecords(t) \/ copyRecord(t)
               \/ RecordsCopied(t) \/ Copied(t) \/ AppendSnapshot(t)
    BY <1>4 DEF SaveSource, removePadIfForceIsTrueAndAlreadyExist, ReadRecords, copyRecord, RecordsCopied, Copied,
                AppendSnapshot, At
  <1>5. CASE LoadRevisions(t) \/ DeleteRevisions(t) \/ RewriteRecord(t) \/ RewriteRevisions(t) \/ Unload(t)
               \/ Reloaded(t)
    BY <1>5 DEF LoadRevisions, DeleteRevisions, RewriteRecord, RewriteRevisions, Unload, Reloaded, Running, At
  <1> QED BY <1>2, <1>3, <1>4, <1>5, ReadAtOnce DEF TaskStep

\* Steps that write on, that remove a pad, that copy a record, and that compact.
WritingOn(t) ==
    Quiet(t) \/ init(t) \/ AppendEdit(t) \/ appendChatMessage(t) \/ addSavedRevision(t) \/ SaveSource(t)
        \/ AppendSnapshot(t)
Emptying(t, p) ==
    \/ remove(t) /\ p = task[t].pad
    \/ /\ removePadIfForceIsTrueAndAlreadyExist(t) /\ ~(Return(t, mem, cache, kept) /\ UNCHANGED view)
       /\ p = task[t].dst
Rewriting(t) == DeleteRevisions(t) \/ RewriteRecord(t) \/ RewriteRevisions(t)

LEMMA StepKinds ==
    ASSUME TakeTurns, TypeInv, HandsInv, NEW t \in Tasks, TaskStep(t)
    PROVE  /\ WritingOn(t) \/ (\E p : Emptying(t, p)) \/ copyRecord(t) \/ Rewriting(t)
           /\ WritingOn(t) => WritesOn(t)
           /\ \A p : Emptying(t, p) => Empties(t, p)
  <1>1. WritingOn(t) => WritesOn(t)
    BY QuietWrites, InitWrites, AppendWrites, ChatWrites, SaveWrites, SourceWrites, SnapshotWrites DEF WritingOn
  <1>2. ASSUME NEW p, Emptying(t, p) PROVE Empties(t, p)
    BY <1>2, RemoveEmpties, ClearEmpties DEF Emptying
  <1>3. WritingOn(t) \/ (\E p : Emptying(t, p)) \/ copyRecord(t) \/ Rewriting(t)
    BY ReadAtOnce DEF TaskStep, WritingOn, Quiet, Emptying, Rewriting
  <1> QED BY <1>1, <1>2, <1>3

\* A compaction awaits what it writes.
LEMMA Rewrites ==
    ASSUME TakeTurns, TypeInv, HandsInv, NEW t \in Tasks, Rewriting(t)
    PROVE  LET p == task[t].pad IN
           /\ task[t].pc \in {"delete", "head", "revs"} /\ task[t].awaits = {} /\ UNCHANGED <<disk, kept, forgone>>
           /\ p \in Pads /\ p \in AloneOf(t) /\ p \in Uses(t) /\ task[t].op = "compact"
           /\ task'[t].pc \in {"head", "revs", "unload"} /\ task'[t].pad = p /\ task'[t].op = "compact"
           /\ task'[t].awaits \subseteq KeysOf(p)
           /\ \A k \in Keys \ task'[t].awaits : view'[k] = view[k]
           /\ view[PadKey(p)] # Nothing /\ view'[PadKey(p)] # Nothing
           /\ PadKey(p) \in task'[t].awaits => RewriteRecord(t)
  <1> DEFINE p == task[t].pad
  <1>1. task[t].pc \in {"delete", "head", "revs"}
    BY DEF Rewriting, DeleteRevisions, RewriteRecord, RewriteRevisions, At
  <1>2. p \in Pads /\ p \in AloneOf(t) /\ p \in Uses(t) /\ task[t].op = "compact" /\ Busy(t) /\ InHand(t)
        /\ (task[t].pc \in {"delete", "head"} => mem[task[t].held] = view[PadKey(p)] /\ mem[task[t].held] \in PadIn(ChatRoom))
    BY <1>1, CompactingPad
  <1>3. PadKey(p) \in KeysOf(p) /\ PadKey(p) \in Keys
    BY <1>2, KeysInside
  <1>4. view[PadKey(p)] # Nothing
    <2>1. CASE task[t].pc \in {"delete", "head"}
      BY <1>2, <2>1, PadsAreRecords
    <2>2. CASE task[t].pc = "revs"
      BY <1>2, <2>2 DEF InHand
    <2> QED BY <1>1, <2>1, <2>2
  <1>5. ASSUME NEW pc \in {"head", "revs"}, NEW awaits, awaits \subseteq KeysOf(p), task'[t] = Goto(t, pc, awaits)
        PROVE  task'[t].awaits = awaits /\ task'[t].op = task[t].op
    <2>1. awaits \in SUBSET Keys
      BY <1>2, <1>5, KeysInside
    <2> QED BY <1>5, <2>1, GotoIs
  <1>6. CASE DeleteRevisions(t)
    <2> DEFINE keys == RevKeys(p, task[t].n + KeepRevisions)
    <2>1. /\ task[t].awaits = {} /\ UNCHANGED <<disk, kept, forgone>> /\ task'[t] = Goto(t, "head", keys)
          /\ task'[t].pc = "head" /\ task'[t].pad = p /\ keys \subseteq KeysOf(p) \ {PadKey(p)}
          /\ \A k \in Keys \ keys : view'[k] = view[k]
      BY <1>6, DeleteParts
    <2> HIDE DEF keys
    <2>2. task'[t].awaits = keys /\ task'[t].op = task[t].op
      BY <1>5, <2>1
    <2> QED BY <1>1, <1>2, <1>3, <1>4, <2>1, <2>2
  <1>7. CASE RewriteRecord(t)
    <2> DEFINE keys == {PadKey(p)}
    <2>1. /\ task[t].awaits = {} /\ UNCHANGED <<disk, kept, forgone>> /\ task'[t] = Goto(t, "revs", keys)
          /\ task'[t].pc = "revs" /\ task'[t].pad = p
          /\ \A k \in Keys \ keys : view'[k] = view[k]
          /\ view'[PadKey(p)] \in PadIn(ChatRoom)
      BY <1>7, RewriteRecordParts
    <2>2. keys \subseteq KeysOf(p) /\ view'[PadKey(p)] # Nothing
      BY <1>3, <2>1, PadsAreRecords
    <2> HIDE DEF keys
    <2>3. task'[t].awaits = keys /\ task'[t].op = task[t].op
      BY <1>5, <2>1, <2>2
    <2> QED BY <1>1, <1>2, <1>4, <1>7, <2>1, <2>2, <2>3
  <1>8. CASE RewriteRevisions(t)
    <2>1. /\ task[t].awaits = {} /\ UNCHANGED <<disk, kept, forgone>>
          /\ task'[t].pc = "unload" /\ task'[t].pad = p /\ task'[t].awaits \subseteq KeysOf(p) \ {PadKey(p)}
          /\ \A k \in Keys \ task'[t].awaits : view'[k] = view[k]
      BY <1>8, RewriteRevisionsParts
    <2>2. task'[t].op = "compact"
      <3> DEFINE g == Goto(t, "unload", {r[1] : r \in task[t].records})
      <3>1. task'[t] = [g EXCEPT !.records = {}]
        BY <1>8, Places DEF RewriteRevisions
      <3>2. [g EXCEPT !.records = {}].op = g.op
        BY TaskFields DEF Goto, TaskType
      <3>3. g.op = task[t].op
        BY TaskFields DEF Goto, TaskType
      <3> QED BY <1>2, <3>1, <3>2, <3>3
    <2> QED BY <1>1, <1>2, <1>3, <1>4, <2>1, <2>2
  <1> QED BY <1>6, <1>7, <1>8 DEF Rewriting

LEMMA StepAwaitsOwn ==
    ASSUME TakeTurns, TypeInv, HandsInv, NEW t \in Tasks, TaskStep(t), AwaitsOwn
    PROVE  AwaitsOwn'
  <1>1. Footprint(t)
    BY TaskSteps
  <1>2. AwaitsIn(t)
    <2>1. CASE WritingOn(t)
      BY <2>1, StepKinds DEF WritesOn
    <2>2. ASSUME NEW p, Emptying(t, p) PROVE AwaitsIn(t)
      <3>1. Empties(t, p)
        BY <2>2, StepKinds
      <3> QED BY <3>1, Constants DEF Empties, AwaitsIn
    <2>3. CASE copyRecord(t)
      <3>1. /\ task[t].dst \in Pads /\ task'[t].dst = task[t].dst /\ task'[t].pad = task[t].pad
            /\ \E key \in KeysOf(task[t].dst) : task'[t].awaits = task[t].awaits \cup {key}
        BY <2>3, CopyRecordParts
      <3> QED BY <3>1, Constants DEF AwaitsIn, AwaitsOwn, Uses
    <2>4. CASE Rewriting(t)
      <3>1. task[t].pad \in Pads /\ task'[t].pad = task[t].pad /\ task'[t].awaits \subseteq KeysOf(task[t].pad)
        BY <2>4, Rewrites
      <3> QED BY <3>1, Constants DEF AwaitsIn
    <2> QED BY <2>1, <2>2, <2>3, <2>4, StepKinds
  <1>3. ASSUME NEW u \in Tasks, NEW k \in task'[u].awaits
        PROVE  \E p \in {task'[u].pad, task'[u].dst} \ {Nothing} : k \in KeysOf(p)
    <2>1. CASE u = t
      BY <1>2, <1>3, <2>1 DEF AwaitsIn
    <2>2. CASE u # t
      BY <1>1, <1>3, <2>2 DEF Footprint, AwaitsOwn, Uses
    <2> QED BY <2>1, <2>2
  <1> QED BY <1>3 DEF AwaitsOwn, Uses

-----------------------------------------------------------------------------
(* Nothing is forgotten. *)

\* The records of a stored pad are under its keys.
LEMMA StoredKeys ==
    ASSUME TypeInv, NEW p \in Pads, Exists(p)
    PROVE  /\ view[PadKey(p)] \in PadIn(ChatRoom) /\ ChatRoom \in Int /\ ChatRoom <= MaxCalls
           /\ RecordKeys(p, view[PadKey(p)]) \subseteq KeysOf(p)
  <1>1. view[PadKey(p)] \in PadIn(ChatRoom) /\ ChatRoom \in Int /\ ChatRoom <= MaxCalls
    BY RoomBounded, StoredHead, Constants DEF TypeInv, Exists
  <1> QED BY <1>1, RemovedTyped

LEMMA StepForgets ==
    ASSUME TakeTurns, TypeInv, HandsInv, NEW t \in Tasks, TaskStep(t), NothingForgotten, CopyAwaited, DeletedAwaited
    PROVE  NothingForgotten'
  <1> SUFFICES ASSUME NEW k \in Keys, view'[k] # disk'[k]
               PROVE  \/ \E u \in Tasks : k \in task'[u].awaits
                      \/ \E p \in Pads : view'[PadKey(p)] # Nothing /\ k \in RecordKeys(p, view'[PadKey(p)])
    BY DEF NothingForgotten, Exists
  <1>1. TypeInv' /\ Footprint(t) /\ disk' = disk /\ (copyRecord(t) \/ task[t].awaits = {})
    BY TaskSteps, NotWaiting
  <1>2. view'[k] = view[k] =>
          \/ \E u \in Tasks : k \in task[u].awaits
          \/ \E p \in Pads : Exists(p) /\ k \in RecordKeys(p, view[PadKey(p)])
    BY <1>1 DEF NothingForgotten
  <1>3. (\E u \in Tasks \ {t} : k \in task[u].awaits) => \E u \in Tasks : k \in task'[u].awaits
    BY <1>1 DEF Footprint
  <1>4. CASE copyRecord(t)
    <2>1. PICK key \in KeysOf(task[t].dst) :
            task'[t].awaits = task[t].awaits \cup {key} /\ \A j \in Keys \ {key} : view'[j] = view[j]
      BY <1>4, CopyRecordParts
    <2>2. task[t].dst \in Pads /\ Replacing(task[t])
      BY <1>4, CopyRecordParts DEF Replacing
    <2>3. CASE k = key
      BY <2>1, <2>3
    <2>4. CASE k # key /\ \E u \in Tasks : k \in task[u].awaits
      BY <1>3, <2>1, <2>4
    <2>5. CASE k # key /\ \E p \in Pads : Exists(p) /\ k \in RecordKeys(p, view[PadKey(p)])
      <3>1. PICK p \in Pads : Exists(p) /\ k \in RecordKeys(p, view[PadKey(p)])
        BY <2>5
      <3>2. CASE p = task[t].dst
        <4>1. k \in KeysOf(task[t].dst)
          BY <3>1, <3>2, StoredKeys
        <4>2. view'[k] = view[k]
          BY <2>1, <2>5
        <4>3. k \in task[t].awaits
          BY <1>1, <2>2, <4>1, <4>2 DEF CopyAwaited
        <4> QED BY <2>1, <4>3
      <3>3. CASE p # task[t].dst
        <4>1. PadKey(p) \in Keys /\ PadKey(p) # key
          BY <2>1, <2>2, <3>3, KeysInside
        <4> QED BY <2>1, <3>1, <4>1 DEF Exists
      <3> QED BY <3>2, <3>3
    <2> QED BY <1>2, <2>1, <2>3, <2>4, <2>5
  <1>5. ASSUME task[t].awaits = {}, view'[k] = view[k]
        PROVE  \/ \E u \in Tasks : k \in task'[u].awaits
               \/ \E p \in Pads : Exists(p) /\ k \in RecordKeys(p, view[PadKey(p)])
    BY <1>2, <1>3, <1>5
  <1>6. CASE WritingOn(t) /\ task[t].awaits = {}
    <2>1. WritesOn(t)
      BY <1>6, StepKinds
    <2>2. CASE view'[k] # view[k]
      BY <2>1, <2>2 DEF WritesOn, Covered
    <2>3. CASE view'[k] = view[k]
      <3>1. ASSUME NEW p \in Pads, Exists(p), k \in RecordKeys(p, view[PadKey(p)])
            PROVE  view'[PadKey(p)] # Nothing /\ k \in RecordKeys(p, view'[PadKey(p)])
        BY <1>1, <2>1, <3>1, OnwardKeys DEF WritesOn, Exists
      <3> QED BY <1>5, <1>6, <2>3, <3>1
    <2> QED BY <2>2, <2>3
  <1>7. ASSUME NEW p, Emptying(t, p), task[t].awaits = {}
        PROVE  \/ \E u \in Tasks : k \in task'[u].awaits
               \/ \E q \in Pads : view'[PadKey(q)] # Nothing /\ k \in RecordKeys(q, view'[PadKey(q)])
    <2>1. Empties(t, p)
      BY <1>7, StepKinds
    <2>2. CASE k \in task'[t].awaits
      BY <2>2
    <2>3. CASE k \notin task'[t].awaits
      <3>1. view'[k] = view[k]
        BY <2>1, <2>3 DEF Empties
      <3>2. ASSUME NEW q \in Pads, Exists(q), k \in RecordKeys(q, view[PadKey(q)])
            PROVE  view'[PadKey(q)] # Nothing /\ k \in RecordKeys(q, view'[PadKey(q)])
        <4>1. q # p
          BY <2>1, <2>3, <3>2 DEF Empties
        <4>2. PadKey(q) \in Keys \ task'[t].awaits
          BY <2>1, <4>1, KeysInside DEF Empties
        <4> QED BY <2>1, <3>2, <4>2 DEF Empties, Exists
      <3> QED BY <1>5, <1>7, <3>1, <3>2
    <2> QED BY <2>2, <2>3
  <1>8. CASE Rewriting(t)
    <2> DEFINE p == task[t].pad
    <2>1. /\ p \in Pads /\ task[t].awaits = {} /\ task'[t].awaits \subseteq KeysOf(p)
          /\ \A j \in Keys \ task'[t].awaits : view'[j] = view[j]
          /\ view[PadKey(p)] # Nothing /\ view'[PadKey(p)] # Nothing
      BY <1>8, Rewrites
    <2>2. PadKey(p) \in Keys
      BY <2>1, KeysInside
    <2>3. CASE k \in task'[t].awaits
      BY <2>3
    <2>4. CASE k \notin task'[t].awaits
      <3>1. view'[k] = view[k]
        BY <2>1, <2>4
      <3>2. ASSUME NEW q \in Pads, Exists(q), k \in RecordKeys(q, view[PadKey(q)])
            PROVE  view'[PadKey(q)] # Nothing /\ k \in RecordKeys(q, view'[PadKey(q)])
        <4>1. CASE PadKey(q) \notin task'[t].awaits
          <5>1. view'[PadKey(q)] = view[PadKey(q)]
            BY <2>1, <3>2, <4>1, KeysInside
          <5> QED BY <3>2, <5>1 DEF Exists
        <4>2. CASE PadKey(q) \in task'[t].awaits
          <5>1. q = p
            BY <2>1, <3>2, <4>2, KeysInside
          <5>2. RewriteRecord(t)
            <6>1. PadKey(p) \in task'[t].awaits
              BY <4>2, <5>1
            <6> QED BY <1>8, <6>1, Rewrites
          <5>3. task[t].pc = "head" /\ view'[PadKey(p)] = Shortened(view[PadKey(p)], task[t].n)
            BY <5>2, RewriteRecordParts
          <5>4. /\ task[t].n \in Nat /\ KeepRevisions <= MaxHead /\ view[PadKey(p)].head = task[t].n + KeepRevisions
            BY <5>3, CompactingPad, TaskFields DEF InHand
          <5>5. view[PadKey(p)] \in PadIn(ChatRoom) /\ ChatRoom \in Int /\ ChatRoom <= MaxCalls
                /\ k \in KeysOf(p)
            BY <3>2, <5>1, StoredKeys
          <5> DEFINE old == view[PadKey(p)]
                     new == view'[PadKey(p)]
          <5>6. new.chatHead = old.chatHead /\ new.head = KeepRevisions /\ new \in PadIn(ChatRoom)
            <6>1. new = [head |-> KeepRevisions, chatHead |-> old.chatHead,
                         saved |-> Renumbered(old.saved, task[t].n), text |-> old.text]
              BY <5>3, <5>4, <5>5, ShortenedIs
            <6> QED BY <5>3, <5>4, <5>5, <6>1, ShortenedIs
          <5>7. k # PadKey(p)
            BY <2>4, <4>2, <5>1
          <5>8. k \notin RevKeys(p, old.head)
            BY <1>1, <2>1, <3>1, <5>3, <5>4 DEF DeletedAwaited
          <5>9. k \in ChatKeys(p, old.chatHead)
            BY <3>2, <5>1, <5>7, <5>8 DEF RecordKeys
          <5> QED BY <2>1, <5>1, <5>6, <5>9 DEF RecordKeys
        <4> QED BY <4>1, <4>2
      <3> QED BY <1>5, <2>1, <3>1, <3>2
    <2> QED BY <2>3, <2>4
  <1> QED BY <1>1, <1>4, <1>6, <1>7, <1>8, StepKinds

-----------------------------------------------------------------------------
(* Where steps go to. *)

LEMMA Arrivals ==
    ASSUME TakeTurns, TypeInv, HandsInv, NEW t \in Tasks, TaskStep(t)
    PROVE  /\ task'[t].pc = "delete" => LoadRevisions(t)
           /\ task'[t].pc = "head" => DeleteRevisions(t)
           /\ task'[t].pc = "revs" => RewriteRecord(t)
           /\ task'[t].pc = "unload" => RewriteRevisions(t)
           /\ task'[t].pc = "write" /\ task'[t].op \in {"append", "chat"} => AppendEdit(t) \/ appendChatMessage(t)
           /\ Replacing(task'[t]) =>
                \/ Replacing(task[t]) /\ task'[t].dst = task[t].dst
                \/ /\ removePadIfForceIsTrueAndAlreadyExist(t) /\ ~(Return(t, mem, cache, kept) /\ UNCHANGED view)
                   /\ task[t].op \in Copies /\ task'[t].dst = task[t].dst
  <1> DEFINE s == task[t]
             new == task'[t]
             Fine == /\ new.pc \notin {"delete", "head", "revs", "unload"}
                     /\ new.pc = "write" => new.op \notin {"append", "chat"}
                     /\ Replacing(new) => Replacing(s) /\ new.dst = s.dst
  <1>1. Shape(s) /\ s \in TaskType
    BY TaskFields DEF HandsInv
  <1>2. ASSUME new.pc \in {"idle", "run", "clear"} PROVE Fine
    BY <1>2 DEF Replacing, Loading
  <1>3. ASSUME NEW m, NEW c, NEW keeps, Return(t, m, c, keeps) PROVE Fine
    <2>1. new.pc = "idle"
      BY <1>3, Places
    <2> QED BY <1>2, <2>1
  <1>4. ASSUME NEW pc, NEW awaits, new = Goto(t, pc, awaits)
        PROVE  new.pc = pc /\ new.op = s.op /\ new.dst = s.dst /\ new.held = s.held
    BY <1>4, TaskFields DEF Goto, TaskType
  <1>5. ASSUME NEW pc, NEW awaits, NEW o, new = [Goto(t, pc, awaits) EXCEPT !.obj = o]
        PROVE  new.pc = pc /\ new.op = s.op /\ new.dst = s.dst /\ new.held = s.held
    BY <1>5, TaskFields DEF Goto, TaskType
  <1>6. ASSUME NEW pc, NEW awaits, NEW o, new = [Goto(t, pc, awaits) EXCEPT !.records = o]
        PROVE  new.pc = pc /\ new.op = s.op /\ new.dst = s.dst /\ new.held = s.held
    BY <1>6, TaskFields DEF Goto, TaskType
  <1>7. ASSUME s.pc \in Loading, NEW o, new = Got(t, o) PROVE Fine
    <2>1. CASE s.held = Nothing
      <3>1. new.pc = "run"
        BY <1>7, <2>1, GotIs
      <3> QED BY <1>2, <3>1
    <2>2. CASE s.held # Nothing
      <3>1. new.pc = "second" /\ new.op = s.op /\ new.dst = s.dst
        BY <1>7, <2>2, GotIs
      <3> QED BY <1>7, <2>2, <3>1 DEF Replacing, Loading
    <2> QED BY <2>1, <2>2
  <1>8. ASSUME s.pc \in Loading, new.pc \in {"init", "padLoad"}, new.op = s.op, new.dst = s.dst, new.held = s.held
        PROVE  Fine
    BY <1>8 DEF Replacing, Loading
  <1>9. CASE Call(t)
    <2>1. PICK op \in Ops, p \in Pads, q \in Pads \cup {Nothing} :
            Step(t, [Idle EXCEPT !.pc = "getPad", !.op = op, !.pad = p, !.dst = q,
                                 !.n = IF op \in {"append", "chat"} THEN calls + 1 ELSE 0])
      BY <1>9 DEF Call
    <2> DEFINE n == IF op \in {"append", "chat"} THEN calls + 1 ELSE 0
               c == [Idle EXCEPT !.pc = "getPad", !.op = op, !.pad = p, !.dst = q, !.n = n]
    <2>2. new = c
      BY <2>1, Places
    <2> HIDE DEF n
    <2>3. c.held = Nothing /\ c.pc = "getPad"
      BY DEF Idle
    <2> QED BY <2>2, <2>3 DEF Replacing
  <1>10. CASE getPad(t)
    <2>1. s.pc \in Loading
      BY <1>10 DEF getPad, At, Loading
    <2>2. (Step(t, Got(t, cache[Target(t)]))) \/ Step(t, [Goto(t, "init", {}) EXCEPT !.obj = Fresh])
      BY <1>10 DEF getPad
    <2>3. (\E o : new = Got(t, o)) \/ (\E o : new = [Goto(t, "init", {}) EXCEPT !.obj = o])
      BY <2>2, Places
    <2>4. ASSUME NEW o, new = [Goto(t, "init", {}) EXCEPT !.obj = o] PROVE Fine
      <3>1. new.pc = "init" /\ new.op = s.op /\ new.dst = s.dst /\ new.held = s.held
        BY <1>5, <2>4
      <3> QED BY <1>8, <2>1, <3>1
    <2>5. Fine
      BY <1>7, <2>1, <2>3, <2>4
    <2> QED BY <2>5
  <1>11. CASE init(t)
    <2>1. s.pc \in Loading /\ \E awaits : Step(t, Goto(t, "padLoad", awaits))
      BY <1>11 DEF init, At, Loading
    <2>2. PICK awaits : new = Goto(t, "padLoad", awaits)
      BY <2>1, Places
    <2>3. new.pc = "padLoad" /\ new.op = s.op /\ new.dst = s.dst /\ new.held = s.held
      BY <1>4, <2>2
    <2>4. Fine
      BY <1>8, <2>1, <2>3
    <2> QED BY <2>4
  <1>12. CASE cachePad(t)
    <2>1. s.pc \in Loading /\ new = Got(t, s.obj)
      BY <1>12, Places DEF cachePad, At, Loading
    <2>2. Fine
      BY <1>7, <2>1
    <2> QED BY <2>2
  <1>13. CASE Open(t) \/ Written(t) \/ Reloaded(t)
    <2>1. Fine
      BY <1>3, <1>13 DEF Open, Written, Reloaded
    <2> QED BY <2>1
  <1>14. CASE AppendEdit(t) \/ appendChatMessage(t) \/ addSavedRevision(t) \/ remove(t)
    <2>1. \E awaits : Step(t, Goto(t, "write", awaits))
      BY <1>14 DEF AppendEdit, appendChatMessage, addSavedRevision, remove, Change
    <2>2. PICK awaits : new = Goto(t, "write", awaits)
      BY <2>1, Places
    <2>3. new.pc = "write" /\ new.op = s.op
      BY <1>4, <2>2
    <2>4. new.op \in {"append", "chat"} => AppendEdit(t) \/ appendChatMessage(t)
      BY <1>14, <2>3 DEF addSavedRevision, remove, Running
    <2>5. ~Replacing(new)
      BY <2>3 DEF Replacing, Loading
    <2> QED BY <2>3, <2>4, <2>5
  <1>15. CASE SaveSource(t)
    <2>1. \E awaits : Step(t, Goto(t, "clear", awaits))
      BY <1>15 DEF SaveSource
    <2>2. new.pc = "clear"
      BY <2>1, Places
    <2>3. Fine
      BY <1>2, <2>2
    <2> QED BY <2>3
  <1>16. CASE removePadIfForceIsTrueAndAlreadyExist(t)
    <2>1. CASE Return(t, mem, cache, kept) /\ UNCHANGED view
      <3>1. Fine
        BY <1>3, <2>1
      <3> QED BY <3>1
    <2>2. CASE ~(Return(t, mem, cache, kept) /\ UNCHANGED view)
      <3>1. new.op = s.op /\ new.dst = s.dst /\ new.pc = IF s.op \in Copies THEN "read" ELSE "getPad"
        BY <1>16, <2>2, ClearEmpties
      <3>2. Replacing(new) => s.op \in Copies
        BY <3>1 DEF Replacing
      <3> QED BY <1>16, <2>2, <3>1, <3>2
    <2> QED BY <2>1, <2>2
  <1>17. CASE ReadRecords(t) \/ RecordsCopied(t)
    <2>1. s.pc \in {"read", "records"}
      BY <1>17 DEF ReadRecords, RecordsCopied, At
    <2>2. Replacing(s)
      BY <1>1, <2>1 DEF Replacing, Shape
    <2>3. \/ \E recs : Step(t, [Goto(t, "records", {}) EXCEPT !.records = recs])
          \/ Step(t, Goto(t, "getPad", {}))
      BY <1>17, ReadAtOnce DEF RecordsCopied
    <2>4. (\E recs : new = [Goto(t, "records", {}) EXCEPT !.records = recs]) \/ new = Goto(t, "getPad", {})
      BY <2>3, Places
    <2>5. new.pc \in {"records", "getPad"} /\ new.dst = s.dst
      <3>1. CASE new = Goto(t, "getPad", {})
        BY <1>4, <3>1
      <3>2. CASE \E recs : new = [Goto(t, "records", {}) EXCEPT !.records = recs]
        <4>1. PICK recs : new = [Goto(t, "records", {}) EXCEPT !.records = recs]
          BY <3>2
        <4>2. new.pc = "records" /\ new.dst = s.dst
          BY <1>6, <4>1
        <4> QED BY <4>2
      <3> QED BY <2>4, <3>1, <3>2
    <2> QED BY <2>2, <2>5
  <1>18. CASE copyRecord(t)
    <2>1. s.pc = "records" /\ s.op \in Copies /\ new.pc = "records" /\ new.dst = s.dst
      BY <1>18, CopyRecordParts
    <2> QED BY <2>1 DEF Replacing
  <1>19. CASE Copied(t) \/ AppendSnapshot(t)
    <2>1. CASE \E m, keeps : Return(t, m, cache, keeps)
      <3>1. Fine
        BY <1>3, <2>1
      <3> QED BY <3>1
    <2>2. CASE ~ \E m, keeps : Return(t, m, cache, keeps)
      <3>1. \E op, p, q, o : Continue(t, op, p, q, o)
        BY <1>19, <2>2 DEF Copied, AppendSnapshot
      <3>2. new.pc = "run"
        BY <3>1, Continued
      <3>3. Fine
        BY <1>2, <3>2
      <3> QED BY <3>3
    <2> QED BY <2>1, <2>2
  <1>20. CASE LoadRevisions(t)
    <2>1. s.op = "compact"
      BY <1>20 DEF LoadRevisions, Running
    <2>2. CASE Step(t, Goto(t, "write", {}))
      <3>1. new.pc = "write" /\ new.op = "compact"
        BY <1>4, <2>1, <2>2, Places
      <3> QED BY <3>1 DEF Replacing, Copies
    <2>3. CASE ~Step(t, Goto(t, "write", {}))
      <3> DEFINE g == Goto(t, "delete", {})
      <3>1. \E n, records : Step(t, [g EXCEPT !.n = n, !.records = records])
        BY <1>20, <2>3 DEF LoadRevisions
      <3>3. g \in TaskType /\ g.pc = "delete" /\ g.op = s.op
        BY GotoIs
      <3> HIDE DEF g
      <3>5. PICK n, records : Step(t, [g EXCEPT !.n = n, !.records = records])
        BY <3>1
      <3>2. new = [g EXCEPT !.n = n, !.records = records]
        BY <3>5, Places
      <3>4. new.pc = "delete" /\ new.op = s.op
        BY <3>2, <3>3 DEF TaskType
      <3> QED BY <1>20, <2>1, <3>4 DEF Replacing, Copies
    <2> QED BY <2>2, <2>3
  <1>21. CASE Rewriting(t)
    <2>1. new.op = "compact"
      BY <1>21, Rewrites
    <2>2. /\ DeleteRevisions(t) => new.pc = "head"
          /\ RewriteRecord(t) => new.pc = "revs"
          /\ RewriteRevisions(t) => new.pc = "unload"
      BY DeleteParts, RewriteRecordParts, RewriteRevisionsParts
    <2> QED BY <1>21, <2>1, <2>2 DEF Rewriting, Replacing, Copies
  <1>22. CASE Unload(t)
    <2> DEFINE g == Goto(t, "getPad", {})
    <2>1. new = [g EXCEPT !.dst = s.pad] /\ s.op = "compact"
      BY <1>1, <1>22, Places DEF Unload, At, Shape
    <2>2. [g EXCEPT !.dst = s.pad].op = g.op /\ [g EXCEPT !.dst = s.pad].pc = g.pc /\ g.op = s.op /\ g.pc = "getPad"
      BY TaskFields DEF Goto, TaskType
    <2>3. new.op = "compact" /\ new.pc = "getPad"
      BY <2>1, <2>2
    <2> QED BY <2>3 DEF Replacing, Copies
  <1>23. TaskStep(t) => Call(t) \/ getPad(t) \/ init(t) \/ cachePad(t) \/ (Open(t) \/ Written(t) \/ Reloaded(t))
           \/ (AppendEdit(t) \/ appendChatMessage(t) \/ addSavedRevision(t) \/ remove(t)) \/ SaveSource(t)
           \/ removePadIfForceIsTrueAndAlreadyExist(t) \/ (ReadRecords(t) \/ RecordsCopied(t)) \/ copyRecord(t)
           \/ (Copied(t) \/ AppendSnapshot(t)) \/ LoadRevisions(t) \/ Rewriting(t) \/ Unload(t)
    BY ReadAtOnce DEF TaskStep, Rewriting
  <1> QED BY <1>9, <1>10, <1>11, <1>12, <1>13, <1>14, <1>15, <1>16, <1>17, <1>18, <1>19, <1>20, <1>21, <1>22, <1>23

\* A compaction has its pad, and the keys it deletes are the pad's.
LEMMA DeletedKeys ==
    ASSUME TakeTurns, TypeInv, HandsInv, NEW t \in Tasks, task[t].pc \in {"delete", "head"}
    PROVE  /\ task[t].pad \in Pads /\ task[t].pad \in AloneOf(t) /\ Busy(t)
           /\ RevKeys(task[t].pad, task[t].n + KeepRevisions) \subseteq KeysOf(task[t].pad)
  <1>1. /\ task[t].pad \in Pads /\ task[t].pad \in AloneOf(t) /\ Busy(t) /\ InHand(t)
        /\ mem[task[t].held] \in PadIn(ChatRoom) /\ ChatRoom \in Int
    BY CompactingPad
  <1>2. mem[task[t].held].head = task[t].n + KeepRevisions /\ mem[task[t].held].head \in -1 .. MaxHead
    BY <1>1, PadParts DEF InHand
  <1>3. 0 .. task[t].n + KeepRevisions \subseteq 0 .. MaxHead
    BY <1>2, Constants
  <1> QED BY <1>1, <1>3, KeysInside DEF RevKeys

LEMMA StepDeleted ==
    ASSUME TakeTurns, TypeInv, HandsInv, NEW t \in Tasks, TaskStep(t), DeletedAwaited
    PROVE  DeletedAwaited'
  <1>1. TypeInv' /\ HandsInv' /\ Footprint(t) /\ disk' = disk
    BY TaskSteps, NotWaiting
  <1> SUFFICES ASSUME NEW u \in Tasks, task'[u].pc = "head",
                      NEW k \in RevKeys(task'[u].pad, task'[u].n + KeepRevisions)
               PROVE  view'[k] = disk'[k] \/ k \in task'[u].awaits
    BY DEF DeletedAwaited
  <1>2. CASE u = t
    <2>1. DeleteRevisions(t)
      BY <1>2, Arrivals
    <2> DEFINE keys == RevKeys(task[t].pad, task[t].n + KeepRevisions)
    <2>2. task'[t] = Goto(t, "head", keys) /\ task'[t].pad = task[t].pad /\ task'[t].n = task[t].n
          /\ task[t].pc = "delete"
      BY <2>1, DeleteParts
    <2>3. k \in keys
      BY <1>2, <2>2
    <2>4. keys \in SUBSET Keys
      <3>1. task[t].pad \in Pads /\ keys \subseteq KeysOf(task[t].pad)
        BY <2>2, DeletedKeys
      <3> QED BY <3>1, KeysInside
    <2> HIDE DEF keys
    <2>5. task'[t].awaits = keys
      BY <2>2, <2>4, GotoIs
    <2> QED BY <1>2, <2>3, <2>5
  <1>3. CASE u # t
    <2>1. task'[u] = task[u] /\ task[u].pc = "head"
      BY <1>1, <1>3 DEF Footprint
    <2>2. /\ task[u].pad \in Pads /\ task[u].pad \in AloneOf(u) /\ Busy(u)
          /\ k \in KeysOf(task[u].pad)
      BY <2>1, DeletedKeys
    <2>3. view'[k] = view[k]
      BY <1>1, <1>3, <2>2, OthersKeep
    <2> QED BY <1>1, <2>1, <2>3 DEF DeletedAwaited
  <1> QED BY <1>2, <1>3

-----------------------------------------------------------------------------
(* What a copy has not on the disk yet it awaits. *)

\* Which steps change what has been answered for.
LEMMA KeptIs ==
    ASSUME NEW t \in Tasks, TaskStep(t)
    PROVE  \/ UNCHANGED <<kept, forgone>>
           \/ /\ Written(t) /\ task[t].op \in {"append", "chat"} /\ forgone' = forgone
              /\ kept' = [kept EXCEPT ![task[t].pad] = @ \cup {task[t].n}]
           \/ \E p : Emptying(t, p)
           \/ /\ Copied(t) /\ forgone' = forgone
              /\ kept' = [kept EXCEPT ![task[t].dst] = Holds(view, task[t].dst, mem[task[t].obj])]
  <1>1. CASE remove(t) \/ removePadIfForceIsTrueAndAlreadyExist(t)
    BY <1>1 DEF Emptying, removePadIfForceIsTrueAndAlreadyExist, Return
  <1>2. CASE Written(t)
    BY <1>2 DEF Written, Return
  <1>3. CASE Copied(t)
    BY SMTT(30), <1>3 DEF Copied, Return
  <1>4. CASE Call(t) \/ getPad(t) \/ init(t) \/ cachePad(t) \/ Open(t) \/ AppendEdit(t) \/ appendChatMessage(t)
               \/ addSavedRevision(t)
    BY ZenonT(60), <1>4 DEF Call, getPad, init, cachePad, Open, AppendEdit, appendChatMessage, addSavedRevision, Return, Change
  <1>5. CASE SaveSource(t) \/ ReadRecords(t) \/ ReadMessages(t) \/ copyRecord(t) \/ RecordsCopied(t)
               \/ AppendSnapshot(t)
    BY <1>5 DEF SaveSource, ReadRecords, ReadMessages, copyRecord, RecordsCopied, AppendSnapshot, Return
  <1>6. CASE LoadRevisions(t) \/ DeleteRevisions(t) \/ RewriteRecord(t) \/ RewriteRevisions(t) \/ Unload(t)
               \/ Reloaded(t)
    BY <1>6 DEF LoadRevisions, DeleteRevisions, RewriteRecord, RewriteRevisions, Unload, Reloaded, Return
  <1> QED BY <1>1, <1>2, <1>3, <1>4, <1>5, <1>6 DEF TaskStep

LEMMA SamePromises ==
    ASSUME UNCHANGED <<kept, forgone>>
    PROVE  Promised' = Promised
  BY DEF Promised

\* Nothing is promised of a pad that has been emptied.
LEMMA Emptied ==
    ASSUME KeptType, NEW t \in Tasks, NEW q, Empties(t, q)
    PROVE  KeptType' /\ Promised'[q] = {} /\ \A p \in Pads \ {q} : Promised'[p] = Promised[p]
  <1>1. CASE Forget(q)
    BY <1>1 DEF Empties, Forget, KeptType, Promised
  <1>2. CASE GivesUp(q)
    BY <1>2 DEF Empties, GivesUp, KeptType, Promised
  <1> QED BY <1>1, <1>2 DEF Empties

\* What a step may promise of a pad.
LEMMA PromisedIs ==
    ASSUME TakeTurns, TypeInv, HandsInv, NEW t \in Tasks, TaskStep(t), KeptType, NEW p \in Pads
    PROVE  \/ Promised'[p] = Promised[p]
           \/ /\ Written(t) /\ task[t].op \in {"append", "chat"} /\ task[t].pad = p
              /\ Promised'[p] \subseteq Promised[p] \cup {task[t].n}
           \/ Emptying(t, p)
           \/ Copied(t) /\ task[t].dst = p /\ Promised'[p] \subseteq Holds(view, p, mem[task[t].obj])
  <1>1. Promised[p] = kept[p] \ forgone[p] /\ Promised'[p] = kept'[p] \ forgone'[p]
    BY DEF Promised
  <1>2. CASE UNCHANGED <<kept, forgone>>
    BY <1>1, <1>2
  <1>3. CASE /\ Written(t) /\ task[t].op \in {"append", "chat"} /\ forgone' = forgone
             /\ kept' = [kept EXCEPT ![task[t].pad] = @ \cup {task[t].n}]
    BY <1>1, <1>3 DEF KeptType
  <1>4. CASE \E q : Emptying(t, q)
    <2>1. PICK q : Emptying(t, q)
      BY <1>4
    <2>2. p # q => Promised'[p] = Promised[p]
      BY <2>1, StepKinds, Emptied
    <2> QED BY <2>1, <2>2
  <1>5. CASE /\ Copied(t) /\ forgone' = forgone
             /\ kept' = [kept EXCEPT ![task[t].dst] = Holds(view, task[t].dst, mem[task[t].obj])]
    BY <1>1, <1>5 DEF KeptType
  <1> QED BY <1>2, <1>3, <1>4, <1>5, KeptIs

\* A copy has to itself what it replaces.
LEMMA ReplacingHas ==
    ASSUME TakeTurns, TypeInv, HandsInv, NEW t \in Tasks, Replacing(task[t])
    PROVE  /\ Busy(t) /\ task[t].dst \in Pads /\ task[t].dst \in AloneOf(t) /\ task[t].op \in CopyOps
           /\ Shape(task[t]) /\ InHand(t)
  <1>1. Busy(t) /\ task[t].op \in CopyOps
    BY DEF Replacing, Loading, Busy, CopyOps
  <1> QED BY <1>1, AlonePads DEF HandsInv

\* Nothing of what others have to themselves is answered for by a step.
LEMMA OthersKept ==
    ASSUME TakeTurns, TypeInv, HandsInv, KeptType, NEW t \in Tasks, TaskStep(t),
           NEW p \in Pads, p \notin Uses(t)
    PROVE  Promised'[p] = Promised[p]
  <1>1. p \notin {task[t].pad, task[t].dst}
    BY Constants DEF Uses
  <1>2. ~Emptying(t, p)
    BY StepKinds, AloneInUses DEF Empties
  <1> QED BY <1>1, <1>2, PromisedIs

LEMMA StepCopyAwaited ==
    ASSUME TakeTurns, TypeInv, HandsInv, NEW t \in Tasks, TaskStep(t), KeptType,
           AwaitsOwn, NothingForgotten, CopyAwaited
    PROVE  CopyAwaited'
  <1>1. TypeInv' /\ HandsInv' /\ Footprint(t) /\ disk' = disk /\ (copyRecord(t) \/ task[t].awaits = {})
    BY TaskSteps, NotWaiting
  <1> SUFFICES ASSUME NEW u \in Tasks, Replacing(task'[u])
               PROVE  /\ Promised'[task'[u].dst] = {}
                      /\ \A k \in KeysOf(task'[u].dst) : view'[k] = disk'[k] \/ k \in task'[u].awaits
    BY DEF CopyAwaited
  <1>2. CASE u # t
    <2> DEFINE q == task[u].dst
    <2>1. task'[u] = task[u] /\ Replacing(task[u])
      BY <1>1, <1>2 DEF Footprint
    <2>2. q \in Pads /\ q \in AloneOf(u) /\ Busy(u)
      BY <2>1, ReplacingHas
    <2>3. q \notin Uses(t)
      BY <1>2, <2>2, NotShared
    <2>4. \A k \in KeysOf(q) : view'[k] = view[k]
      BY <1>1, <2>2, <2>3 DEF Footprint
    <2>5. Promised'[q] = Promised[q]
      BY <2>2, <2>3, OthersKept
    <2> QED BY <1>1, <2>1, <2>4, <2>5 DEF CopyAwaited
  <1>3. CASE u = t /\ Emptying(t, task[t].dst) /\ task'[t].dst = task[t].dst
    <2> DEFINE q == task[t].dst
    <2>1. /\ q \in Pads /\ q \in AloneOf(t) /\ task[t].awaits = {} /\ Promised'[q] = {}
          /\ task'[t].awaits = IF Exists(q) THEN RecordKeys(q, view[PadKey(q)]) ELSE {}
          /\ \A k \in Keys \ task'[t].awaits : view'[k] = view[k]
      BY <1>3, StepKinds, Emptied DEF Empties
    <2>2. Busy(t)
      BY <1>3 DEF Emptying, removePadIfForceIsTrueAndAlreadyExist, remove, Running, At, Busy
    <2>3. ASSUME NEW k \in KeysOf(q), k \notin task'[t].awaits PROVE view'[k] = disk'[k]
      <3>1. k \in Keys /\ \A p \in Pads : k \in KeysOf(p) => p = q
        BY <2>1, KeysInside
      <3>2. view'[k] = view[k]
        BY <2>1, <2>3, <3>1
      <3>3. ~ \E v \in Tasks : k \in task[v].awaits
        <4> SUFFICES ASSUME NEW v \in Tasks, k \in task[v].awaits PROVE FALSE
          OBVIOUS
        <4>1. PICK p \in Uses(v) : k \in KeysOf(p)
          BY DEF AwaitsOwn
        <4>2. v # t
          BY <2>1
        <4>3. p \in Pads
          BY TaskFields DEF Uses
        <4>4. p = q
          BY <3>1, <4>1, <4>3
        <4> QED BY <2>1, <2>2, <4>1, <4>2, <4>4, NotShared
      <3>4. ~ \E p \in Pads : Exists(p) /\ k \in RecordKeys(p, view[PadKey(p)])
        <4> SUFFICES ASSUME NEW p \in Pads, Exists(p), k \in RecordKeys(p, view[PadKey(p)]) PROVE FALSE
          OBVIOUS
        <4>1. p = q
          BY <3>1, StoredKeys
        <4> QED BY <2>1, <2>3, <4>1
      <3> QED BY <1>1, <3>1, <3>2, <3>3, <3>4 DEF NothingForgotten
    <2> QED BY <1>3, <2>1, <2>3
  <1>4. CASE u = t /\ Replacing(task[t]) /\ task'[t].dst = task[t].dst
    <2> DEFINE q == task[t].dst
    <2>1. /\ q \in Pads /\ task[t].op \in CopyOps /\ Shape(task[t]) /\ InHand(t) /\ task[t].op \in Copies
          /\ task[t].op \notin {"append", "chat", "save", "remove", "compact"} \cup Snapshots
          /\ task[t].pc \notin {"write", "clear", "run", "idle"}
      BY <1>4, ReplacingHas DEF Replacing, Loading, Copies, Snapshots
    <2>2. Promised[q] = {} /\ \A k \in KeysOf(q) : view[k] = disk[k] \/ k \in task[t].awaits
      BY <1>4 DEF CopyAwaited
    <2>3. Promised'[q] = {}
      <3>1. ~Written(t)
        BY <2>1 DEF Written, At
      <3>2. ~ \E p : Emptying(t, p)
        BY <2>1 DEF Emptying, remove, removePadIfForceIsTrueAndAlreadyExist, Running, At
      <3>3. ~Copied(t)
        <4> SUFFICES ASSUME Copied(t) PROVE FALSE
          OBVIOUS
        <4>1. CASE \E m, keeps : Return(t, m, cache, keeps)
          <5>1. task'[t].pc = "idle"
            BY <4>1, Places
          <5> QED BY <1>4, <5>1 DEF Replacing, Loading
        <4>2. CASE \E op, p, o : Continue(t, op, p, Nothing, o)
          <5>1. task'[t].pc = "run"
            BY <4>2, Continued
          <5> QED BY <1>4, <5>1 DEF Replacing, Loading
        <4> QED BY <4>1, <4>2 DEF Copied
      <3> QED BY <2>1, <2>2, <3>1, <3>2, <3>3, PromisedIs
    <2>4. CASE copyRecord(t)
      <3>1. PICK key \in KeysOf(q) :
              task'[t].awaits = task[t].awaits \cup {key} /\ \A j \in Keys \ {key} : view'[j] = view[j]
        BY <2>4, CopyRecordParts
      <3>2. \A k \in KeysOf(q) : view'[k] = disk'[k] \/ k \in task'[t].awaits
        BY <1>1, <2>1, <2>2, <3>1, KeysInside
      <3> QED BY <1>4, <2>2, <2>3, <3>2
    <2>5. CASE ~copyRecord(t)
      <3>1. Quiet(t) \/ init(t)
        <4>1. WritingOn(t)
          <5>1. ~Rewriting(t)
            BY <2>1, Rewrites
          <5>2. ~ \E p : Emptying(t, p)
            BY <2>1 DEF Emptying, remove, removePadIfForceIsTrueAndAlreadyExist, Running, At
          <5> QED BY <2>5, <5>1, <5>2, StepKinds
        <4>2. ~AppendEdit(t) /\ ~appendChatMessage(t) /\ ~addSavedRevision(t) /\ ~SaveSource(t)
          BY <2>1 DEF AppendEdit, appendChatMessage, addSavedRevision, SaveSource, Running, At
        <4>3. ~AppendSnapshot(t)
          BY <2>1 DEF AppendSnapshot, Snapshots
        <4> QED BY <4>1, <4>2, <4>3 DEF WritingOn
      <3>2. view' = view
        <4>1. CASE Quiet(t)
          BY <4>1, QuietWrites
        <4>2. CASE init(t)
          <5>1. task[t].pc = "init" /\ task[t].held # Nothing
            BY <1>4, <4>2 DEF Replacing, init, At
          <5>2. Exists(Target(t))
            BY <2>1, <5>1 DEF InHand, Target, Exists, Copies, Snapshots
          <5> QED BY <4>2, <5>2 DEF init
        <4> QED BY <3>1, <4>1, <4>2
      <3> QED BY <1>1, <1>4, <2>2, <2>3, <2>5, <3>2
    <2> QED BY <2>4, <2>5
  <1>5. u = t => \/ Emptying(t, task[t].dst) /\ task'[t].dst = task[t].dst
                 \/ Replacing(task[t]) /\ task'[t].dst = task[t].dst
    BY Arrivals DEF Emptying
  <1> QED BY <1>2, <1>3, <1>4, <1>5

-----------------------------------------------------------------------------
(* What has been answered for is in the database. *)

LEMMA KeptOnward ==
    ASSUME TypeInv, TypeInv', NEW p \in Pads, Onward(p), disk' = disk, KeptSafe, Compacting(p) => Compacting(p)',
           Promised'[p] = Promised[p]
    PROVE  KeptSafeOf(p)'
  <1>1. KeptSafeOf(p)
    BY DEF KeptSafe
  <1>2. Promised'[p] # {} => view'[PadKey(p)] # Nothing /\ disk'[PadKey(p)] # Nothing
    BY <1>1 DEF KeptSafeOf, Onward
  <1>3. ASSUME ~Compacting(p), NEW e \in Promised'[p] PROVE Safe(view', disk', p, e, {})
    <2>1. Safe(view, disk, p, e, {})
      BY <1>1, <1>3 DEF KeptSafeOf
    <2>2. \A key \in KeysOf(p) \ {PadKey(p)} : Bearing(view, p, key, e) => Bearing(view', p, key, e)
      BY OnwardBears
    <2> QED BY <2>1, <2>2, SafeStays
  <1> QED BY <1>2, <1>3 DEF KeptSafeOf, Exists

\* A pad that is being compacted is so until the one who does has unloaded it.
LEMMA CompactingStays ==
    ASSUME NEW t \in Tasks, Footprint(t), NEW p \in Pads, Compacting(p),
           ~(task[t].op = "compact" /\ task[t].pad = p /\ task[t].pc \in {"head", "revs", "unload"})
    PROVE  Compacting(p)'
  <1>1. PICK u \in Tasks : task[u].op = "compact" /\ task[u].pad = p /\ task[u].pc \in {"head", "revs", "unload"}
    BY DEF Compacting
  <1>2. task'[u] = task[u]
    BY <1>1 DEF Footprint
  <1> QED BY <1>1, <1>2 DEF Compacting

\* What a copy holds is on the disk.
LEMMA CopiedKept ==
    ASSUME TakeTurns, TypeInv, HandsInv, NEW t \in Tasks, Copied(t), CopyAwaited,
           NEW e \in Holds(view, task[t].dst, mem[task[t].obj])
    PROVE  /\ e \in Nat /\ Safe(view, disk, task[t].dst, e, {})
           /\ view[PadKey(task[t].dst)] # Nothing /\ disk[PadKey(task[t].dst)] # Nothing
  <1> DEFINE q == task[t].dst
             pad == view[PadKey(q)]
  <1>1. task[t].pc = "second" /\ task[t].op \in Copies /\ task[t].awaits = {}
    BY DEF Copied, At
  <1>2. /\ q \in Pads /\ q \in Uses(t) /\ ~Rewritten(q) /\ InHand(t) /\ Shape(task[t])
    BY <1>1, CopyingPad DEF CopyOps
  <1>3. cache[q] = task[t].obj /\ task[t].obj # Nothing /\ task[t].obj \in DOMAIN mem
    BY <1>1, <1>2, TaskFields DEF InHand, Shape
  <1>4. mem[task[t].obj] = pad
    BY <1>2, <1>3 DEF HandsInv, CacheIsStored
  <1>5. pad \in PadIn(ChatRoom) /\ ChatRoom \in Int /\ ChatRoom <= MaxCalls /\ pad # Nothing
    BY <1>3, <1>4, TaskFields, RoomBounded, PadsAreRecords, Constants
  <1>6. \A k \in KeysOf(q) : view[k] = disk[k]
    BY <1>1 DEF CopyAwaited, Replacing
  <1>7. IsDatabase(ChatRoom, view) /\ PadKey(q) \in KeysOf(q)
    BY <1>2, KeysInside DEF TypeInv
  <1>8. e \in Holds(view, q, pad)
    BY <1>4
  <1>9. e \in Nat
    <2>1. CASE e \in ToSet(pad.text)
      <3>1. pad.text \in Seq(0 .. MaxCalls)
        BY <1>5, PadParts DEF Texts
      <3>2. \A i \in DOMAIN pad.text : pad.text[i] \in 0 .. MaxCalls
        <4> DEFINE text == pad.text
        <4>1. text \in Seq(0 .. MaxCalls)
          BY <3>1
        <4> HIDE DEF text
        <4>3. DOMAIN text = 1 .. Len(text)
          BY <4>1
        <4>2. \A i \in DOMAIN text : text[i] \in 0 .. MaxCalls
          BY <4>1, <4>3, ElementOfSeq
        <4> QED BY <4>2 DEF text
      <3>3. \E i \in DOMAIN pad.text : e = pad.text[i]
        BY <2>1 DEF ToSet
      <3> QED BY <3>2, <3>3
    <2>2. CASE e # Nothing /\ \E n \in 0 .. pad.chatHead : e = view[ChatKey(q, n)]
      <3>1. PICK n \in 0 .. pad.chatHead : e = view[ChatKey(q, n)]
        BY <2>2
      <3>2. n \in 0 .. MaxCalls
        <4>1. pad.chatHead \in -1 .. ChatRoom
          BY <1>5, PadParts
        <4> QED BY <1>5, <4>1, Constants
      <3>3. ChatKey(q, n) \in Keys
        BY <1>2, <3>2, KeysInside
      <3>4. IsRecord(ChatRoom, ChatKey(q, n), e)
        BY <1>7, <3>1, <3>3 DEF IsDatabase
      <3>5. e \in 0 .. MaxCalls
        BY <2>2, <3>4, RecordKinds
      <3> QED BY <3>5
    <2> QED BY <1>8, <2>1, <2>2 DEF Holds, ChatKeys
  <1>10. e # Nothing
    BY <1>9, Constants
  <1>11. PICK key \in KeysOf(q) \ {PadKey(q)} : Bearing(view, q, key, e)
    BY <1>2, <1>5, <1>7, <1>8, <1>10, HoldsIs
  <1>12. Bearing(disk, q, key, e)
    BY <1>6, <1>7, <1>11 DEF Bearing
  <1> QED BY <1>5, <1>6, <1>7, <1>9, <1>11, <1>12, SafeOnDisk

LEMMA StepKeptSafe ==
    ASSUME TakeTurns, TypeInv, HandsInv, NEW t \in Tasks, TaskStep(t), KeptType,
           CopyAwaited, KeptSafe, AnsweredSafe
    PROVE  KeptSafe'
  <1>1. TypeInv' /\ HandsInv' /\ Footprint(t) /\ disk' = disk /\ (copyRecord(t) \/ task[t].awaits = {})
    BY TaskSteps, NotWaiting
  <1> SUFFICES ASSUME NEW p \in Pads PROVE KeptSafeOf(p)'
    BY DEF KeptSafe
  <1>2. ASSUME \A k \in KeysOf(p) : view'[k] = view[k], Promised'[p] = Promised[p],
               ~(task[t].op = "compact" /\ task[t].pad = p /\ task[t].pc \in {"head", "revs", "unload"})
        PROVE  KeptSafeOf(p)'
    BY <1>1, <1>2, OnwardSame, CompactingStays, KeptOnward
  <1>3. CASE p \notin Uses(t)
    <2>1. task[t].pad # p
      BY <1>3, Constants DEF Uses
    <2>2. \A k \in KeysOf(p) : view'[k] = view[k]
      BY <1>1, <1>3 DEF Footprint
    <2> QED BY <1>2, <1>3, <2>1, <2>2, OthersKept
  <1>4. ASSUME NEW q, Emptying(t, q) PROVE KeptSafeOf(p)'
    <2>1. Empties(t, q)
      BY <1>4, StepKinds
    <2>2. task[t].op # "compact"
      BY <1>4 DEF Emptying, remove, Running, removePadIfForceIsTrueAndAlreadyExist, At, HandsInv, Shape, CopyOps,
                  Copies, Snapshots
    <2>3. CASE p = q
      <3>1. Promised'[p] = {}
        BY <2>1, <2>3, Emptied
      <3> QED BY <3>1 DEF KeptSafeOf
    <2>4. CASE p # q
      <3>1. \A k \in KeysOf(p) : k \in Keys \ task'[t].awaits
        BY <2>1, <2>4, KeysInside DEF Empties
      <3>2. Promised'[p] = Promised[p]
        BY <2>1, <2>4, Emptied
      <3>3. \A k \in KeysOf(p) : view'[k] = view[k]
        BY <2>1, <3>1 DEF Empties
      <3> QED BY <1>2, <2>2, <3>2, <3>3
    <2> QED BY <2>3, <2>4
  <1>5. CASE copyRecord(t)
    <2> DEFINE q == task[t].dst
    <2>1. /\ task[t].pc = "records" /\ task[t].op \in Copies /\ q \in Pads /\ Promised' = Promised
          /\ \E key \in KeysOf(q) : \A k \in Keys \ {key} : view'[k] = view[k]
      BY <1>5, CopyRecordParts, SamePromises
    <2>2. CASE p = q
      <3>1. Promised'[p] = {}
        BY <2>1, <2>2 DEF CopyAwaited, Replacing
      <3> QED BY <3>1 DEF KeptSafeOf
    <2>3. CASE p # q
      <3>1. \A k \in KeysOf(p) : k \in Keys /\ k \notin KeysOf(q)
        BY <2>1, <2>3, KeysInside
      <3>2. \A k \in KeysOf(p) : view'[k] = view[k]
        BY <2>1, <3>1
      <3> QED BY <1>2, <2>1, <3>2
    <2> QED BY <2>2, <2>3
  <1>6. CASE Rewriting(t)
    <2> DEFINE q == task[t].pad
    <2>1. /\ q \in Pads /\ disk' = disk /\ Promised' = Promised /\ task'[t].pc \in {"head", "revs", "unload"}
          /\ task'[t].pad = q /\ task'[t].op = "compact" /\ task'[t].awaits \subseteq KeysOf(q)
          /\ \A k \in Keys \ task'[t].awaits : view'[k] = view[k]
          /\ view'[PadKey(q)] # Nothing
      BY <1>6, Rewrites, SamePromises
    <2>2. CASE p = q
      <3>1. Compacting(p)'
        BY <2>1, <2>2 DEF Compacting
      <3>2. Promised'[p] # {} => view'[PadKey(p)] # Nothing /\ disk'[PadKey(p)] # Nothing
        BY <2>1, <2>2 DEF KeptSafe, KeptSafeOf
      <3> QED BY <3>1, <3>2 DEF KeptSafeOf, Exists
    <2>3. CASE p # q
      <3>1. \A k \in KeysOf(p) : k \in Keys \ task'[t].awaits
        BY <2>1, <2>3, KeysInside
      <3>2. \A k \in KeysOf(p) : view'[k] = view[k]
        BY <2>1, <3>1
      <3> QED BY <1>2, <2>1, <2>3, <3>2
    <2> QED BY <2>2, <2>3
  <1>7. CASE WritingOn(t) /\ task[t].awaits = {}
    <2>1. Onward(p)
      BY <1>7, StepKinds DEF WritesOn
    <2>2. CASE Promised'[p] = Promised[p]
      <3>1. CASE task[t].op = "compact" /\ task[t].pad = p /\ task[t].pc \in {"head", "revs", "unload"}
        <4>1. Unload(t)
          BY <1>7, <3>1 DEF WritingOn, Quiet, Call, Busy, getPad, cachePad, Open, Written, ReadRecords, RecordsCopied,
               Copied, Copies, LoadRevisions, Reloaded, removePadIfForceIsTrueAndAlreadyExist, init, AppendEdit,
               appendChatMessage, addSavedRevision, SaveSource, AppendSnapshot, Running, At
        <4>2. task[t].pc = "unload" /\ view' = view
          BY <4>1 DEF Unload, At
        <4>3. /\ task[t].records = {}
              /\ \A e \in Promised[p] : Safe(Compacted(task[t], view), disk, p, e, Unwritten(task[t]))
          BY <3>1, <4>2 DEF AnsweredSafe, PlanSafe
        <4>4. Unwritten(task[t]) = {}
          BY <1>7, <4>2, <4>3 DEF Unwritten
        <4>5. \A k \in KeysOf(p) : Compacted(task[t], view)[k] = view[k] /\ PadKey(p) \in KeysOf(p)
          BY <4>2, <4>3, KeysInside, CompactedIs
        <4>6. ASSUME NEW e \in Promised[p] PROVE Safe(view', disk', p, e, {})
          <5> DEFINE db == Compacted(task[t], view)
          <5>1. Safe(db, disk, p, e, {}) /\ \A k \in KeysOf(p) : db[k] = view[k]
            BY <4>3, <4>4, <4>5
          <5> HIDE DEF db
          <5>2. \A key \in KeysOf(p) \ {PadKey(p)} : Bearing(db, p, key, e) => Bearing(view, p, key, e)
            BY <4>5, <5>1 DEF Bearing
          <5> QED BY <1>1, <4>2, <5>1, <5>2, SafeStays
        <4>7. Promised[p] # {} => Exists(p) /\ disk[PadKey(p)] # Nothing
          BY DEF KeptSafe, KeptSafeOf
        <4> QED BY SMTT(30), <1>1, <2>2, <4>2, <4>6, <4>7 DEF KeptSafeOf, Exists
      <3>2. CASE ~(task[t].op = "compact" /\ task[t].pad = p /\ task[t].pc \in {"head", "revs", "unload"})
        BY <1>1, <2>1, <2>2, <3>2, CompactingStays, KeptOnward
      <3> QED BY <3>1, <3>2
    <2>3. CASE /\ Written(t) /\ task[t].op \in {"append", "chat"} /\ task[t].pad = p
               /\ Promised'[p] \subseteq Promised[p] \cup {task[t].n}
      <3> DEFINE n == task[t].n
      <3>1. task[t].pc = "write" /\ view' = view
        BY <2>3 DEF Written, At
      <3>2. Safe(view, disk, p, n, {})
        BY <1>7, <2>3, <3>1 DEF AnsweredSafe, EditSafe
      <3>3. Exists(p) /\ disk[PadKey(p)] # Nothing
        BY <3>2 DEF Safe, Bearing, Bears, Exists
      <3>4. ASSUME ~Compacting(p)', NEW e \in Promised'[p] PROVE Safe(view', disk', p, e, {})
        <4>1. ~Compacting(p)
          BY <1>1, <2>3, <3>4, CompactingStays
        <4>2. e \in Promised[p] => Safe(view, disk, p, e, {})
          BY <4>1 DEF KeptSafe, KeptSafeOf
        <4> QED BY <1>1, <2>3, <3>1, <3>2, <3>4, <4>2
      <3> QED BY <1>1, <3>1, <3>3, <3>4 DEF KeptSafeOf, Exists
    <2>4. CASE Copied(t) /\ task[t].dst = p /\ Promised'[p] \subseteq Holds(view, p, mem[task[t].obj])
      <3>1. view' = view
        BY <2>4 DEF Copied
      <3>2. \A e \in Promised'[p] : Safe(view, disk, p, e, {}) /\ view[PadKey(p)] # Nothing /\ disk[PadKey(p)] # Nothing
        BY <2>4, CopiedKept
      <3> QED BY <1>1, <3>1, <3>2 DEF KeptSafeOf, Exists
    <2> QED BY <1>4, <2>2, <2>3, <2>4, PromisedIs
  <1> QED BY <1>1, <1>4, <1>5, <1>6, <1>7, StepKinds

LEMMA StepKept ==
    ASSUME TakeTurns, TypeInv, HandsInv, NEW t \in Tasks, TaskStep(t), KeptType, CopyAwaited
    PROVE  KeptType'
  <1>1. CASE UNCHANGED <<kept, forgone>>
    BY <1>1 DEF KeptType
  <1>2. CASE kept' = [kept EXCEPT ![task[t].pad] = @ \cup {task[t].n}] /\ forgone' = forgone
    BY <1>2, TaskFields DEF KeptType
  <1>3. CASE \E p : Emptying(t, p)
    <2>1. PICK p : Empties(t, p)
      BY <1>3, StepKinds
    <2> QED BY <2>1, Emptied
  <1>4. CASE /\ Copied(t) /\ forgone' = forgone
             /\ kept' = [kept EXCEPT ![task[t].dst] = Holds(view, task[t].dst, mem[task[t].obj])]
    <2> DEFINE held == Holds(view, task[t].dst, mem[task[t].obj])
    <2>1. held \subseteq Nat
      BY <1>4, CopiedKept
    <2> HIDE DEF held
    <2> QED BY <1>4, <2>1 DEF held, KeptType
  <1> QED BY <1>1, <1>2, <1>3, <1>4, KeptIs

-----------------------------------------------------------------------------
(* What calls will be answered for. *)

\* What others have in use is at most written on.
LEMMA OthersOnward ==
    ASSUME TakeTurns, TypeInv, HandsInv, NEW t \in Tasks, TaskStep(t), NEW u \in Tasks \ {t}, Busy(u),
           NEW p \in Pads, p \in Uses(u)
    PROVE  Onward(p)
  <1>1. Footprint(t)
    BY TaskSteps
  <1>2. p \in AloneOf(t) => ~Busy(t)
    BY NotShared
  <1>3. (\A k \in KeysOf(p) : view'[k] = view[k]) => Onward(p)
    BY OnwardSame
  <1>4. CASE ~Busy(t)
    <2>1. Uses(t) = {}
      BY <1>4, AloneInUses
    <2> QED BY <1>1, <1>3, <2>1 DEF Footprint
  <1>5. CASE WritingOn(t)
    BY <1>5, StepKinds DEF WritesOn
  <1>6. ASSUME NEW q, Emptying(t, q), Busy(t) PROVE Onward(p)
    <2>1. Empties(t, q)
      BY <1>6, StepKinds
    <2>2. p # q
      BY <1>2, <1>6, <2>1 DEF Empties
    <2>3. \A k \in KeysOf(p) : k \in Keys \ task'[t].awaits
      BY <2>1, <2>2, KeysInside DEF Empties
    <2> QED BY <1>3, <2>1, <2>3 DEF Empties
  <1>7. CASE copyRecord(t) /\ Busy(t)
    <2> DEFINE q == task[t].dst
    <2>1. q \in Pads /\ q \in AloneOf(t) /\ \E key \in KeysOf(q) : \A k \in Keys \ {key} : view'[k] = view[k]
      BY <1>7, CopyRecordParts
    <2>2. p # q
      BY <1>2, <1>7, <2>1
    <2>3. \A k \in KeysOf(p) : k \in Keys /\ k \notin KeysOf(q)
      BY <2>1, <2>2, KeysInside
    <2> QED BY <1>3, <2>1, <2>3
  <1>8. CASE Rewriting(t) /\ Busy(t)
    <2> DEFINE q == task[t].pad
    <2>1. /\ q \in Pads /\ q \in AloneOf(t) /\ task'[t].awaits \subseteq KeysOf(q)
          /\ \A k \in Keys \ task'[t].awaits : view'[k] = view[k]
      BY <1>8, Rewrites
    <2>2. p # q
      BY <1>2, <1>8, <2>1
    <2>3. \A k \in KeysOf(p) : k \in Keys \ task'[t].awaits
      BY <2>1, <2>2, KeysInside
    <2> QED BY <1>3, <2>1, <2>3
  <1> QED BY <1>4, <1>5, <1>6, <1>7, <1>8, StepKinds

\* A compaction that goes on carries over what it did.
LEMMA PlanGoesOn ==
    ASSUME NEW s, NEW new, NEW p \in Pads, new.pad = p, disk' = disk, Promised'[p] = Promised[p],
           \A e \in Promised[p] : Safe(Compacted(s, view), disk, p, e, Unwritten(s)),
           \A k \in KeysOf(p) : Compacted(new, view')[k] = Compacted(s, view)[k],
           Unwritten(s) \subseteq Unwritten(new)
    PROVE  \A e \in Promised'[p] : Safe(Compacted(new, view'), disk', p, e, Unwritten(new))
  <1> DEFINE old == Compacted(s, view)
             db == Compacted(new, view')
  <1>1. \A k \in KeysOf(p) : db[k] = old[k]
    OBVIOUS
  <1>2. \A e \in Promised'[p] : Safe(old, disk, p, e, Unwritten(s))
    OBVIOUS
  <1> HIDE DEF old, db
  <1>3. PadKey(p) \in KeysOf(p)
    BY KeysInside
  <1>4. ASSUME NEW e \in Promised'[p] PROVE Safe(db, disk', p, e, Unwritten(new))
    <2>1. Safe(old, disk, p, e, Unwritten(s))
      BY <1>2
    <2>2. \A key \in KeysOf(p) \ {PadKey(p)} : Bearing(old, p, key, e) => Bearing(db, p, key, e)
      BY <1>1, <1>3 DEF Bearing
    <2> QED BY <2>1, <2>2, SafeStays
  <1> QED BY <1>4 DEF db

LEMMA OthersAnswered ==
    ASSUME TakeTurns, TypeInv, HandsInv, NEW t \in Tasks, TaskStep(t), KeptType, AnsweredSafe,
           NEW u \in Tasks \ {t}
    PROVE  EditSafe(u)' /\ PlanSafe(u)' /\ (task'[u].pc = "unload" => task'[u].records = {})
  <1> DEFINE s == task[u]
             p == s.pad
  <1>1. TypeInv' /\ Footprint(t) /\ disk' = disk
    BY TaskSteps, NotWaiting
  <1>2. task'[u] = s /\ EditSafe(u) /\ PlanSafe(u) /\ (s.pc = "unload" => s.records = {})
    BY <1>1 DEF Footprint, AnsweredSafe
  <1>3. ASSUME s.pc = "write", s.op \in {"append", "chat"}
        PROVE  Safe(view', disk', p, s.n, s.awaits)
    <2>1. Busy(u) /\ Safe(view, disk, p, s.n, s.awaits)
      BY <1>2, <1>3 DEF Busy, EditSafe
    <2>2. p \in Pads /\ p \in Uses(u)
      BY <2>1, AlonePads
    <2>3. Onward(p)
      BY <2>1, <2>2, OthersOnward
    <2>4. \A key \in KeysOf(p) \ {PadKey(p)} : Bearing(view, p, key, s.n) => Bearing(view', p, key, s.n)
      BY <1>1, <2>2, <2>3, OnwardBears
    <2> HIDE DEF s, p
    <2> QED BY <1>1, <2>1, <2>4, SafeStays
  <1>4. ASSUME s.pc \in {"delete", "head", "revs", "unload"}
        PROVE  \A e \in Promised'[p] : Safe(Compacted(s, view'), disk', p, e, Unwritten(s))
    <2>1. Busy(u) /\ p \in Pads /\ p \in AloneOf(u)
      BY <1>4, CompactingPad
    <2>2. \A e \in Promised[p] : Safe(Compacted(s, view), disk, p, e, Unwritten(s))
      BY <1>2, <1>4 DEF PlanSafe
    <2>3. p \notin Uses(t)
      BY <2>1, NotShared
    <2>4. \A k \in KeysOf(p) : view'[k] = view[k]
      BY <1>1, <2>1, <2>3 DEF Footprint
    <2>5. \A k \in KeysOf(p) : Compacted(s, view')[k] = Compacted(s, view)[k]
      BY <2>1, <2>4, AheadFrame
    <2>6. Promised'[p] = Promised[p]
      BY <2>1, <2>3, OthersKept
    <2> HIDE DEF s
    <2> QED BY <1>1, <2>1, <2>2, <2>5, <2>6, PlanGoesOn
  <1> QED BY <1>2, <1>3, <1>4 DEF EditSafe, PlanSafe

\* What is awaited as a whole need not be on the disk.
LEMMA AwaitedSafe ==
    ASSUME NEW db, NEW stored, NEW p, NEW e, NEW W, NEW key \in KeysOf(p) \ {PadKey(p)},
           Bearing(db, p, key, e), key \in W, PadKey(p) \in W
    PROVE  Safe(db, stored, p, e, W)
  <1>1. \A k \in {PadKey(p), key} : k \in W \/ Bears(key, e, k, stored[k])
    OBVIOUS
  <1> QED BY <1>1 DEF Safe

\* An edit is awaited with the pad that holds it.
LEMMA AppendAnswered ==
    ASSUME TakeTurns, TypeInv, HandsInv, NEW t \in Tasks, AppendEdit(t)
    PROVE  Safe(view', disk', task'[t].pad, task'[t].n, task'[t].awaits)
  <1> DEFINE p == task[t].pad
             pad == mem[task[t].held]
             n == task[t].n
             cs == <<n>>
             new == appendRevision(pad, cs)
             f == revisionRecords(p, pad, cs)
             key == RevKey(p, new.head)
  <1>1. /\ task[t].pc = "run" /\ task[t].op = "append" /\ pad.head < MaxHead
        /\ Set(f) /\ Step(t, Goto(t, "write", RevisionAwaits(p, pad, cs)))
    BY DEF AppendEdit, Running, At, Change
  <1>2. /\ p \in Pads /\ pad \in PadIn(ChatRoom) /\ n \in 0 .. MaxCalls /\ ChatRoom \in Int
    BY <1>1, RunningPad DEF PlainOps
  <1>3. cs \in Texts /\ HasEffect(pad, cs) /\ n \in ToSet(cs)
    <2>1. <<n>> \in Seq(0 .. MaxCalls) /\ <<n>> # <<>> /\ n = <<n>>[1] /\ 1 \in DOMAIN <<n>>
      BY <1>2
    <2>2. n \in ToSet(<<n>>)
      BY <2>1 DEF ToSet
    <2> QED BY <2>1, <2>2 DEF Texts, HasEffect
  <1>4. /\ RevisionAwaits(p, pad, cs) = DOMAIN f /\ DOMAIN f = {key, PadKey(p)} /\ DOMAIN f \subseteq KeysOf(p)
        /\ f[PadKey(p)] = new /\ f[key] = Revision(new.head, cs, new.text) /\ new.head \in 0 .. MaxHead
        /\ new = [head |-> pad.head + 1, chatHead |-> pad.chatHead, saved |-> pad.saved, text |-> pad.text \o cs]
        /\ new \in PadIn(ChatRoom)
    <2> HIDE DEF p, pad, cs, n
    <2>1. pad.head < MaxHead
      BY <1>1
    <2> QED BY ZenonT(60), <1>2, <1>3, <2>1, RevisionRecordsTyped, AppendTyped
  <1> HIDE DEF f, new, cs, p, pad, n
  <1>5. DOMAIN f \in SUBSET Keys
    BY <1>2, <1>4, KeysInside
  <1>6. task'[t].awaits = DOMAIN f /\ task'[t].pad = p /\ task'[t].n = n
    <2>1. Step(t, Goto(t, "write", DOMAIN f))
      BY <1>1, <1>4
    <2> QED BY <1>5, <2>1, Places, GotoIs DEF p, n
  <1>7. view'[PadKey(p)] = new /\ view'[key] = Revision(new.head, cs, new.text)
    <2>1. PadKey(p) \in DOMAIN f /\ key \in DOMAIN f /\ IsDatabase(ChatRoom, view)
      BY <1>4 DEF TypeInv
    <2> QED BY <1>1, <1>4, <1>5, <2>1, SetIs
  <1>8. new.text \in Texts /\ pad.text \in Texts
    BY <1>2, <1>4, PadParts
  <1>9. Revision(new.head, cs, new.text) # Nothing /\ Revision(new.head, cs, new.text).changeset = cs
    BY <1>3, <1>4, <1>8, RevisionTyped, PadsAreRecords
  <1>10. new # Nothing /\ n \in ToSet(new.text)
    <2>1. ToSet(cs) \subseteq ToSet(pad.text \o cs)
      BY <1>3, <1>8, MoreText
    <2>2. new.text = pad.text \o cs
      BY <1>4
    <2> QED BY <1>3, <1>4, <2>1, <2>2, PadsAreRecords
  <1>11. Bearing(view', p, key, n)
    <2>1. key[1] = "revs" /\ key[3] = new.head
      BY KeyParts
    <2> DEFINE other == Revision(new.head, cs, new.text)
    <2>2. new.head <= new.head
      BY <1>4
    <2>3. \A k : k = key => Bears(k, n, PadKey(p), new)
      BY <1>10, <2>1, <2>2, BearsIs
    <2>4. other # Nothing /\ n \in ToSet(other.changeset)
      BY <1>3, <1>9
    <2> HIDE DEF other
    <2>5. \A k : Bears(k, n, RevKey(p, new.head), other)
      BY <2>4, BearsIs
    <2>6. view'[key] = other
      BY <1>7 DEF other
    <2> QED BY <1>7, <2>3, <2>5, <2>6 DEF Bearing
  <1>12. key \in KeysOf(p) \ {PadKey(p)}
    BY <1>2, <1>4, OtherKeys
  <1>13. key \in task'[t].awaits /\ PadKey(p) \in task'[t].awaits
    BY <1>4, <1>6
  <1> QED BY <1>6, <1>11, <1>12, <1>13, AwaitedSafe

\* So is a message.
LEMMA ChatAnswered ==
    ASSUME TakeTurns, TypeInv, HandsInv, NEW t \in Tasks, appendChatMessage(t)
    PROVE  Safe(view', disk', task'[t].pad, task'[t].n, task'[t].awaits)
  <1> DEFINE p == task[t].pad
             n == task[t].n
             old == mem[task[t].held]
             pad == [old EXCEPT !.chatHead = @ + 1]
             f == [k \in {ChatKey(p, pad.chatHead), PadKey(p)} |-> IF k = PadKey(p) THEN pad ELSE n]
             key == ChatKey(p, pad.chatHead)
  <1>1. task[t].pc = "run" /\ task[t].op = "chat" /\ Set(f) /\ Step(t, Goto(t, "write", DOMAIN f))
    BY DEF appendChatMessage, Running, At, Change
  <1>2. /\ p \in Pads /\ old \in PadIn(ChatRoom) /\ ChatRoom \in Int /\ ChatRoom < MaxCalls /\ n \in 0 .. MaxCalls
    BY <1>1, RunningPad DEF PlainOps
  <1>3. pad.chatHead \in 0 .. MaxCalls /\ pad \in PadIn(ChatRoom + 1)
    <2>1. pad = [head |-> old.head, chatHead |-> old.chatHead + 1, saved |-> old.saved, text |-> old.text]
      BY <1>2 DEF PadIn
    <2>2. old.chatHead \in -1 .. ChatRoom /\ old.head \in -1 .. MaxHead /\ old.saved \in SUBSET (0 .. MaxHead)
          /\ old.text \in Texts
      BY <1>2 DEF PadIn
    <2>3. old.chatHead + 1 \in -1 .. ChatRoom + 1 /\ old.chatHead + 1 \in 0 .. MaxCalls
      BY <1>2, <2>2, Constants
    <2> QED BY <2>1, <2>2, <2>3 DEF PadIn
  <1>4. key \in KeysOf(p) \ {PadKey(p)} /\ key[1] = "chat" /\ key[3] = pad.chatHead
    BY <1>2, <1>3, OtherKeys, KeyParts
  <1>5. DOMAIN f = {key, PadKey(p)} /\ f[PadKey(p)] = pad /\ f[key] = n
    BY <1>4
  <1>6. DOMAIN f \in SUBSET Keys /\ key \in DOMAIN f /\ PadKey(p) \in DOMAIN f
    BY <1>2, <1>4, <1>5, KeysInside
  <1> HIDE DEF f, pad, old, p, n
  <1>7. pad # Nothing /\ n # Nothing
    BY <1>2, <1>3, PadsAreRecords, Constants
  <1>8. task'[t].awaits = DOMAIN f /\ task'[t].pad = p /\ task'[t].n = n
    BY <1>1, <1>6, Places, GotoIs DEF p, n
  <1>9. view'[PadKey(p)] = pad /\ view'[key] = n
    <2>1. IsDatabase(ChatRoom, view)
      BY DEF TypeInv
    <2> QED BY <1>1, <1>5, <1>6, <2>1, SetIs
  <1>10. Bearing(view', p, key, n)
    <2>1. pad.chatHead <= pad.chatHead
      BY <1>3
    <2>2. Bears(key, n, PadKey(p), view'[PadKey(p)])
      BY <1>4, <1>7, <1>9, <2>1, BearsIs
    <2>3. \A k : Bears(k, n, ChatKey(p, pad.chatHead), n)
      BY <1>7, BearsIs
    <2> QED BY <1>9, <2>2, <2>3 DEF Bearing
  <1> QED BY <1>4, <1>6, <1>8, <1>10, AwaitedSafe

\* What a revision has added is in what the revisions make.
LEMMA ComposedHas ==
    ASSUME NEW room, NEW db, IsDatabase(room, db), NEW p \in Pads, NEW until \in 0 .. MaxHead,
           \A i \in 0 .. until : db[RevKey(p, i)] # Nothing,
           NEW r \in 0 .. until, NEW e \in ToSet(db[RevKey(p, r)].changeset)
    PROVE  e \in ToSet(Composed(db, p, until))
  <1> DEFINE bad == {n \in r .. until : e \notin ToSet(Composed(db, p, n))}
  <1>1. ASSUME NEW n \in r .. until
        PROVE  /\ n \in 0 .. MaxHead
               /\ Composed(db, p, n) = Composed(db, p, n - 1) \o db[RevKey(p, n)].changeset
               /\ ToSet(Composed(db, p, n - 1)) \subseteq ToSet(Composed(db, p, n))
               /\ ToSet(db[RevKey(p, n)].changeset) \subseteq ToSet(Composed(db, p, n))
    <2>1. n \in 0 .. MaxHead /\ n \in Nat /\ \A i \in 0 .. n : db[RevKey(p, i)] # Nothing
      BY Constants
    <2>2. db[RevKey(p, n)].changeset \in Texts
      <3>1. RevKey(p, n) \in Keys
        BY <2>1, KeysInside
      <3>2. db[RevKey(p, n)] \in RevisionRecord(n)
        BY <2>1, <3>1, RecordKinds DEF IsDatabase
      <3> QED BY <3>2 DEF RevisionRecord
    <2>3. /\ Composed(db, p, n - 1) \in Texts
          /\ Composed(db, p, n) = Composed(db, p, n - 1) \o db[RevKey(p, n)].changeset
      BY <2>1, ComposedStep
    <2> QED BY <2>1, <2>2, <2>3, MoreText
  <1>2. SUFFICES ASSUME until \in bad PROVE FALSE
    <2>1. until \in r .. until
      BY Constants
    <2> QED BY <2>1
  <1> bad \in SUBSET Nat /\ bad # {}
    BY <1>2, Constants
  <1>3. PICK m \in bad : \A n \in bad : m <= n
    BY Least
  <1>4. m \in r .. until /\ e \notin ToSet(Composed(db, p, m))
    OBVIOUS
  <1>5. CASE m = r
    BY <1>1, <1>4, <1>5
  <1>6. CASE m # r
    <2>1. m - 1 \in r .. until /\ ~(m <= m - 1)
      BY <1>4, <1>6, Constants
    <2>2. m - 1 \notin bad
      BY <1>3, <2>1
    <2>3. e \in ToSet(Composed(db, p, m - 1))
      BY <2>1, <2>2
    <2> QED BY <1>1, <1>4, <2>3
  <1> QED BY <1>5, <1>6

\* A compaction sets out to make a pad that holds what it held.
LEMMA LoadedSafe ==
    ASSUME NEW room \in Int, room <= MaxCalls, IsDatabase(room, view), NEW p \in Pads,
           NEW pad \in PadIn(room), pad = view[PadKey(p)], check(view, p, pad),
           NEW until \in Nat, until >= 1, pad.head = until + KeepRevisions,
           NEW s, s.pc = "delete", s.pad = p, s.n = until,
           s.records = {<<RevKey(p, r), Recreated(p, until, r)>> : r \in 0 .. KeepRevisions},
           NEW stored, NEW e, Safe(view, stored, p, e, {})
    PROVE  Safe(Compacted(s, view), stored, p, e, Unwritten(s))
  <1> DEFINE db == Compacted(s, view)
             new == Shortened(pad, until)
  <1>1. /\ KeepRevisions \in Nat /\ KeepRevisions >= 0 /\ pad.head \in 0 .. MaxHead
        /\ KeepRevisions <= MaxHead /\ MaxHead \in Nat /\ until \in 0 .. MaxHead
    BY PadParts, Constants
  <1>2. \A r1, r2 \in s.records : r1[1] = r2[1] => r1 = r2
    <2>1. \A i, j : RevKey(p, i) = RevKey(p, j) => i = j
      BY DEF RevKey
    <2> QED BY <2>1
  <1>3. ASSUME NEW r \in 0 .. KeepRevisions
        PROVE  /\ db[RevKey(p, r)] = Recreated(p, until, r) /\ RevKey(p, r) \in Unwritten(s)
               /\ RevKey(p, r) \in KeysOf(p) \ {PadKey(p)}
               /\ Recreated(p, until, r) # Nothing
               /\ r = 0 => Recreated(p, until, r).changeset = Composed(view, p, until)
               /\ r # 0 => Recreated(p, until, r).changeset = view[RevKey(p, until + r)].changeset
    <2>1. r \in 0 .. MaxHead /\ r \in Nat /\ until + r <= MaxHead /\ until + r <= pad.head
      BY <1>1
    <2>2. RevKey(p, r) \in Keys /\ RevKey(p, r) \in KeysOf(p) \ {PadKey(p)}
      BY <2>1, KeysInside, OtherKeys
    <2> DEFINE x == <<RevKey(p, r), Recreated(p, until, r)>>
    <2>3. x \in s.records /\ x[1] = RevKey(p, r) /\ x[2] = Recreated(p, until, r)
      OBVIOUS
    <2> HIDE DEF x
    <2>4. db[RevKey(p, r)] = Recreated(p, until, r)
      BY <1>2, <2>2, <2>3, CompactedIs
    <2>5. RevKey(p, r) \in Unwritten(s)
      BY <2>3 DEF Unwritten
    <2>6. Recreated(p, until, r) # Nothing
      <3>1. \A i \in 0 .. until + r : view[RevKey(p, i)] # Nothing
        BY <1>1, <2>1 DEF check
      <3> QED BY <2>1, <3>1, RecreatedTyped, PadsAreRecords
    <2> QED BY <2>2, <2>4, <2>5, <2>6 DEF Recreated, Revision, ComposedUntil
  <1>4. \A k \in Keys : (\A r \in 0 .. KeepRevisions : k # RevKey(p, r)) => ~ \E r \in s.records : r[1] = k
    <2>1. \A x \in s.records : \E r \in 0 .. KeepRevisions : x[1] = RevKey(p, r)
      OBVIOUS
    <2> QED BY <2>1
  <1>5. db[PadKey(p)] = new /\ PadKey(p) \in Unwritten(s)
    <2>1. PadKey(p) \in Keys /\ \A r \in 0 .. KeepRevisions : PadKey(p) # RevKey(p, r)
      BY KeysInside DEF PadKey, RevKey
    <2> QED BY <1>2, <1>4, <2>1, CompactedIs DEF Unwritten
  <1>6. /\ new.head = KeepRevisions /\ new.chatHead = pad.chatHead /\ new.text = pad.text /\ new # Nothing
    <2>1. /\ new = [head |-> KeepRevisions, chatHead |-> pad.chatHead,
                    saved |-> Renumbered(pad.saved, until), text |-> pad.text]
          /\ new \in PadIn(room)
      BY <1>1, ShortenedIs
    <2> HIDE DEF new
    <2> QED BY <2>1, PadsAreRecords
  <1>7. \A n \in 0 .. MaxCalls : db[ChatKey(p, n)] = view[ChatKey(p, n)]
    <2> TAKE n \in 0 .. MaxCalls
    <2>1. ChatKey(p, n) \in Keys /\ ChatKey(p, n) # PadKey(p) /\ ChatKey(p, n) \notin RevKeys(p, until + KeepRevisions)
      BY KeysInside DEF ChatKey, PadKey, RevKeys, RevKey
    <2>2. \A r \in 0 .. KeepRevisions : ChatKey(p, n) # RevKey(p, r)
      BY DEF ChatKey, RevKey
    <2> QED BY <1>2, <1>4, <2>1, <2>2, CompactedIs
  <1> HIDE DEF db, new
  <1>8. PICK key \in KeysOf(p) \ {PadKey(p)} : Bearing(view, p, key, e) /\ Bearing(stored, p, key, e)
    BY SafeOnDisk
  <1>9. Bears(key, e, PadKey(p), pad) /\ Bears(key, e, key, view[key]) /\ Bears(key, e, key, stored[key])
    BY <1>8 DEF Bearing
  <1>10. CASE key[1] = "chat"
    <2>1. db[key] = view[key]
      BY <1>7, <1>10, OtherKeyIs
    <2>2. Bears(key, e, PadKey(p), new)
      BY <1>6, <1>9, <1>10, BearsIs
    <2>3. Bearing(db, p, key, e)
      BY <1>5, <1>9, <2>1, <2>2 DEF Bearing
    <2>4. \A k \in {PadKey(p), key} : k \in Unwritten(s) \/ Bears(key, e, k, stored[k])
      BY <1>5, <1>9
    <2> QED BY <2>3, <2>4 DEF Safe, db
  <1>11. CASE key[1] = "revs"
    <2> DEFINE r == key[3]
    <2>1. r \in 0 .. MaxHead /\ key = RevKey(p, r)
      BY <1>11, OtherKeyIs
    <2> HIDE DEF r
    <2>2. key[3] = r
      BY DEF r
    <2>3. r <= pad.head /\ e \in ToSet(pad.text)
      BY <1>9, <1>11, <2>2, BearsIs
    <2>4. e \in ToSet(view[RevKey(p, r)].changeset)
      <3>1. Bears(key, e, RevKey(p, r), view[RevKey(p, r)])
        BY <1>9, <2>1
      <3> QED BY <3>1, BearsIs
    <2>5. \E i \in 0 .. KeepRevisions : e \in ToSet(Recreated(p, until, i).changeset)
      <3>1. CASE r <= until
        <4>1. r \in 0 .. until /\ \A i \in 0 .. until : view[RevKey(p, i)] # Nothing
          BY <1>1, <2>1, <3>1 DEF check
        <4>2. e \in ToSet(Composed(view, p, until))
          BY <1>1, <2>4, <4>1, ComposedHas
        <4>3. 0 \in 0 .. KeepRevisions
          BY <1>1
        <4> QED BY <1>3, <4>2, <4>3
      <3>2. CASE ~(r <= until)
        <4>1. r - until \in 0 .. KeepRevisions /\ r - until # 0 /\ until + (r - until) = r
          BY <1>1, <2>1, <2>3, <3>2
        <4> QED BY <1>3, <2>4, <4>1
      <3> QED BY <3>1, <3>2
    <2>6. PICK i \in 0 .. KeepRevisions : e \in ToSet(Recreated(p, until, i).changeset)
      BY <2>5
    <2> DEFINE key2 == RevKey(p, i)
               rec == Recreated(p, until, i)
    <2>7. /\ db[key2] = rec /\ key2 \in Unwritten(s) /\ key2 \in KeysOf(p) \ {PadKey(p)} /\ rec # Nothing
      BY <1>3
    <2>8. key2[1] = "revs" /\ key2[3] = i /\ i <= KeepRevisions
      BY KeyParts
    <2>9. \A k : Bears(k, e, key2, rec)
      <3> HIDE DEF rec
      <3>1. rec # Nothing /\ e \in ToSet(rec.changeset)
        BY <2>6, <2>7 DEF rec
      <3> QED BY <3>1, BearsIs
    <2> HIDE DEF key2, rec
    <2>10. Bears(key2, e, PadKey(p), new)
      BY <1>6, <2>3, <2>8, BearsIs
    <2>11. Bearing(db, p, key2, e)
      BY <1>5, <2>7, <2>9, <2>10 DEF Bearing
    <2> QED BY <1>5, <2>7, <2>11, AwaitedSafe DEF db
  <1> QED BY <1>10, <1>11, OtherKeyIs

LEMMA LoadAnswered ==
    ASSUME TakeTurns, TypeInv, HandsInv, NEW t \in Tasks, LoadRevisions(t), task'[t].pc = "delete", KeptSafe
    PROVE  PlanSafe(t)'
  <1> DEFINE p == task[t].pad
             pad == mem[task[t].held]
             until == pad.head - KeepRevisions
             records == {<<RevKey(p, r), Recreated(p, until, r)>> : r \in 0 .. KeepRevisions}
  <1>1. /\ Busy(t) /\ task[t].pc = "run" /\ task[t].op = "compact" /\ Shape(task[t]) /\ InHand(t)
        /\ view' = view /\ disk' = disk /\ Promised' = Promised
    BY SamePromises DEF LoadRevisions, Running, At, Busy, HandsInv
  <1>2. task[t].held # Nothing /\ task[t].dst = Nothing /\ p \in Pads /\ p \in Uses(t)
    <2>1. p # Nothing
      BY <1>1, Constants DEF Shape
    <2> QED BY <1>1, <2>1 DEF Shape, Loading, Uses
  <1>3. HasPad(task[t])
    BY <1>1, <1>2 DEF HasPad
  <1>4. ~Rewritten(p)
    BY <1>1, AloneInUses, NotRewritten
  <1>5. pad \in PadIn(ChatRoom) /\ pad = view[PadKey(p)]
    BY <1>1, <1>3, <1>4, CachedPad
  <1>6. ~Compacting(p)
    <2> SUFFICES ASSUME Compacting(p) PROVE FALSE
      OBVIOUS
    <2>1. PICK u \in Tasks : task[u].op = "compact" /\ task[u].pad = p /\ task[u].pc \in {"head", "revs", "unload"}
      BY DEF Compacting
    <2>2. u # t
      BY <1>1, <2>1
    <2>3. Busy(u) /\ p \in AloneOf(u)
      BY <2>1, CompactingPad
    <2> QED BY <1>2, <2>2, <2>3, NotShared
  <1>7. ~(~check(view, p, pad) \/ until <= 0)
    <2> SUFFICES ASSUME ~check(view, p, pad) \/ until <= 0 PROVE FALSE
      OBVIOUS
    <2>1. task'[t].pc = "write"
      BY Places DEF LoadRevisions
    <2> QED BY <2>1
  <1> DEFINE g == Goto(t, "delete", {})
             s == [g EXCEPT !.n = until, !.records = records]
  <1>8. task'[t] = s
    BY <1>7, Places DEF LoadRevisions
  <1>9. g \in TaskType /\ g.pc = "delete" /\ g.pad = p
    BY GotoIs
  <1>10. /\ pad.head \in Int /\ until \in Nat /\ until >= 1 /\ pad.head = until + KeepRevisions
         /\ check(view, p, pad)
    BY <1>5, <1>7, RoomBounded, PadParts, Constants
  <1> HIDE DEF g, records, until
  <1>11. s.pc = "delete" /\ s.pad = p /\ s.n = until /\ s.records = records
    BY <1>9 DEF TaskType
  <1>12. ChatRoom \in Int /\ ChatRoom <= MaxCalls /\ IsDatabase(ChatRoom, view)
    BY RoomBounded, Constants DEF TypeInv
  <1> HIDE DEF s, p, pad
  <1>13. s.records = {<<RevKey(p, r), Recreated(p, until, r)>> : r \in 0 .. KeepRevisions}
    BY <1>11 DEF records
  <1>14. ASSUME NEW e \in Promised[p] PROVE Safe(Compacted(s, view), disk, p, e, Unwritten(s))
    <2>1. Safe(view, disk, p, e, {})
      BY <1>2, <1>6, <1>14 DEF KeptSafe, KeptSafeOf
    <2> QED BY <1>2, <1>5, <1>10, <1>11, <1>12, <1>13, <2>1, LoadedSafe
  <1> QED BY <1>1, <1>8, <1>11, <1>14 DEF PlanSafe

\* What a task itself will be answered for, and carries over.
LEMMA OwnAnswered ==
    ASSUME TakeTurns, TypeInv, HandsInv, NEW t \in Tasks, TaskStep(t), KeptSafe, AnsweredSafe
    PROVE  EditSafe(t)' /\ PlanSafe(t)' /\ (task'[t].pc = "unload" => task'[t].records = {})
  <1> DEFINE p == task[t].pad
             s == task[t]
             new == task'[t]
  <1>1. /\ new.pc = "delete" => LoadRevisions(t)
        /\ new.pc = "head" => DeleteRevisions(t)
        /\ new.pc = "revs" => RewriteRecord(t)
        /\ new.pc = "unload" => RewriteRevisions(t)
        /\ new.pc = "write" /\ new.op \in {"append", "chat"} => AppendEdit(t) \/ appendChatMessage(t)
    BY Arrivals
  <1>2. EditSafe(t)'
    BY <1>1, AppendAnswered, ChatAnswered DEF EditSafe
  <1>3. new.pc = "unload" => new.records = {}
    <2> SUFFICES ASSUME new.pc = "unload" PROVE new.records = {}
      OBVIOUS
    <2> QED BY <1>1, RewriteRevisionsParts
  <1>4. ASSUME s.pc \in {"delete", "head", "revs"}
        PROVE  /\ p \in Pads
               /\ \A e \in Promised[p] : Safe(Compacted(s, view), disk, p, e, Unwritten(s))
    <2>1. PlanSafe(t)
      BY DEF AnsweredSafe
    <2> QED BY <1>4, <2>1, CompactingPad DEF PlanSafe
  <1>5. ASSUME s.pc \in {"delete", "head", "revs"}, new.pad = p, disk' = disk, Promised' = Promised,
               \A k \in KeysOf(p) : Compacted(new, view')[k] = Compacted(s, view)[k],
               Unwritten(s) \subseteq Unwritten(new)
        PROVE  PlanSafe(t)'
    <2>1. /\ p \in Pads /\ Promised'[p] = Promised[p]
          /\ \A e \in Promised[p] : Safe(Compacted(s, view), disk, p, e, Unwritten(s))
      BY <1>4, <1>5
    <2> HIDE DEF p, s, new
    <2>2. \A e \in Promised'[p] : Safe(Compacted(new, view'), disk', p, e, Unwritten(new))
      BY <1>5, <2>1, PlanGoesOn
    <2> QED BY <1>5, <2>2 DEF PlanSafe, new
  <1> SUFFICES PlanSafe(t)'
    BY <1>2, <1>3
  <1>6. CASE new.pc = "delete"
    BY <1>1, <1>6, LoadAnswered DEF AnsweredSafe
  <1>7. CASE new.pc = "head"
    <2>1. DeleteRevisions(t)
      BY <1>1, <1>7
    <2> DEFINE keys == RevKeys(p, task[t].n + KeepRevisions)
    <2>2. /\ s.pc = "delete" /\ s.awaits = {} /\ disk' = disk /\ Promised' = Promised
          /\ new = Goto(t, "head", keys) /\ new.pc = "head" /\ new.pad = p
          /\ new.n = task[t].n /\ new.records = task[t].records
          /\ \A k \in KeysOf(p) : Compacted(new, view')[k] = Compacted(s, view)[k]
      BY <2>1, DeleteParts, SamePromises
    <2>3. Unwritten(s) \subseteq Unwritten(new)
      <3> HIDE DEF new, s, p
      <3> QED BY <2>2 DEF Unwritten, p, s
    <2> QED BY <1>5, <2>2, <2>3
  <1>8. CASE new.pc = "revs"
    <2>1. RewriteRecord(t)
      BY <1>1, <1>8
    <2>2. /\ s.pc = "head" /\ s.awaits = {} /\ disk' = disk /\ Promised' = Promised
          /\ new = Goto(t, "revs", {PadKey(p)}) /\ new.pc = "revs" /\ new.pad = p
          /\ new.records = task[t].records /\ PadKey(p) \in KeysOf(p)
          /\ \A k \in KeysOf(p) : Compacted(new, view')[k] = Compacted(s, view)[k]
      BY <2>1, RewriteRecordParts, SamePromises
    <2>3. p \in Pads
      BY <1>4, <2>2
    <2>4. new.awaits = {PadKey(p)}
      <3>1. {PadKey(p)} \in SUBSET Keys
        BY <2>3, KeysInside
      <3> QED BY <2>2, <3>1, GotoIs
    <2>5. Unwritten(s) \subseteq Unwritten(new)
      <3> HIDE DEF new, s, p
      <3> QED BY <2>2, <2>4 DEF Unwritten, p, s
    <2> QED BY <1>5, <2>2, <2>5
  <1>9. CASE new.pc = "unload"
    <2>1. RewriteRevisions(t)
      BY <1>1, <1>9
    <2> DEFINE keys == {r[1] : r \in task[t].records}
    <2>2. /\ s.pc = "revs" /\ s.awaits = {} /\ disk' = disk /\ Promised' = Promised
          /\ new.pc = "unload" /\ new.pad = p /\ new.awaits = keys /\ new.records = {}
          /\ \A k \in KeysOf(p) : view'[k] = Compacted(s, view)[k]
      BY <2>1, RewriteRevisionsParts, SamePromises
    <2>3. p \in Pads
      BY <1>4, <2>2
    <2>4. \A k \in KeysOf(p) : Compacted(new, view')[k] = Compacted(s, view)[k]
      <3> HIDE DEF new, s, p
      <3>1. \A k \in KeysOf(p) : k \in Keys
        BY <2>3, KeysInside
      <3>2. \A k \in Keys : Compacted(new, view')[k] = view'[k]
        BY <2>2 DEF Compacted
      <3> QED BY <2>2, <3>1, <3>2
    <2>5. Unwritten(s) \subseteq Unwritten(new)
      <3> HIDE DEF new, s, p
      <3> QED BY <2>2 DEF Unwritten, p, s
    <2> QED BY <1>5, <2>2, <2>4, <2>5
  <1>10. CASE new.pc \notin {"delete", "head", "revs", "unload"}
    BY <1>10 DEF PlanSafe
  <1> QED BY <1>2, <1>3, <1>6, <1>7, <1>8, <1>9, <1>10

LEMMA StepAnswered ==
    ASSUME TakeTurns, TypeInv, HandsInv, NEW t \in Tasks, TaskStep(t), KeptType,
           KeptSafe, AnsweredSafe
    PROVE  AnsweredSafe'
  <1>1. \A u \in Tasks : EditSafe(u)' /\ PlanSafe(u)' /\ (task'[u].pc = "unload" => task'[u].records = {})
    BY OwnAnswered, OthersAnswered
  <1> QED BY <1>1 DEF AnsweredSafe

-----------------------------------------------------------------------------
(* What has been answered for at all times. *)

\* A record that reaches the disk is no longer awaited.
LEMMA FlushSafe ==
    ASSUME NEW db, NEW stored, NEW stored2, NEW p \in Pads, NEW e, NEW W, NEW W2, NEW key0,
           Safe(db, stored, p, e, W), \A k \in KeysOf(p) : k # key0 => stored2[k] = stored[k], W \ {key0} \subseteq W2,
           db[key0] = Nothing \/ db[key0] = stored2[key0] \/ key0 \in W2
    PROVE  Safe(db, stored2, p, e, W2)
  <1>1. PadKey(p) \in KeysOf(p)
    BY KeysInside
  <1>2. ASSUME NEW key \in KeysOf(p) \ {PadKey(p)}, Bearing(db, p, key, e), NEW k \in {PadKey(p), key},
               k \in W \/ Bears(key, e, k, stored[k])
        PROVE  k \in W2 \/ Bears(key, e, k, stored2[k])
    <2>1. CASE k = key0
      <3>1. Bears(key, e, k, db[k])
        BY <1>2 DEF Bearing
      <3>2. db[k] # Nothing
        BY <3>1 DEF Bears
      <3> QED BY <2>1, <3>1, <3>2
    <2>2. CASE k # key0
      <3>1. stored2[k] = stored[k]
        BY <1>1, <1>2, <2>2
      <3> QED BY <1>2, <2>2, <3>1
    <2> QED BY <2>1, <2>2
  <1> QED BY <1>2, SafeStays

LEMMA FlushKept ==
    ASSUME TakeTurns, TypeInv, HandsInv, NEW key0 \in Keys, Flush(key0), KeptInv
    PROVE  KeptInv'
  <1>1. /\ view' = view /\ UNCHANGED <<kept, forgone>> /\ crashes' = crashes /\ disk'[key0] = view[key0]
        /\ \A k \in Keys : k # key0 => disk'[k] = disk[k]
        /\ Promised' = Promised
    <2>1. DOMAIN disk = Keys
      BY DEF TypeInv, IsDatabase
    <2> QED BY <2>1, SamePromises DEF Flush
  <1>2. \A t \in Tasks :
          /\ task'[t].pc = task[t].pc /\ task'[t].op = task[t].op /\ task'[t].pad = task[t].pad
          /\ task'[t].dst = task[t].dst /\ task'[t].held = task[t].held
          /\ task'[t].n = task[t].n /\ task'[t].records = task[t].records
          /\ task'[t].awaits = task[t].awaits \ {key0}
    BY FlushIs
  <1>3. KeptType' /\ crashes' \in Nat
    BY <1>1 DEF KeptInv, KeptType
  <1>4. \A t \in Tasks : \A k \in Keys :
          view[k] = disk[k] \/ k \in task[t].awaits => view'[k] = disk'[k] \/ k \in task'[t].awaits
    BY <1>1, <1>2
  <1>5. AwaitsOwn'
    BY <1>2 DEF KeptInv, AwaitsOwn, Uses
  <1>6. NothingForgotten'
    <2> SUFFICES ASSUME NEW k \in Keys, view'[k] # disk'[k]
                 PROVE  \/ \E t \in Tasks : k \in task'[t].awaits
                        \/ \E p \in Pads : Exists(p)' /\ k \in RecordKeys(p, view'[PadKey(p)])
      BY DEF NothingForgotten
    <2>1. k # key0 /\ view[k] # disk[k]
      BY <1>1
    <2>2. CASE \E t \in Tasks : k \in task[t].awaits
      BY <1>2, <2>1, <2>2
    <2>3. CASE \E p \in Pads : Exists(p) /\ k \in RecordKeys(p, view[PadKey(p)])
      BY <1>1, <2>3 DEF Exists
    <2> QED BY <2>1, <2>2, <2>3 DEF KeptInv, NothingForgotten
  <1>7. DeletedAwaited'
    <2> SUFFICES ASSUME NEW t \in Tasks, task'[t].pc = "head",
                        NEW k \in RevKeys(task'[t].pad, task'[t].n + KeepRevisions)
                 PROVE  view'[k] = disk'[k] \/ k \in task'[t].awaits
      BY DEF DeletedAwaited
    <2>1. task[t].pc = "head" /\ k \in RevKeys(task[t].pad, task[t].n + KeepRevisions)
      BY <1>2
    <2>2. k \in Keys
      BY <2>1, DeletedKeys, KeysInside
    <2> QED BY <1>4, <2>1, <2>2 DEF KeptInv, DeletedAwaited
  <1>8. CopyAwaited'
    <2> SUFFICES ASSUME NEW t \in Tasks, Replacing(task'[t])
                 PROVE  /\ Promised'[task'[t].dst] = {}
                        /\ \A k \in KeysOf(task'[t].dst) : view'[k] = disk'[k] \/ k \in task'[t].awaits
      BY DEF CopyAwaited
    <2>1. Replacing(task[t])
      BY <1>2 DEF Replacing
    <2>2. \A k \in KeysOf(task[t].dst) : k \in Keys
      BY <2>1, ReplacingHas, KeysInside
    <2> QED BY <1>1, <1>2, <1>4, <2>1, <2>2 DEF KeptInv, CopyAwaited
  <1>9. KeptSafe'
    <2> SUFFICES ASSUME NEW p \in Pads PROVE KeptSafeOf(p)'
      BY DEF KeptSafe
    <2>1. KeptSafeOf(p)
      BY DEF KeptInv, KeptSafe
    <2>2. Compacting(p) => Compacting(p)'
      BY <1>2 DEF Compacting
    <2>3. PadKey(p) \in Keys /\ \A k \in KeysOf(p) : k \in Keys
      BY KeysInside
    <2>4. Promised'[p] # {} => Exists(p)' /\ disk'[PadKey(p)] # Nothing
      BY <1>1, <2>1, <2>3 DEF KeptSafeOf, Exists
    <2>5. ASSUME NEW e \in Promised'[p], ~Compacting(p)' PROVE Safe(view', disk', p, e, {})
      <3>1. Safe(view, disk, p, e, {})
        BY <1>1, <2>1, <2>2, <2>5 DEF KeptSafeOf
      <3>2. /\ \A k \in KeysOf(p) : k # key0 => disk'[k] = disk[k]
            /\ disk'[key0] = view[key0]
        BY <1>1, <2>3
      <3>3. Safe(view, disk', p, e, {})
        BY ZenonT(60), <3>1, <3>2, FlushSafe
      <3> QED BY <1>1, <3>3
    <2> QED BY <2>4, <2>5 DEF KeptSafeOf
  <1>10. ASSUME NEW t \in Tasks
         PROVE  EditSafe(t)' /\ PlanSafe(t)' /\ (task'[t].pc = "unload" => task'[t].records = {})
    <2> DEFINE p == task[t].pad
               s == task[t]
               new == task'[t]
    <2>1. EditSafe(t) /\ PlanSafe(t) /\ (task[t].pc = "unload" => task[t].records = {})
      BY DEF KeptInv, AnsweredSafe
    <2>2. ASSUME s.pc = "write", s.op \in {"append", "chat"}
          PROVE  Safe(view', disk', p, s.n, new.awaits)
      <3>1. Busy(t) /\ p \in Pads
        BY <2>2, AlonePads DEF Busy
      <3>2. Safe(view, disk, p, s.n, s.awaits)
        BY <2>1, <2>2 DEF EditSafe
      <3>3. /\ \A k \in KeysOf(p) : k # key0 => disk'[k] = disk[k]
            /\ s.awaits \ {key0} \subseteq new.awaits
        BY <1>1, <1>2, <3>1, KeysInside
      <3> HIDE DEF p, s, new
      <3>4. Safe(view, disk', p, s.n, new.awaits)
        BY SMTT(30), <1>1, <3>1, <3>2, <3>3, FlushSafe
      <3> QED BY <1>1, <3>4
    <2>3. ASSUME s.pc \in {"delete", "head", "revs", "unload"}, NEW e \in Promised[p]
          PROVE  Safe(Compacted(new, view'), disk', p, e, Unwritten(new))
      <3>1. p \in Pads /\ \A r1, r2 \in s.records : r1[1] = r2[1] => r1 = r2
        BY <2>3, CompactingPad DEF InHand
      <3>2. Safe(Compacted(s, view), disk, p, e, Unwritten(s))
        BY <2>1, <2>3 DEF PlanSafe
      <3>3. /\ new.pc = s.pc /\ new.pad = s.pad /\ new.n = s.n /\ new.records = s.records
            /\ new.awaits = s.awaits \ {key0}
        BY <1>2
      <3>4. \A k \in KeysOf(p) : k # key0 => disk'[k] = disk[k]
        BY <1>1, <3>1, KeysInside
      <3> HIDE DEF s, new, p
      <3>5. Compacted(new, view') = Compacted(s, view)
        BY <1>1, <3>3 DEF Compacted
      <3>6. Unwritten(s) \ {key0} \subseteq Unwritten(new)
        BY <3>3 DEF Unwritten
      <3> DEFINE db == Compacted(s, view)
      <3>7. db[key0] = Nothing \/ db[key0] = disk'[key0] \/ key0 \in Unwritten(new)
        <4>1. CASE (\E r \in s.records : r[1] = key0) \/ (s.pc \in {"delete", "head"} /\ key0 = PadKey(s.pad))
          BY <3>3, <4>1 DEF Unwritten
        <4>2. CASE ~(\E r \in s.records : r[1] = key0) /\ ~(s.pc \in {"delete", "head"} /\ key0 = PadKey(s.pad))
          <5>1. db[key0] = Nothing \/ db[key0] = view[key0]
            BY <3>1, <4>2, CompactedIs
          <5> QED BY <1>1, <5>1
        <4> QED BY <4>1, <4>2
      <3> HIDE DEF db
      <3>8. Safe(db, disk', p, e, Unwritten(new))
        <4> DEFINE W == Unwritten(s)
                   W2 == Unwritten(new)
        <4>1. Safe(db, disk, p, e, W)
          BY <3>2 DEF db
        <4>2. W \ {key0} \subseteq W2 /\ (db[key0] = Nothing \/ db[key0] = disk'[key0] \/ key0 \in W2)
          BY <3>6, <3>7
        <4> HIDE DEF W, W2
        <4>3. Safe(db, disk', p, e, W2)
          BY <3>1, <3>4, <4>1, <4>2, FlushSafe
        <4> QED BY <4>3 DEF W2
      <3> QED BY <3>5, <3>8 DEF db
    <2> QED BY <1>1, <1>2, <2>1, <2>2, <2>3 DEF EditSafe, PlanSafe
  <1> QED BY <1>3, <1>5, <1>6, <1>7, <1>8, <1>9, <1>10 DEF KeptInv, AnsweredSafe

LEMMA CrashKept ==
    ASSUME Crash, KeptInv
    PROVE  KeptInv'
  <1>1. /\ view' = disk /\ disk' = disk /\ UNCHANGED <<kept, forgone>> /\ crashes' = crashes + 1
        /\ \A t \in Tasks : task'[t] = Idle
        /\ \A p \in Pads : ~Compacting(p)
        /\ Promised' = Promised
    BY SamePromises DEF Crash
  <1>2. Idle.awaits = {} /\ Idle.pc = "idle" /\ Idle.op = "none"
    BY DEF Idle
  <1>3. KeptType' /\ crashes' \in Nat
    BY <1>1 DEF KeptInv, KeptType
  <1>4. AwaitsOwn' /\ NothingForgotten' /\ DeletedAwaited'
    BY <1>1, <1>2 DEF AwaitsOwn, NothingForgotten, DeletedAwaited
  <1>5. CopyAwaited'
    BY <1>1, <1>2 DEF CopyAwaited, Replacing, Copies
  <1>6. AnsweredSafe'
    BY <1>1, <1>2 DEF AnsweredSafe, EditSafe, PlanSafe
  <1>7. KeptSafe'
    <2> SUFFICES ASSUME NEW p \in Pads PROVE KeptSafeOf(p)'
      BY DEF KeptSafe
    <2>1. KeptSafeOf(p) /\ ~Compacting(p)
      BY <1>1 DEF KeptInv, KeptSafe
    <2>2. ASSUME NEW e \in Promised[p] PROVE Safe(disk, disk, p, e, {})
      <3>1. Safe(view, disk, p, e, {})
        BY <2>1, <2>2 DEF KeptSafeOf
      <3> QED BY <3>1, SafeOnDisk
    <2> QED BY <1>1, <2>1, <2>2 DEF KeptSafeOf, Exists
  <1> QED BY <1>3, <1>4, <1>5, <1>6, <1>7 DEF KeptInv

LEMMA InitKept ==
    ASSUME Init
    PROVE  KeptInv
  <1>1. /\ disk = view /\ crashes = 0 /\ \A t \in Tasks : task[t] = Idle
        /\ Promised = [p \in Pads |-> IF p = Stored THEN {0, 1} ELSE {}]
    BY DEF Init, Promised
  <1>2. Idle.awaits = {} /\ Idle.pc = "idle" /\ Idle.op = "none"
    BY DEF Idle
  <1>3. KeptType /\ crashes \in Nat
    BY DEF Init, KeptType
  <1>4. AwaitsOwn /\ NothingForgotten /\ DeletedAwaited
    BY <1>1, <1>2 DEF AwaitsOwn, NothingForgotten, DeletedAwaited
  <1>5. CopyAwaited
    BY <1>1, <1>2 DEF CopyAwaited, Replacing, Copies
  <1>6. AnsweredSafe
    BY <1>1, <1>2 DEF AnsweredSafe, EditSafe, PlanSafe
  <1>7. KeptSafe
    <2> DEFINE pad == view[PadKey(Stored)]
    <2>1. /\ pad # Nothing /\ pad.head = 1 /\ pad.text = <<0, 1>>
      <3>1. TypeInv /\ pad = [head |-> 1, chatHead |-> -1, saved |-> {}, text |-> <<0, 1>>]
            /\ 1 \in 0 .. MaxHead /\ <<0, 1>> \in Texts
        BY InitInv, InitialRecords, Constants
      <3>2. pad \in PadIn(MaxCalls)
        BY <3>1, Constants DEF PadIn
      <3> QED BY <3>1, <3>2, PadsAreRecords
    <2>2. ASSUME NEW e \in {0, 1} PROVE Safe(view, disk, Stored, e, {})
      <3> DEFINE key == RevKey(Stored, e)
                 rec == view[key]
      <3>1. rec = Revision(e, <<e>>, IF e = 0 THEN <<0>> ELSE <<0, 1>>)
        BY InitialRecords
      <3>2. rec # Nothing /\ rec.changeset = <<e>>
        <4>1. \A text \in Texts : Revision(e, <<e>>, text) # Nothing /\ Revision(e, <<e>>, text).changeset = <<e>>
          BY InitialRecords, RevisionTyped, PadsAreRecords
        <4> QED BY <3>1, <4>1, InitialRecords
      <3>3. e \in ToSet(<<e>>) /\ e \in ToSet(<<0, 1>>)
        <4>1. e = <<e>>[1] /\ 1 \in DOMAIN <<e>>
          OBVIOUS
        <4>2. e = <<0, 1>>[e + 1] /\ e + 1 \in DOMAIN <<0, 1>>
          OBVIOUS
        <4> QED BY <4>1, <4>2 DEF ToSet
      <3>4. key \in KeysOf(Stored) \ {PadKey(Stored)} /\ key[1] = "revs" /\ key[3] = e
        BY OtherKeys, KeyParts, Constants
      <3>5. \A k : Bears(k, e, RevKey(Stored, e), rec)
        <4> HIDE DEF rec
        <4> QED BY <3>2, <3>3, BearsIs
      <3> HIDE DEF key, pad
      <3>6. Bears(key, e, PadKey(Stored), pad)
        BY <2>1, <3>3, <3>4, BearsIs
      <3>7. Bearing(view, Stored, key, e)
        BY <3>5, <3>6 DEF Bearing, key, pad
      <3> QED BY <1>1, <3>4, <3>7, SafeOnDisk
    <2> QED BY <1>1, <2>1, <2>2 DEF KeptSafe, KeptSafeOf, Exists
  <1> QED BY <1>3, <1>4, <1>5, <1>6, <1>7 DEF KeptInv

LEMMA TaskKept ==
    ASSUME TakeTurns, TypeInv, HandsInv, NEW t \in Tasks, TaskStep(t), KeptInv
    PROVE  KeptInv'
  <1>1. crashes' \in Nat
    BY NoCrash DEF KeptInv
  <1>2. KeptType' /\ AwaitsOwn' /\ NothingForgotten' /\ DeletedAwaited'
    BY StepKept, StepAwaitsOwn, StepForgets, StepDeleted DEF KeptInv
  <1>3. CopyAwaited' /\ KeptSafe' /\ AnsweredSafe'
    BY StepCopyAwaited, StepKeptSafe, StepAnswered DEF KeptInv
  <1> QED BY <1>1, <1>2, <1>3 DEF KeptInv

LEMMA SameKept ==
    ASSUME UNCHANGED vars, KeptInv
    PROVE  KeptInv'
  <1>1. /\ view' = view /\ disk' = disk /\ task' = task /\ UNCHANGED <<kept, forgone>> /\ crashes' = crashes
        /\ Promised' = Promised
    BY SamePromises DEF vars
  <1>2. AwaitsOwn' /\ NothingForgotten' /\ DeletedAwaited' /\ CopyAwaited'
    BY <1>1 DEF KeptInv, AwaitsOwn, NothingForgotten, DeletedAwaited, CopyAwaited, Uses, Exists
  <1>3. KeptSafe' /\ AnsweredSafe'
    BY <1>1 DEF KeptInv, KeptSafe, KeptSafeOf, AnsweredSafe, EditSafe, PlanSafe, Exists, Compacting
  <1> QED BY <1>1, <1>2, <1>3 DEF KeptInv, KeptType

LEMMA AlwaysKept == TakeTurns /\ Spec => [](TypeInv /\ HandsInv /\ KeptInv)
  <1> DEFINE Inv == TypeInv /\ HandsInv /\ KeptInv
  <1>1. Init => Inv
    BY InitInv, InitKept
  <1>2. TakeTurns /\ Inv /\ [Next]_vars => Inv'
    <2> SUFFICES ASSUME TakeTurns, Inv, [Next]_vars PROVE Inv'
      OBVIOUS
    <2>1. TypeInv' /\ HandsInv'
      BY NextHands
    <2>2. CASE \E t \in Tasks : TaskStep(t)
      BY <2>1, <2>2, TaskKept
    <2>3. CASE \E k \in Keys : Flush(k)
      BY <2>1, <2>3, FlushKept
    <2>4. CASE Crash
      BY <2>1, <2>4, CrashKept
    <2>5. CASE UNCHANGED vars
      BY <2>1, <2>5, SameKept
    <2> QED BY <2>2, <2>3, <2>4, <2>5 DEF Next
  <1> HIDE DEF Inv
  <1>3. TakeTurns => TakeTurns'
    BY DEF TakeTurns
  <1>4. TakeTurns /\ Spec => []Inv
    BY <1>1, <1>2, <1>3, PTL DEF Spec
  <1> QED BY <1>4, PTL DEF Inv

\* What a call has been answered for outlives a crash: the edit or the message of a
\* call that has returned, and what a copy holds, are on the disk, in records of
\* their own and in the pad's, whichever records the crash has lost; only while a
\* compaction rewrites a pad are its records not all there (Pad.ts, appendRevision,
\* appendChatMessage and copy; Cleanup.ts, deleteRevisions).  Not so what a pad had
\* when its whole history was compacted (Cleanup.ts, deleteAllRevisions).
THEOREM AnswersOutliveCrashes == TakeTurns /\ Spec => []AcknowledgedKept
  <1>1. TypeInv /\ HandsInv /\ KeptInv => AcknowledgedKept
    <2> SUFFICES ASSUME TypeInv, KeptInv, NEW p \in Pads, Promised[p] # {}
                 PROVE  LET pad == disk[PadKey(p)] IN
                        pad # Nothing /\ (Compacting(p) \/ Promised[p] \subseteq Holds(disk, p, pad))
      BY DEF AcknowledgedKept, Promised
    <2>1. KeptSafeOf(p) /\ disk[PadKey(p)] # Nothing
      BY DEF KeptInv, KeptSafe, KeptSafeOf
    <2>2. ASSUME ~Compacting(p), NEW e \in Promised[p] PROVE e \in Holds(disk, p, disk[PadKey(p)])
      <3>1. Safe(view, disk, p, e, {})
        BY <2>1, <2>2 DEF KeptSafeOf
      <3>2. \E key \in KeysOf(p) \ {PadKey(p)} : Bearing(disk, p, key, e)
        BY <3>1, SafeOnDisk
      <3>3. e # Nothing
        BY <2>2, Constants DEF KeptInv, KeptType, Promised
      <3>4. ChatRoom \in Int /\ ChatRoom <= MaxCalls /\ IsDatabase(ChatRoom, disk)
        BY RoomBounded, Constants DEF TypeInv
      <3> DEFINE room == ChatRoom
      <3> HIDE DEF room
      <3>5. room \in Int /\ room <= MaxCalls /\ IsDatabase(room, disk)
        BY <3>4 DEF room
      <3> QED BY <2>1, <3>2, <3>3, <3>5, HoldsIs
    <2> QED BY <2>1, <2>2
  <1> QED BY <1>1, AlwaysKept, PTL
=============================================================================

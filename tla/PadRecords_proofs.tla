--------------------------- MODULE PadRecords_proofs ---------------------------
(***************************************************************************)
(* Pads and their records, when calls that need a pad for themselves have  *)
(* it: for any tasks, pads and calls, the cached pad is the stored one, a  *)
(* pad passes its own check, and nothing is left of a removed one.         *)
(***************************************************************************)
EXTENDS PadRecords, FiniteSetTheorems, SequenceTheorems, WellFoundedInduction, TLAPS

\* Calls that need a pad for themselves have it, and messages may arrive while a
\* pad is copied if no pad is longer than a batch.
TakeTurns ==
    /\ Overlaps \subseteq {"chat"}
    /\ "chat" \in Overlaps => MaxHead + 2 < CopyBatch

-----------------------------------------------------------------------------
(* Types. *)

\* Calls on a way that ends in a message.
Chatting == {t \in Tasks : task[t].op = "chat" /\ task[t].pc \in {"getPad", "init", "padLoad", "run"}}

\* No pad has more messages than there have been calls.
ChatRoom == calls - 2 - Cardinality(Chatting)
PadIn(room) == [head : -1 .. MaxHead, chatHead : -1 .. room, saved : SUBSET (0 .. MaxHead), text : Texts]

\* What the record of a key may be.
IsRecord(room, k, rec) ==
    \/ rec = Nothing
    \/ k[1] = "pad" /\ rec \in PadIn(room) /\ rec.head >= 0
    \/ k[1] = "revs" /\ rec \in RevisionRecord(k[3])
    \/ k[1] = "chat" /\ rec \in 0 .. MaxCalls

IsDatabase(room, db) == DOMAIN db = Keys /\ \A k \in Keys : IsRecord(room, k, db[k])

PlainOps == {"open", "append", "chat", "save", "remove"}
CopyOps  == Copies \cup Snapshots
Loading  == {"getPad", "init", "padLoad"}

AnyRecord == {Nothing} \cup Nat \cup PadRecord \cup [changeset : Texts, atext : Texts \cup {Nothing}]

TaskType ==
    [pc : {"idle", "run", "write", "clear", "read", "records", "second", "delete", "head", "revs", "unload"}
              \cup Loading,
     op : {"none", "compact"} \cup PlainOps \cup CopyOps,
     pad : Pads \cup {Nothing}, dst : Pads \cup {Nothing},
     held : Nat \cup {Nothing}, obj : Nat \cup {Nothing},
     awaits : SUBSET Keys, n : Nat, records : SUBSET (Keys \X AnyRecord), from : Texts]

TypeInv ==
    /\ ChatRoom \in Int /\ -1 <= ChatRoom /\ calls \in 1 .. MaxCalls
    /\ IsDatabase(ChatRoom, view) /\ IsDatabase(ChatRoom, disk)
    /\ IsFiniteSet(DOMAIN mem) /\ DOMAIN mem \subseteq Nat
    /\ \A o \in DOMAIN mem : mem[o] \in PadIn(ChatRoom)
    /\ cache \in [Pads -> DOMAIN mem \cup {Nothing}]
    /\ task \in [Tasks -> TaskType]
    /\ \A t \in Tasks :
         /\ {task[t].held, task[t].obj} \subseteq DOMAIN mem \cup {Nothing}
         /\ task[t].op \in {"append", "chat"} => task[t].n <= MaxCalls
         /\ \A r \in task[t].records : IsRecord(ChatRoom, r[1], r[2])

-----------------------------------------------------------------------------
(* What a task has in hand. *)

\* Which fields are in use where.
Shape(s) ==
    /\ s.pc = "idle" => s = Idle
    /\ s.pc # "idle" => s.pad \in Pads /\ s.op # "none"
    /\ s.op \in CopyOps => s.dst \in Pads \ {s.pad}
    /\ s.op \in PlainOps => s.dst = Nothing
    /\ s.op = "compact" =>
         s.dst = IF s.pc = "second" \/ (s.pc \in Loading /\ s.held # Nothing) THEN s.pad ELSE Nothing
    /\ s.held = Nothing => s.pc \in Loading \cup {"idle"}
    /\ s.held # Nothing /\ s.pc \in Loading \cup {"second"} => s.op \in CopyOps \cup {"compact"}
    /\ (s.obj # Nothing) = (s.pc \in {"init", "padLoad", "second"})
    /\ s.pc = "write" => s.op \in {"append", "chat", "save", "remove", "compact"}
    /\ s.pc = "clear" => s.op \in CopyOps
    /\ s.pc \in {"read", "records"} => s.op \in Copies
    /\ s.pc \in {"delete", "head", "revs", "unload"} => s.op = "compact"

AloneOf(t) == Alone(task[t].op, task[t].pad, task[t].dst)

TurnsTaken ==
    \A t, u \in Tasks : t # u /\ Busy(t) /\ Busy(u) => AloneOf(t) \cap Uses(u) = {}

\* A task works with the cached object of its pad, unless it has removed or rewritten it.
HasPad(s) == s.held # Nothing /\ ~(s.op = "remove" /\ s.pc = "write") /\ ~(s.op = "compact" /\ s.dst # Nothing)

Reading(s) == s.pc \in {"read", "records"} \/ (s.pc = "getPad" /\ s.held # Nothing)

\* A pad as it is made for a snapshot.
Blank == [head |-> 0, chatHead |-> -1, saved |-> {}, text |-> <<>>]

\* What a copy will have made of the database, when its last record is written.
Planned(s, db) ==
    [k \in Keys |-> IF \E r \in s.records : r[1] = k
                    THEN (CHOOSE r \in s.records : r[1] = k)[2] ELSE db[k]]

InHand(t) ==
    LET s == task[t]
        dst == PadKey(s.dst)
        target == PadKey(Target(t)) IN
    /\ HasPad(s) => cache[s.pad] = s.held
    /\ s.pc \in {"init", "padLoad"} => cache[Target(t)] = Nothing
    /\ Reading(s) => cache[s.dst] = Nothing
    /\ s.pc = "read" => view[dst] = Nothing
    /\ s.pc \in {"getPad", "init"} /\ s.held # Nothing =>
         (view[dst] = Nothing <=> s.op \in Snapshots)
    /\ s.pc = "records" => Planned(s, view)[dst] # Nothing
    /\ s.pc = "records" => \A r \in s.records : r[1] \in KeysOf(s.dst)
    /\ s.pc = "padLoad" => view[target] # Nothing /\ mem[s.obj] = view[target]
    /\ s.pc = "second" => cache[s.dst] = s.obj
    /\ s.pc \in {"padLoad", "second"} /\ s.held # Nothing /\ s.op \in Snapshots => mem[s.obj] = Blank
    /\ s.pc \in {"delete", "head"} => s.n >= 1 /\ mem[s.held].head = s.n + KeepRevisions
    /\ s.pc \in {"delete", "head", "revs"} =>
         KeepRevisions <= MaxHead /\ \A r \in s.records : r[1] \in RevKeys(s.pad, KeepRevisions)
    /\ s.pc \in {"revs", "unload"} => view[PadKey(s.pad)] # Nothing
    /\ \A r1, r2 \in s.records : r1[1] = r2[1] => r1 = r2

\* An object that is being loaded is known to nobody else.
Private ==
    \A t \in Tasks : task[t].pc \in {"init", "padLoad"} =>
        /\ \A p \in Pads : cache[p] # task[t].obj
        /\ \A u \in Tasks : task[u].held # task[t].obj
        /\ \A u \in Tasks \ {t} : task[u].obj # task[t].obj

OneObjectPerPad == \A p, q \in Pads : cache[p] = cache[q] /\ cache[p] # Nothing => p = q

Rewritten(p) == \E t \in Tasks :
    task[t].op = "compact" /\ task[t].pad = p /\ task[t].pc \in {"revs", "unload"}

CacheIsStored == \A p \in Pads :
    cache[p] # Nothing /\ ~Rewritten(p) => mem[cache[p]] = view[PadKey(p)]

HandsInv ==
    /\ \A t \in Tasks : Shape(task[t]) /\ (Busy(t) => InHand(t))
    /\ TurnsTaken /\ Private /\ OneObjectPerPad /\ CacheIsStored

-----------------------------------------------------------------------------
(* What is in the database. *)

\* The records of a pad with these heads and this text, and no other.
Whole(db, p, pad) ==
    /\ pad.saved \subseteq 0 .. pad.head
    /\ pad.text = Composed(db, p, pad.head)
    /\ \A r \in 0 .. MaxHead : db[RevKey(p, r)] # Nothing <=> r <= pad.head
    /\ \A r \in 0 .. pad.head : IsKeyRevision(r) => db[RevKey(p, r)].atext = Composed(db, p, r)
    /\ \A n \in 0 .. MaxCalls : db[ChatKey(p, n)] # Nothing <=> n <= pad.chatHead

PadOf(db, p) == IF db[PadKey(p)] = Nothing THEN NewPad ELSE db[PadKey(p)]
Exact(db, p) == Whole(db, p, PadOf(db, p))

\* What compact will have made of its pad.
Shortened(pad, until) == [pad EXCEPT !.head = KeepRevisions, !.saved = Renumbered(@, until)]
Compacted(s, db) ==
    [k \in Keys |->
        IF \E r \in s.records : r[1] = k THEN (CHOOSE r \in s.records : r[1] = k)[2]
        ELSE IF s.pc \in {"delete", "head"} /\ k = PadKey(s.pad) THEN Shortened(db[k], s.n)
        ELSE IF s.pc = "delete" /\ k \in RevKeys(s.pad, s.n + KeepRevisions) THEN Nothing
        ELSE db[k]]

\* The pad that a task has written in part.
Half(s) == (IF s.pc = "records" THEN {s.dst} ELSE {}) \cup (IF s.pc \in {"head", "revs"} THEN {s.pad} ELSE {})

RecordsInv ==
    crashes = 0 =>
        /\ \A p \in Pads : (\A t \in Tasks : p \notin Half(task[t])) => Exact(view, p)
        /\ \A t \in Tasks : task[t].pc = "records" => Exact(Planned(task[t], view), task[t].dst)
        /\ \A t \in Tasks : task[t].pc \in {"delete", "head", "revs"} =>
             Exact(Compacted(task[t], view), task[t].pad)

-----------------------------------------------------------------------------
(* Constants, keys and records. *)

LEMMA Constants ==
    /\ MaxHead \in Nat \ {0} /\ MaxCalls \in Nat \ {0} /\ KeepRevisions \in Nat
    /\ KeyInterval \in Nat \ {0} /\ IsFiniteSet(Tasks) /\ Stored \in Pads
    /\ Nothing \notin Pads /\ Nothing \notin Nat /\ CopyBatch \in Nat
  BY RecordsAssumption

LEMMA KeyParts ==
    ASSUME NEW p
    PROVE  /\ PadKey(p)[1] = "pad" /\ PadKey(p)[2] = p
           /\ \A r : RevKey(p, r)[1] = "revs" /\ RevKey(p, r)[2] = p /\ RevKey(p, r)[3] = r
           /\ \A n : ChatKey(p, n)[1] = "chat" /\ ChatKey(p, n)[2] = p /\ ChatKey(p, n)[3] = n
  BY DEF PadKey, RevKey, ChatKey

LEMMA KeysInside ==
    ASSUME NEW p \in Pads
    PROVE  /\ PadKey(p) \in KeysOf(p) /\ KeysOf(p) \subseteq Keys
           /\ \A r \in 0 .. MaxHead : RevKey(p, r) \in KeysOf(p)
           /\ \A n \in 0 .. MaxCalls : ChatKey(p, n) \in KeysOf(p)
           /\ \A k \in KeysOf(p) : k[2] = p
  <1>1. KeysOf(p) \subseteq Keys
    BY DEF Keys
  <1>2. \A k \in KeysOf(p) : k[2] = p
    BY DEF KeysOf, PadKey, RevKeys, RevKey, ChatKeys, ChatKey
  <1> QED BY <1>1, <1>2 DEF KeysOf, RevKeys, ChatKeys

\* Each key belongs to one pad.
LEMMA KeysApart ==
    ASSUME NEW k \in Keys
    PROVE  /\ k[2] \in Pads /\ k \in KeysOf(k[2])
           /\ \A p \in Pads : k \in KeysOf(p) => p = k[2]
           /\ k = PadKey(k[2]) \/ (\E r \in 0 .. MaxHead : k = RevKey(k[2], r))
                \/ (\E n \in 0 .. MaxCalls : k = ChatKey(k[2], n))
  <1>1. PICK p \in Pads : k \in KeysOf(p)
    BY DEF Keys
  <1>2. p = k[2]
    BY <1>1, KeysInside
  <1>3. k = PadKey(p) \/ (\E r \in 0 .. MaxHead : k = RevKey(p, r))
          \/ (\E n \in 0 .. MaxCalls : k = ChatKey(p, n))
    BY <1>1 DEF KeysOf, RevKeys, ChatKeys
  <1> QED BY <1>1, <1>2, <1>3, KeysInside

\* The record of each kind of key.
LEMMA RecordKinds ==
    ASSUME NEW room, NEW rec
    PROVE  /\ \A p : IsRecord(room, PadKey(p), rec) <=> rec = Nothing \/ (rec \in PadIn(room) /\ rec.head >= 0)
           /\ \A p, r : IsRecord(room, RevKey(p, r), rec) <=> rec = Nothing \/ rec \in RevisionRecord(r)
           /\ \A p, n : IsRecord(room, ChatKey(p, n), rec) <=> rec = Nothing \/ rec \in 0 .. MaxCalls
  <1>1. ASSUME NEW p PROVE IsRecord(room, PadKey(p), rec) <=> rec = Nothing \/ (rec \in PadIn(room) /\ rec.head >= 0)
    BY KeyParts DEF IsRecord
  <1>2. ASSUME NEW p, NEW r
        PROVE IsRecord(room, RevKey(p, r), rec) <=> rec = Nothing \/ rec \in RevisionRecord(r)
    <2>1. RevKey(p, r)[1] = "revs" /\ RevKey(p, r)[3] = r
      BY KeyParts
    <2> QED BY <2>1 DEF IsRecord
  <1>3. ASSUME NEW p, NEW n
        PROVE IsRecord(room, ChatKey(p, n), rec) <=> rec = Nothing \/ rec \in 0 .. MaxCalls
    <2>1. ChatKey(p, n)[1] = "chat"
      BY KeyParts
    <2> QED BY <2>1 DEF IsRecord
  <1> QED BY <1>1, <1>2, <1>3

\* Room for messages may grow.
LEMMA RoomGrows ==
    ASSUME NEW room \in Int, NEW more \in Int, room <= more
    PROVE  /\ PadIn(room) \subseteq PadIn(more)
           /\ \A k, rec : IsRecord(room, k, rec) => IsRecord(more, k, rec)
           /\ \A db : IsDatabase(room, db) => IsDatabase(more, db)
  <1>1. -1 .. room \subseteq -1 .. more
    OBVIOUS
  <1>2. PadIn(room) \subseteq PadIn(more)
    BY <1>1 DEF PadIn
  <1>3. \A k, rec : IsRecord(room, k, rec) => IsRecord(more, k, rec)
    BY <1>2 DEF IsRecord
  <1> QED BY <1>2, <1>3 DEF IsDatabase

LEMMA PadsAreRecords ==
    ASSUME NEW room
    PROVE  /\ Nothing \notin PadIn(room)
           /\ \A r \in Nat : Nothing \notin RevisionRecord(r)
  <1>0. /\ Nothing \notin [head : Int, chatHead : Int, saved : SUBSET Nat, text : Seq(Nat)]
        /\ Nothing \notin [changeset : Seq(Nat), atext : Seq(Nat) \cup {Nothing}]
    BY RecordsAssumption
  <1>1. Texts \subseteq Seq(Nat)
    BY Constants DEF Texts
  <1>2. PadIn(room) \subseteq [head : Int, chatHead : Int, saved : SUBSET Nat, text : Seq(Nat)]
    <2>1. -1 .. MaxHead \subseteq Int /\ -1 .. room \subseteq Int /\ SUBSET (0 .. MaxHead) \subseteq SUBSET Nat
      BY Constants
    <2> QED BY <1>1, <2>1 DEF PadIn
  <1>3. \A r \in Nat : RevisionRecord(r) \subseteq [changeset : Seq(Nat), atext : Seq(Nat) \cup {Nothing}]
    BY <1>1 DEF RevisionRecord
  <1> QED BY <1>0, <1>2, <1>3


-----------------------------------------------------------------------------
(* Texts. What FlattenSeq makes of a longer sequence takes an induction,   *)
(* here by a least counterexample.                                         *)

LEMMA Least ==
    ASSUME NEW S \in SUBSET Nat, S # {}
    PROVE  \E m \in S : \A n \in S : m <= n
  <1> DEFINE R == OpToRel(<, Nat)
  <1>1. \A x, y \in Nat : <<x, y>> \in R <=> x < y
    BY DEF OpToRel
  <1>2. IsWellFoundedOn(R, Nat)
    BY NatLessThanWellFounded
  <1> HIDE DEF R
  <1>3. PICK m \in S : \A y \in S : <<y, m>> \notin R
    BY <1>2, WFMin
  <1>4. \A y \in S : ~(y < m)
    BY <1>1, <1>3
  <1> QED BY <1>4

\* The recursive function by which FlattenSeq is defined.
Flattens(g, s, n) == g = [i \in 1 .. n |-> IF i = 1 THEN s[i] ELSE g[i - 1] \o s[i]]

LEMMA FlattensUnfold ==
    ASSUME NEW g, NEW s, NEW n \in Nat, Flattens(g, s, n), NEW i \in 1 .. n
    PROVE  g[i] = IF i = 1 THEN s[i] ELSE g[i - 1] \o s[i]
  <1> DEFINE h == [j \in 1 .. n |-> IF j = 1 THEN s[j] ELSE g[j - 1] \o s[j]]
  <1>1. h[i] = IF i = 1 THEN s[i] ELSE g[i - 1] \o s[i]
    OBVIOUS
  <1>2. g = h
    BY DEF Flattens
  <1> HIDE DEF h
  <1> QED BY <1>1, <1>2

\* Sequences that begin alike are flattened alike.
LEMMA FlattensAlike ==
    ASSUME NEW g, NEW h, NEW s, NEW t, NEW m \in Nat, NEW n \in Nat, m <= n,
           Flattens(g, s, m), Flattens(h, t, n), \A i \in 1 .. m : s[i] = t[i]
    PROVE  \A i \in 1 .. m : g[i] = h[i]
  <1> DEFINE Bad == {i \in 1 .. m : g[i] # h[i]}
  <1>1. SUFFICES ASSUME Bad # {} PROVE FALSE
    OBVIOUS
  <1>2. Bad \in SUBSET Nat
    OBVIOUS
  <1>3. PICK i \in Bad : \A j \in Bad : i <= j
    BY <1>1, <1>2, Least
  <1>4. i \in 1 .. m /\ i \in 1 .. n /\ g[i] # h[i] /\ s[i] = t[i]
    BY <1>3
  <1>5. /\ g[i] = IF i = 1 THEN s[i] ELSE g[i - 1] \o s[i]
        /\ h[i] = IF i = 1 THEN t[i] ELSE h[i - 1] \o t[i]
    BY <1>4, FlattensUnfold
  <1>6. i # 1 => i - 1 \in 1 .. m /\ i - 1 \notin Bad
    BY <1>3, <1>4
  <1> QED BY <1>4, <1>5, <1>6

LEMMA FlattensSeq ==
    ASSUME NEW T, NEW n \in Nat, NEW s, \A i \in 1 .. n : s[i] \in Seq(T), NEW g, Flattens(g, s, n)
    PROVE  \A i \in 1 .. n : g[i] \in Seq(T)
  <1> DEFINE Bad == {i \in 1 .. n : g[i] \notin Seq(T)}
  <1>1. SUFFICES ASSUME Bad # {} PROVE FALSE
    OBVIOUS
  <1>2. PICK i \in Bad : \A j \in Bad : i <= j
    <2>1. Bad \in SUBSET Nat
      OBVIOUS
    <2> QED BY <1>1, <2>1, Least
  <1>3. g[i] = IF i = 1 THEN s[i] ELSE g[i - 1] \o s[i]
    BY FlattensUnfold
  <1>4. i # 1 => i - 1 \in 1 .. n /\ i - 1 \notin Bad
    BY <1>2
  <1>5. i # 1 => g[i - 1] \in Seq(T)
    <2>1. \A j \in 1 .. n : j \notin Bad => g[j] \in Seq(T)
      OBVIOUS
    <2> HIDE DEF Bad
    <2> QED BY <1>4, <2>1
  <1>6. i \in 1 .. n /\ s[i] \in Seq(T) /\ g[i] \notin Seq(T)
    BY <1>2
  <1> QED BY <1>3, <1>5, <1>6

\* The function exists.
LEMMA FlattensExists ==
    ASSUME NEW n \in Nat, NEW s
    PROVE  \E g : Flattens(g, s, n)
  <1> DEFINE Bad == {i \in Nat : ~ \E g : Flattens(g, s, i)}
  <1>1. SUFFICES ASSUME Bad # {} PROVE FALSE
    OBVIOUS
  <1>2. PICK i \in Bad : \A j \in Bad : i <= j
    <2>1. Bad \in SUBSET Nat
      OBVIOUS
    <2> QED BY <1>1, <2>1, Least
  <1>3. i # 0
    <2>1. Flattens([j \in 1 .. 0 |-> 0], s, 0)
      BY DEF Flattens
    <2> QED BY <2>1
  <1>4. PICK g : Flattens(g, s, i - 1)
    BY <1>2, <1>3
  <1> DEFINE h == [j \in 1 .. i |-> IF j = i THEN IF i = 1 THEN s[i] ELSE g[i - 1] \o s[i] ELSE g[j]]
  <1>5. Flattens(h, s, i)
    <2>1. \A j \in 1 .. i - 1 : h[j] = g[j] /\ g[j] = IF j = 1 THEN s[j] ELSE g[j - 1] \o s[j]
      BY <1>3, <1>4, FlattensUnfold
    <2>2. \A j \in 1 .. i : h[j] = IF j = 1 THEN s[j] ELSE h[j - 1] \o s[j]
      <3> TAKE j \in 1 .. i
      <3>1. CASE j = i
        <4>1. h[i] = IF i = 1 THEN s[i] ELSE g[i - 1] \o s[i]
          BY <1>3
        <4>2. i # 1 => h[i - 1] = g[i - 1]
          BY <1>3, <2>1
        <4> QED BY <3>1, <4>1, <4>2
      <3>2. CASE j # i
        <4>1. j \in 1 .. i - 1 /\ (j # 1 => j - 1 \in 1 .. i - 1)
          BY <3>2
        <4> HIDE DEF h
        <4> QED BY <2>1, <4>1
      <3> QED BY <3>1, <3>2
    <2>3. h = [j \in 1 .. i |-> h[j]]
      OBVIOUS
    <2> HIDE DEF h
    <2> QED BY <2>2, <2>3 DEF Flattens
  <1> QED BY <1>2, <1>5

LEMMA FlattenIs ==
    ASSUME NEW T, NEW n \in Nat \ {0}, NEW s \in [1 .. n -> Seq(T)]
    PROVE  \E g : Flattens(g, s, n) /\ FlattenSeq(s) = g[n]
  <1>1. Len(s) = n /\ DOMAIN s = 1 .. n
    OBVIOUS
  <1> DEFINE g == CHOOSE f : Flattens(f, s, n)
  <1>2. Flattens(g, s, n)
    BY FlattensExists
  <1>3. FlattenSeq(s) = g[n]
    BY <1>1 DEF FlattenSeq, Flattens
  <1> HIDE DEF g
  <1> QED BY <1>2, <1>3

LEMMA FlattenEmpty == FlattenSeq(<<>>) = <<>>
  BY DEF FlattenSeq

LEMMA FlattenOne ==
    ASSUME NEW T, NEW s \in [1 .. 1 -> Seq(T)]
    PROVE  FlattenSeq(s) = s[1]
  <1>1. PICK g : Flattens(g, s, 1) /\ FlattenSeq(s) = g[1]
    <2>1. 1 \in Nat \ {0}
      OBVIOUS
    <2> QED BY <2>1, FlattenIs
  <1>2. g[1] = s[1]
    BY <1>1, FlattensUnfold
  <1> QED BY <1>1, <1>2

LEMMA FlattenMore ==
    ASSUME NEW T, NEW n \in Nat \ {0}, NEW s \in [1 .. n -> Seq(T)], NEW t \in [1 .. n + 1 -> Seq(T)],
           \A i \in 1 .. n : s[i] = t[i]
    PROVE  FlattenSeq(s) \in Seq(T) /\ FlattenSeq(t) = FlattenSeq(s) \o t[n + 1]
  <1>1. PICK g : Flattens(g, s, n) /\ FlattenSeq(s) = g[n]
    BY FlattenIs
  <1>2. PICK h : Flattens(h, t, n + 1) /\ FlattenSeq(t) = h[n + 1]
    <2>1. n + 1 \in Nat \ {0}
      OBVIOUS
    <2> QED BY <2>1, FlattenIs
  <1>a. n \in 1 .. n /\ n \in Nat /\ n + 1 \in Nat /\ n + 1 \in 1 .. n + 1
    OBVIOUS
  <1>3. g[n] = h[n]
    <2>1. \A i \in 1 .. n : g[i] = h[i]
      <3>1. n <= n + 1
        BY <1>a
      <3> QED BY <1>a, <1>1, <1>2, <3>1, FlattensAlike
    <2> QED BY <1>a, <2>1
  <1>4. h[n + 1] = h[n] \o t[n + 1]
    <2> DEFINE m == n + 1
    <2>1. m \in Nat /\ m \in 1 .. m /\ m # 1 /\ m - 1 = n /\ Flattens(h, t, m)
      BY <1>a, <1>2
    <2> HIDE DEF m
    <2>2. h[m] = IF m = 1 THEN t[m] ELSE h[m - 1] \o t[m]
      <3>1. m \in Nat /\ Flattens(h, t, m) /\ m \in 1 .. m
        BY <2>1
      <3>2. \A i \in 1 .. m : h[i] = IF i = 1 THEN t[i] ELSE h[i - 1] \o t[i]
        BY <3>1, FlattensUnfold
      <3> QED BY <3>1, <3>2
    <2>3. h[m] = h[n] \o t[m]
      BY <2>1, <2>2
    <2> QED BY <2>3 DEF m
  <1>5. g[n] \in Seq(T)
    <2>1. \A i \in 1 .. n : s[i] \in Seq(T)
      OBVIOUS
    <2>2. \A i \in 1 .. n : g[i] \in Seq(T)
      BY <1>a, <1>1, <2>1, FlattensSeq
    <2> QED BY <1>a, <2>2
  <1> QED BY <1>1, <1>2, <1>3, <1>4, <1>5

-----------------------------------------------------------------------------
(* Databases and pads. *)

LEMMA SetIs ==
    ASSUME NEW room, IsDatabase(room, view), NEW f, DOMAIN f \subseteq Keys, Set(f)
    PROVE  /\ \A k \in DOMAIN f : view'[k] = f[k]
           /\ \A k \in Keys \ DOMAIN f : view'[k] = view[k]
           /\ (\A k \in DOMAIN f : IsRecord(room, k, f[k])) => IsDatabase(room, view')
  BY DEF Set, IsDatabase

LEMMA SetOneIs ==
    ASSUME NEW room, IsDatabase(room, view), NEW key \in Keys, NEW rec, SetOne(key, rec)
    PROVE  /\ view'[key] = rec
           /\ \A k \in Keys \ {key} : view'[k] = view[k]
           /\ IsRecord(room, key, rec) => IsDatabase(room, view')
  BY DEF SetOne, IsDatabase

LEMMA PadParts ==
    ASSUME NEW room \in Int, NEW pad \in PadIn(room)
    PROVE  /\ pad = [head |-> pad.head, chatHead |-> pad.chatHead, saved |-> pad.saved, text |-> pad.text]
           /\ pad.head \in -1 .. MaxHead /\ pad.chatHead \in -1 .. room
           /\ pad.saved \subseteq 0 .. MaxHead /\ pad.text \in Texts
  BY DEF PadIn

LEMMA BlankTyped ==
    ASSUME NEW room \in Int, -1 <= room
    PROVE  NewPad \in PadIn(room) /\ Blank \in PadIn(room) /\ appendRevision(NewPad, <<>>) = Blank
  <1>1. <<>> \in Texts /\ 0 \in -1 .. MaxHead /\ -1 \in -1 .. MaxHead /\ -1 \in -1 .. room
    BY Constants DEF Texts
  <1>2. NewPad \in PadIn(room) /\ Blank \in PadIn(room)
    BY <1>1 DEF NewPad, Blank, PadIn
  <1>3. appendRevision(NewPad, <<>>) = Blank
    <2>1. NewPad.head = -1 /\ NewPad.text = <<>> /\ -1 + 1 = 0 /\ <<>> \o <<>> = <<>>
      BY DEF NewPad
    <2> QED BY <2>1 DEF appendRevision, HasEffect, NewPad, Blank
  <1> QED BY <1>2, <1>3

LEMMA AppendTyped ==
    ASSUME NEW room \in Int, NEW pad \in PadIn(room), pad.head < MaxHead, NEW cs \in Texts
    PROVE  /\ appendRevision(pad, cs) \in PadIn(room)
           /\ ~HasEffect(pad, cs) => appendRevision(pad, cs) = pad
           /\ HasEffect(pad, cs) =>
                appendRevision(pad, cs) = [head |-> pad.head + 1, chatHead |-> pad.chatHead,
                                           saved |-> pad.saved, text |-> pad.text \o cs]
  <1>1. CASE ~HasEffect(pad, cs)
    BY <1>1 DEF appendRevision
  <1>2. CASE HasEffect(pad, cs)
    <2>1. appendRevision(pad, cs) = [head |-> pad.head + 1, chatHead |-> pad.chatHead,
                                     saved |-> pad.saved, text |-> pad.text \o cs]
      <3>1. appendRevision(pad, cs) = [pad EXCEPT !.head = @ + 1, !.text = @ \o cs]
        BY <1>2 DEF appendRevision
      <3> QED BY <3>1 DEF PadIn
    <2>2. pad.head + 1 \in -1 .. MaxHead /\ pad.text \o cs \in Texts
      BY PadParts, Constants DEF Texts
    <2> QED BY <1>2, <2>1, <2>2, PadParts DEF PadIn
  <1> QED BY <1>1, <1>2

LEMMA RevisionTyped ==
    ASSUME NEW r \in Nat, NEW cs \in Texts, NEW text \in Texts
    PROVE  Revision(r, cs, text) \in RevisionRecord(r) /\ Revision(r, cs, text).changeset = cs
  BY DEF Revision, RevisionRecord

\* The records of a new revision.
LEMMA RevisionRecordsTyped ==
    ASSUME NEW room \in Int, NEW pad \in PadIn(room), pad.head < MaxHead, NEW cs \in Texts, NEW p \in Pads
    PROVE  LET new == appendRevision(pad, cs)
               f == revisionRecords(p, pad, cs)
           IN  /\ RevisionAwaits(p, pad, cs) = DOMAIN f
               /\ DOMAIN f \subseteq KeysOf(p)
               /\ \A k \in DOMAIN f : IsRecord(room, k, f[k])
               /\ ~HasEffect(pad, cs) => DOMAIN f = {} /\ new = pad
               /\ HasEffect(pad, cs) =>
                    /\ new.head = pad.head + 1 /\ new.head \in 0 .. MaxHead
                    /\ DOMAIN f = {RevKey(p, new.head), PadKey(p)}
                    /\ f[PadKey(p)] = new
                    /\ f[RevKey(p, new.head)] = Revision(new.head, cs, new.text)
  <1> DEFINE new == appendRevision(pad, cs)
             f == revisionRecords(p, pad, cs)
  <1>1. new \in PadIn(room)
    BY AppendTyped
  <1>2. CASE ~HasEffect(pad, cs)
    <2>1. f = <<>> /\ DOMAIN <<>> = {} /\ new = pad
      BY <1>2, AppendTyped DEF revisionRecords
    <2> QED BY <1>2, <2>1 DEF RevisionAwaits
  <1>3. CASE HasEffect(pad, cs)
    <2>1. new.head = pad.head + 1 /\ new.head \in 0 .. MaxHead
      BY <1>3, AppendTyped, PadParts
    <2>5. PadKey(p) # RevKey(p, new.head)
      <3>1. PadKey(p)[1] = "pad" /\ RevKey(p, new.head)[1] = "revs"
        BY KeyParts
      <3> QED BY <3>1
    <2>6. /\ DOMAIN f = {RevKey(p, new.head), PadKey(p)} /\ f[PadKey(p)] = new
          /\ f[RevKey(p, new.head)] = Revision(new.head, cs, new.text)
      BY <1>3, <2>5 DEF revisionRecords
    <2> HIDE DEF f, new
    <2>7. new.text \in Texts /\ new.head \in Nat
      BY <1>1, <2>1, PadParts
    <2>8. IsRecord(room, PadKey(p), f[PadKey(p)])
      BY <1>1, <2>1, <2>6, RecordKinds
    <2>9. IsRecord(room, RevKey(p, new.head), f[RevKey(p, new.head)])
      <3>1. Revision(new.head, cs, new.text) \in RevisionRecord(new.head)
        BY <2>7, RevisionTyped
      <3> QED BY <2>6, <3>1, RecordKinds
    <2> QED BY <1>3, <2>1, <2>6, <2>8, <2>9, KeysInside DEF RevisionAwaits, f, new
  <1> QED BY <1>2, <1>3

\* What is removed with a pad.
LEMMA RemovedTyped ==
    ASSUME NEW room \in Int, room <= MaxCalls, NEW pad \in PadIn(room), NEW p \in Pads
    PROVE  /\ RecordKeys(p, pad) \subseteq KeysOf(p)
           /\ DOMAIN Removed(p, pad) = RecordKeys(p, pad)
           /\ \A k \in RecordKeys(p, pad) : Removed(p, pad)[k] = Nothing
           /\ PadKey(p) \in RecordKeys(p, pad)
  <1>1. pad.head <= MaxHead /\ pad.chatHead <= MaxCalls /\ pad.head \in Int /\ pad.chatHead \in Int
    BY PadParts, Constants
  <1>2. 0 .. pad.head \subseteq 0 .. MaxHead /\ 0 .. pad.chatHead \subseteq 0 .. MaxCalls
    BY <1>1, Constants
  <1>3. RecordKeys(p, pad) \subseteq KeysOf(p)
    BY <1>2 DEF RecordKeys, KeysOf, RevKeys, ChatKeys
  <1> QED BY <1>3 DEF Removed, RecordKeys

-----------------------------------------------------------------------------
(* Objects. *)

LEMMA FreshIsNew ==
    ASSUME IsFiniteSet(DOMAIN mem), DOMAIN mem \subseteq Nat
    PROVE  /\ Fresh \in Nat /\ Fresh \notin DOMAIN mem
           /\ IsFiniteSet(DOMAIN mem \cup {Fresh}) /\ DOMAIN mem \cup {Fresh} \subseteq Nat
  <1> DEFINE n == Cardinality(DOMAIN mem)
  <1>1. n \in Nat
    BY FS_CardinalityType
  <1>2. IsFiniteSet(1 .. n + 1) /\ Cardinality(1 .. n + 1) = n + 1
    BY <1>1, FS_Interval
  <1>3. \E o \in 1 .. n + 1 : o \notin DOMAIN mem
    <2>1. SUFFICES ASSUME 1 .. n + 1 \subseteq DOMAIN mem PROVE FALSE
      OBVIOUS
    <2>2. Cardinality(1 .. n + 1) <= n
      BY <2>1, FS_Subset
    <2> QED BY <1>1, <1>2, <2>2
  <1>4. Fresh \in 1 .. n + 1 /\ Fresh \notin DOMAIN mem
    BY <1>3 DEF Fresh
  <1>5. Fresh \in Nat
    BY <1>1, <1>4
  <1>6. IsFiniteSet(DOMAIN mem \cup {Fresh})
    BY FS_AddElement
  <1> QED BY <1>4, <1>5, <1>6

\* Forgetting objects leaves those that somebody refers to.
LEMMA LiveIs ==
    ASSUME NEW m, IsFiniteSet(DOMAIN m), mem' = Live(m, cache', task')
    PROVE  /\ DOMAIN mem' \subseteq DOMAIN m /\ IsFiniteSet(DOMAIN mem')
           /\ \A o \in DOMAIN mem' : mem'[o] = m[o]
           /\ \A p \in Pads : cache'[p] \in DOMAIN m => cache'[p] \in DOMAIN mem'
           /\ \A t \in Tasks : {task'[t].held, task'[t].obj} \cap DOMAIN m \subseteq DOMAIN mem'
  <1> DEFINE S == {o \in DOMAIN m : \/ \E p \in Pads : cache'[p] = o
                                    \/ \E t \in Tasks : o \in {task'[t].held, task'[t].obj}}
  <1>1. DOMAIN mem' = S /\ \A o \in S : mem'[o] = m[o]
    BY DEF Live, Restrict
  <1>2. IsFiniteSet(S)
    BY FS_Subset
  <1> QED BY <1>1, <1>2

-----------------------------------------------------------------------------
(* Room for messages. *)

LEMMA ChattingFinite == IsFiniteSet(Chatting) /\ Cardinality(Chatting) \in Nat
  BY Constants, FS_Subset, FS_CardinalityType DEF Chatting

LEMMA ChattingNext ==
    ASSUME TRUE
    PROVE  IsFiniteSet(Chatting') /\ Cardinality(Chatting)' \in Nat
  <1>1. Chatting' \subseteq Tasks
    BY DEF Chatting
  <1> QED BY <1>1, Constants, FS_Subset, FS_CardinalityType

\* No step but a call takes room.
LEMMA RoomStays ==
    ASSUME ChatRoom \in Int, calls \in Nat, calls' = calls, Chatting' \subseteq Chatting
    PROVE  ChatRoom' \in Int /\ ChatRoom <= ChatRoom'
  <1>1. Cardinality(Chatting)' <= Cardinality(Chatting)
    BY ChattingFinite, FS_Subset
  <1> QED BY <1>1, ChattingFinite, ChattingNext DEF ChatRoom

\* A call brings its own.
LEMMA RoomForCall ==
    ASSUME ChatRoom \in Int, calls \in Nat, calls' = calls + 1, NEW t \in Tasks,
           Chatting' \subseteq Chatting \cup {t}
    PROVE  ChatRoom' \in Int /\ ChatRoom <= ChatRoom'
  <1>1. IsFiniteSet(Chatting \cup {t}) /\ Cardinality(Chatting \cup {t}) <= Cardinality(Chatting) + 1
    <2>1. IsFiniteSet(Chatting \cup {t})
          /\ Cardinality(Chatting \cup {t}) = IF t \in Chatting THEN Cardinality(Chatting)
                                               ELSE Cardinality(Chatting) + 1
      BY ChattingFinite, FS_AddElement
    <2> QED BY <2>1, ChattingFinite
  <1>2. Cardinality(Chatting)' <= Cardinality(Chatting \cup {t}) /\ Cardinality(Chatting \cup {t}) \in Nat
    BY <1>1, FS_Subset, FS_CardinalityType
  <1> QED BY <1>1, <1>2, ChattingFinite, ChattingNext DEF ChatRoom

\* A message takes the room of its call.
LEMMA RoomOfMessage ==
    ASSUME ChatRoom \in Int, calls \in Nat, calls' = calls, NEW t \in Chatting,
           Chatting' \subseteq Chatting \ {t}
    PROVE  ChatRoom' \in Int /\ ChatRoom + 1 <= ChatRoom'
  <1>1. IsFiniteSet(Chatting \ {t}) /\ Cardinality(Chatting \ {t}) = Cardinality(Chatting) - 1
    BY ChattingFinite, FS_RemoveElement
  <1>2. Cardinality(Chatting)' <= Cardinality(Chatting \ {t})
    BY <1>1, FS_Subset
  <1> QED BY <1>1, <1>2, ChattingFinite, ChattingNext DEF ChatRoom

LEMMA ChattingStep ==
    ASSUME TypeInv, NEW t \in Tasks, NEW s, task' = [task EXCEPT ![t] = s]
    PROVE  /\ task'[t] = s /\ \A u \in Tasks \ {t} : task'[u] = task[u]
           /\ Chatting' \subseteq Chatting \cup {t}
           /\ ~(s.op = "chat" /\ s.pc \in {"getPad", "init", "padLoad", "run"}) => Chatting' \subseteq Chatting \ {t}
           /\ t \in Chatting => Chatting' \subseteq Chatting
  BY DEF TypeInv, Chatting

\* There are fewer messages than numbers for them.
LEMMA RoomBounded ==
    ASSUME TypeInv
    PROVE  ChatRoom \in Int /\ ChatRoom < MaxCalls /\ -1 <= ChatRoom
  BY ChattingFinite, Constants DEF TypeInv, ChatRoom

-----------------------------------------------------------------------------
(* What a step of one task leaves to the others. *)

LEMMA TaskFields ==
    ASSUME TypeInv, NEW t \in Tasks
    PROVE  /\ task[t] \in TaskType /\ task[t].pad \in Pads \cup {Nothing} /\ task[t].dst \in Pads \cup {Nothing}
           /\ task[t].held \in DOMAIN mem \cup {Nothing} /\ task[t].obj \in DOMAIN mem \cup {Nothing}
           /\ task[t].held \in Nat \cup {Nothing} /\ task[t].obj \in Nat \cup {Nothing}
           /\ task[t].n \in Nat /\ task[t].awaits \subseteq Keys
           /\ task[t].records \subseteq Keys \X AnyRecord
           /\ Nothing \notin DOMAIN mem
           /\ \A o \in DOMAIN mem : mem[o] \in PadIn(ChatRoom)
           /\ \A p \in Pads : cache[p] \in DOMAIN mem \cup {Nothing}
  BY Constants DEF TypeInv, TaskType

LEMMA StepTyped ==
    ASSUME TypeInv, NEW t \in Tasks, NEW s \in TaskType, task' = [task EXCEPT ![t] = s],
           ChatRoom' \in Int, ChatRoom <= ChatRoom', calls' \in 1 .. MaxCalls,
           IsDatabase(ChatRoom', view'), IsDatabase(ChatRoom', disk'),
           IsFiniteSet(DOMAIN mem'), DOMAIN mem' \subseteq Nat,
           \A o \in DOMAIN mem' : mem'[o] \in PadIn(ChatRoom'),
           cache' \in [Pads -> DOMAIN mem' \cup {Nothing}],
           {s.held, s.obj} \subseteq DOMAIN mem' \cup {Nothing},
           \A u \in Tasks \ {t} : {task[u].held, task[u].obj} \subseteq DOMAIN mem' \cup {Nothing},
           s.op \in {"append", "chat"} => s.n <= MaxCalls,
           \A r \in s.records : IsRecord(ChatRoom', r[1], r[2])
    PROVE  TypeInv'
  <1>1. task' \in [Tasks -> TaskType] /\ task'[t] = s /\ \A u \in Tasks \ {t} : task'[u] = task[u]
    BY DEF TypeInv
  <1>2. ChatRoom \in Int /\ -1 <= ChatRoom'
    BY RoomBounded
  <1>3. ASSUME NEW u \in Tasks
        PROVE  /\ {task'[u].held, task'[u].obj} \subseteq DOMAIN mem' \cup {Nothing}
               /\ task'[u].op \in {"append", "chat"} => task'[u].n <= MaxCalls
               /\ \A r \in task'[u].records : IsRecord(ChatRoom', r[1], r[2])
    <2>1. CASE u = t
      BY <1>1, <2>1
    <2>2. CASE u # t
      <3>1. \A r \in task[u].records : IsRecord(ChatRoom, r[1], r[2])
        BY DEF TypeInv
      <3>2. \A r \in task[u].records : IsRecord(ChatRoom', r[1], r[2])
        BY <1>2, <3>1, RoomGrows
      <3>3. task[u].op \in {"append", "chat"} => task[u].n <= MaxCalls
        BY DEF TypeInv
      <3> QED BY <1>1, <2>2, <3>2, <3>3
    <2> QED BY <2>1, <2>2
  <1> QED BY <1>1, <1>2, <1>3 DEF TypeInv

\* What a step of t may write to: the pads it uses, and the object it loads.
Footprint(t) ==
    /\ \A u \in Tasks \ {t} : task'[u] = task[u]
    /\ \A p \in Pads \ Uses(t) : \A k \in KeysOf(p) : view'[k] = view[k]
    /\ \A p \in Pads : cache'[p] = cache[p] \/ p \in AloneOf(t)
    /\ \A o \in DOMAIN mem \cap DOMAIN mem' :
         \/ mem'[o] = mem[o]
         \/ o = task[t].obj /\ task[t].pc = "init"
         \/ \E p \in Uses(t) : cache[p] = o

LEMMA AloneInUses ==
    ASSUME HandsInv, TypeInv, NEW t \in Tasks
    PROVE  /\ AloneOf(t) \cap Pads \subseteq Uses(t)
           /\ Busy(t) => AloneOf(t) \subseteq Pads /\ Uses(t) \subseteq Pads /\ task[t].pad \in Uses(t)
           /\ ~Busy(t) => Uses(t) = {} /\ task[t] = Idle
  <1>1. Shape(task[t]) /\ task[t].dst \in Pads \cup {Nothing}
    BY TaskFields DEF HandsInv
  <1>2. CASE ~Busy(t)
    <2>1. task[t] = Idle
      BY <1>1, <1>2 DEF Busy, Shape
    <2> QED BY <1>2, <2>1, Constants DEF Idle, Uses, AloneOf, Alone, Copies, Snapshots
  <1>3. CASE Busy(t)
    <2>1. task[t].pad \in Pads /\ task[t].pad # Nothing
      BY <1>1, <1>3, Constants DEF Busy, Shape
    <2>2. task[t].op \in CopyOps => task[t].dst \in Pads
      BY <1>1 DEF Shape
    <2> QED BY <1>1, <1>3, <2>1, <2>2, Constants DEF Uses, AloneOf, Alone, CopyOps
  <1> QED BY <1>2, <1>3

\* Which pads a task has to itself.
LEMMA AloneIs ==
    ASSUME TakeTurns, NEW t \in Tasks
    PROVE  /\ cache[task[t].pad] = Nothing => task[t].pad \in AloneOf(t)
           /\ task[t].op \in {"remove", "move", "compact", "collapse", "recreate"} => task[t].pad \in AloneOf(t)
           /\ task[t].op \in CopyOps => task[t].dst \in AloneOf(t)
  BY DEF TakeTurns, AloneOf, Alone, CopyOps, Copies, Snapshots

\* A pad that one has to oneself, another has not in use.
LEMMA NotShared ==
    ASSUME HandsInv, TypeInv, NEW t \in Tasks, NEW u \in Tasks \ {t}, Busy(u)
    PROVE  AloneOf(u) \cap Uses(t) = {}
  <1>1. CASE Busy(t)
    BY <1>1 DEF HandsInv, TurnsTaken
  <1>2. CASE ~Busy(t)
    BY <1>2, AloneInUses
  <1> QED BY <1>1, <1>2

\* The pads a task has to itself.
LEMMA AlonePads ==
    ASSUME TakeTurns, TypeInv, HandsInv, NEW u \in Tasks, Busy(u)
    PROVE  /\ task[u].pad \in Pads /\ task[u].pad \in Uses(u)
           /\ task[u].op \in CopyOps \/ (task[u].op = "compact" /\ task[u].dst # Nothing) =>
                task[u].dst \in AloneOf(u) /\ task[u].dst \in Uses(u) /\ task[u].dst \in Pads
           /\ task[u].pc \in Loading => Target(u) \in Uses(u)
           /\ task[u].pc \in {"init", "padLoad"} => Target(u) \in AloneOf(u)
           /\ task[u].op = "compact" => task[u].pad \in AloneOf(u)
  <1>1. Shape(task[u]) /\ InHand(u)
    BY DEF HandsInv
  <1>2. task[u].pad \in Pads /\ task[u].pad \in Uses(u)
    BY AloneInUses, <1>1 DEF Shape, Busy
  <1>3. AloneOf(u) \subseteq Uses(u) /\ Uses(u) \subseteq Pads
    BY AloneInUses
  <1>4. ASSUME task[u].op \in CopyOps \/ (task[u].op = "compact" /\ task[u].dst # Nothing)
        PROVE  task[u].dst \in AloneOf(u)
    <2>1. CASE task[u].op \in CopyOps
      BY <2>1, AloneIs
    <2>2. CASE task[u].op = "compact" /\ task[u].dst # Nothing
      <3>1. task[u].dst = task[u].pad
        BY <1>1, <2>2 DEF Shape
      <3> QED BY <2>2, <3>1, AloneIs
    <2> QED BY <1>4, <2>1, <2>2
  <1>5. task[u].op = "compact" => task[u].pad \in AloneOf(u)
    BY AloneIs
  <1>6. ASSUME task[u].pc \in Loading
        PROVE  Target(u) \in Uses(u) /\ (task[u].pc \in {"init", "padLoad"} => Target(u) \in AloneOf(u))
    <2>1. CASE task[u].held = Nothing
      <3>1. Target(u) = task[u].pad
        BY <2>1 DEF Target
      <3>2. task[u].pc \in {"init", "padLoad"} => cache[task[u].pad] = Nothing
        BY <1>1, <3>1 DEF InHand
      <3> QED BY <1>2, <3>1, <3>2, AloneIs
    <2>2. CASE task[u].held # Nothing
      <3>1. Target(u) = task[u].dst
        BY <2>2 DEF Target
      <3>2. task[u].op \in CopyOps \/ (task[u].op = "compact" /\ task[u].dst # Nothing)
        BY <1>1, <1>2, <1>6, <2>2, Constants DEF Shape, Loading
      <3> QED BY <1>3, <1>4, <3>1, <3>2
    <2> QED BY <2>1, <2>2
  <1> QED BY <1>2, <1>3, <1>4, <1>5, <1>6, <1>1 DEF Loading

LEMMA OthersKeep ==
    ASSUME TakeTurns, TypeInv, TypeInv', HandsInv, NEW t \in Tasks, Footprint(t),
           NEW u \in Tasks \ {t}, Busy(u)
    PROVE  /\ task'[u] = task[u]
           /\ \A p \in Uses(u) : cache'[p] = cache[p]
           /\ \A p \in AloneOf(u) : \A k \in KeysOf(p) : view'[k] = view[k]
           /\ \A p \in AloneOf(u) : cache[p] # Nothing => mem'[cache[p]] = mem[cache[p]]
           /\ task[u].pc \in {"init", "padLoad"} => mem'[task[u].obj] = mem[task[u].obj]
  <1>1. task'[u] = task[u]
    BY DEF Footprint
  <1>2. AloneOf(u) \cap Uses(t) = {} /\ AloneOf(u) \subseteq Uses(u) /\ Uses(u) \subseteq Pads
    BY NotShared, AloneInUses
  <1>3. AloneOf(t) \cap Uses(u) = {}
    <2>1. CASE Busy(t)
      BY <2>1 DEF HandsInv, TurnsTaken
    <2>2. CASE ~Busy(t)
      BY <1>2, <2>2, AloneInUses
    <2> QED BY <2>1, <2>2
  <1>4. \A p \in Uses(u) : cache'[p] = cache[p]
    BY <1>2, <1>3 DEF Footprint
  <1>5. \A p \in AloneOf(u) : \A k \in KeysOf(p) : view'[k] = view[k]
    BY <1>2 DEF Footprint
  <1>6. Nothing \notin DOMAIN mem /\ Nothing \notin DOMAIN mem'
    BY Constants DEF TypeInv
  <1>7. ASSUME NEW p \in AloneOf(u), cache[p] # Nothing
        PROVE  mem'[cache[p]] = mem[cache[p]]
    <2>1. cache[p] \in DOMAIN mem /\ cache'[p] \in DOMAIN mem'
      BY <1>2, <1>4, <1>7 DEF TypeInv
    <2>2. cache[p] \in DOMAIN mem \cap DOMAIN mem'
      BY <1>2, <1>4, <2>1
    <2>3. ~(cache[p] = task[t].obj /\ task[t].pc = "init")
      BY <1>2 DEF HandsInv, Private
    <2>4. ~ \E q \in Uses(t) : cache[q] = cache[p]
      <3>1. \A q \in Uses(t) : q \in Pads
        BY AloneInUses
      <3> QED BY <1>2, <1>7, <3>1 DEF HandsInv, OneObjectPerPad
    <2> QED BY <2>2, <2>3, <2>4 DEF Footprint
  <1>8. ASSUME task[u].pc \in {"init", "padLoad"}
        PROVE  mem'[task[u].obj] = mem[task[u].obj]
    <2>1. task[u].obj # Nothing
      BY <1>8 DEF HandsInv, Shape
    <2>2. task[u].obj \in DOMAIN mem \cap DOMAIN mem'
      BY <1>1, <2>1 DEF TypeInv
    <2>3. task[u].obj # task[t].obj /\ \A p \in Pads : cache[p] # task[u].obj
      BY <1>8 DEF HandsInv, Private
    <2>4. \A q \in Uses(t) : q \in Pads
      BY AloneInUses
    <2> QED BY <2>2, <2>3, <2>4 DEF Footprint
  <1> QED BY <1>1, <1>4, <1>5, <1>7, <1>8

\* What others have in hand stays so.
LEMMA OthersInHand ==
    ASSUME TakeTurns, TypeInv, TypeInv', HandsInv, NEW t \in Tasks, Footprint(t),
           NEW u \in Tasks \ {t}, Busy(u)
    PROVE  InHand(u)' /\ Shape(task'[u])
  <1> DEFINE s == task[u]
  <1>1. Shape(s) /\ InHand(u) /\ s.pc # "idle"
    BY DEF HandsInv, Busy
  <1>2. task'[u] = s
    BY OthersKeep
  <1>3. \A p \in Uses(u) : cache'[p] = cache[p]
    BY OthersKeep
  <1>4. \A p \in AloneOf(u) : /\ view'[PadKey(p)] = view[PadKey(p)]
                              /\ cache[p] # Nothing => mem'[cache[p]] = mem[cache[p]]
    <2>1. \A p \in AloneOf(u) : PadKey(p) \in KeysOf(p)
      BY AloneInUses, KeysInside
    <2> QED BY <2>1, OthersKeep
  <1>5. s.pc \in {"init", "padLoad"} => mem'[s.obj] = mem[s.obj]
    BY OthersKeep
  <1>6. /\ s.pad \in Uses(u)
        /\ s.op \in CopyOps \/ (s.op = "compact" /\ s.dst # Nothing) => s.dst \in AloneOf(u) /\ s.dst \in Uses(u) /\ s.dst \in Pads
        /\ s.pc \in {"init", "padLoad"} => Target(u) \in AloneOf(u) /\ Target(u) \in Uses(u)
        /\ s.op = "compact" => s.pad \in AloneOf(u)
    BY AlonePads DEF Loading
  <1>7. Target(u)' = Target(u)
    BY <1>2 DEF Target
  <1>8. s.pc \in {"read", "records", "second"} \/ (s.pc \in Loading /\ s.held # Nothing) =>
          s.dst \in AloneOf(u) /\ s.dst \in Uses(u) /\ s.dst \in Pads
    BY <1>1, <1>6, Constants DEF Shape, Loading, CopyOps
  <1> HIDE DEF s
  <1>9. HasPad(s) => cache'[s.pad] = s.held
    BY <1>1, <1>3, <1>6 DEF InHand, s
  <1>10. s.pc \in {"init", "padLoad"} => cache'[Target(u)] = Nothing
    BY <1>1, <1>3, <1>6 DEF InHand, s
  <1>11. Reading(s) => cache'[s.dst] = Nothing
    BY <1>1, <1>3, <1>8 DEF InHand, Reading, Loading, s
  <1>12. s.pc = "read" => view'[PadKey(s.dst)] = Nothing
    BY <1>1, <1>4, <1>8 DEF InHand, s
  <1>13. s.pc \in {"getPad", "init"} /\ s.held # Nothing =>
           (view'[PadKey(s.dst)] = Nothing <=> s.op \in Snapshots)
    BY <1>1, <1>4, <1>8 DEF InHand, Loading, s
  <1>14. s.pc = "records" => Planned(s, view')[PadKey(s.dst)] # Nothing
    <2>1. SUFFICES ASSUME s.pc = "records" PROVE Planned(s, view')[PadKey(s.dst)] # Nothing
      OBVIOUS
    <2>2. PadKey(s.dst) \in Keys /\ view'[PadKey(s.dst)] = view[PadKey(s.dst)]
      BY <1>4, <1>8, <2>1, KeysInside
    <2>3. Planned(s, view')[PadKey(s.dst)] = Planned(s, view)[PadKey(s.dst)]
      BY <2>2 DEF Planned
    <2> QED BY <1>1, <2>1, <2>3 DEF InHand, s
  <1>15. s.pc = "records" => \A r \in s.records : r[1] \in KeysOf(s.dst)
    BY <1>1 DEF InHand, s
  <1>16. s.pc = "padLoad" => view'[PadKey(Target(u))] # Nothing /\ mem'[s.obj] = view'[PadKey(Target(u))]
    BY <1>1, <1>4, <1>5, <1>6 DEF InHand, s
  <1>17. s.pc = "second" => cache'[s.dst] = s.obj
    BY <1>1, <1>3, <1>8 DEF InHand, s
  <1>18. s.pc \in {"padLoad", "second"} /\ s.held # Nothing /\ s.op \in Snapshots => mem'[s.obj] = Blank
    <2>1. CASE s.pc = "padLoad"
      BY <1>1, <1>5, <2>1 DEF InHand, s
    <2>2. CASE s.pc = "second"
      <3>1. cache[s.dst] = s.obj /\ s.obj # Nothing
        BY <1>1, <2>2 DEF InHand, Shape, s
      <3> QED BY <1>1, <1>4, <1>8, <2>2, <3>1 DEF InHand, s
    <2> QED BY <2>1, <2>2
  <1>19. s.pc \in {"delete", "head"} => s.n >= 1 /\ mem'[s.held].head = s.n + KeepRevisions
    <2>1. SUFFICES ASSUME s.pc \in {"delete", "head"}
                   PROVE s.n >= 1 /\ mem'[s.held].head = s.n + KeepRevisions
      OBVIOUS
    <2>2. s.op = "compact" /\ s.held # Nothing /\ s.dst = Nothing
      BY <1>1, <2>1, Constants DEF Shape, Loading
    <2>3. HasPad(s)
      BY <2>1, <2>2 DEF HasPad
    <2>4. cache[s.pad] = s.held /\ mem'[s.held] = mem[s.held]
      BY <1>1, <1>4, <1>6, <2>2, <2>3 DEF InHand, s
    <2> QED BY <1>1, <2>1, <2>4 DEF InHand, s
  <1>20. s.pc \in {"delete", "head", "revs"} =>
           KeepRevisions <= MaxHead /\ \A r \in s.records : r[1] \in RevKeys(s.pad, KeepRevisions)
    BY <1>1 DEF InHand, s
  <1>21. s.pc \in {"revs", "unload"} => view'[PadKey(s.pad)] # Nothing
    BY <1>1, <1>4, <1>6 DEF InHand, Shape, s
  <1>22. \A r1, r2 \in s.records : r1[1] = r2[1] => r1 = r2
    BY <1>1 DEF InHand, s
  <1>23. InHand(u)'
    BY <1>2, <1>7, <1>9, <1>10, <1>11, <1>12, <1>13, <1>14, <1>15, <1>16, <1>17, <1>18, <1>19, <1>20,
       <1>21, <1>22 DEF InHand
  <1> QED BY <1>1, <1>2, <1>23

\* The objects a step may take into use.
Known(t, o) == o = Nothing \/ o \notin DOMAIN mem \/ (\E p \in Pads : cache[p] = o)
                   \/ o = task[t].held \/ o = task[t].obj

LEMMA OthersPrivate ==
    ASSUME TypeInv, HandsInv, NEW t \in Tasks, Footprint(t),
           Known(t, task'[t].held), Known(t, task'[t].obj),
           \A p \in Pads : Known(t, cache'[p]),
           NEW u \in Tasks \ {t}, task[u].pc \in {"init", "padLoad"}
    PROVE  /\ \A p \in Pads : cache'[p] # task[u].obj
           /\ \A v \in Tasks : task'[v].held # task[u].obj
           /\ \A v \in Tasks \ {u} : task'[v].obj # task[u].obj
  <1> DEFINE o == task[u].obj
  <1>1. o \in DOMAIN mem /\ o # Nothing
    BY TaskFields DEF HandsInv, Shape
  <1>2. /\ \A p \in Pads : cache[p] # o
        /\ \A v \in Tasks : task[v].held # o
        /\ \A v \in Tasks \ {u} : task[v].obj # o
    BY DEF HandsInv, Private
  <1> HIDE DEF o
  <1>3. \A x : Known(t, x) => x # o
    BY <1>1, <1>2 DEF Known
  <1>4. \A v \in Tasks \ {t} : task'[v] = task[v]
    BY DEF Footprint
  <1> QED BY <1>2, <1>3, <1>4 DEF o

\* A pad that t does not use stays as it is in the cache and in the database.
LEMMA OthersStored ==
    ASSUME TakeTurns, TypeInv, TypeInv', HandsInv, NEW t \in Tasks, Footprint(t),
           NEW p \in Pads \ Uses(t), cache'[p] # Nothing, ~Rewritten(p)'
    PROVE  mem'[cache'[p]] = view'[PadKey(p)]
  <1>1. cache'[p] = cache[p] /\ view'[PadKey(p)] = view[PadKey(p)]
    <2>1. p \notin AloneOf(t)
      BY AloneInUses
    <2> QED BY <2>1, KeysInside DEF Footprint
  <1>2. ~Rewritten(p)
    <2>1. SUFFICES ASSUME NEW u \in Tasks, task[u].op = "compact", task[u].pad = p,
                          task[u].pc \in {"revs", "unload"}
                   PROVE  Rewritten(p)'
      BY DEF Rewritten
    <2>2. u # t
      <3>1. Busy(u)
        BY <2>1 DEF Busy
      <3> QED BY <2>1, <3>1, AloneInUses
    <2> QED BY <2>1, <2>2 DEF Footprint, Rewritten
  <1>3. mem[cache[p]] = view[PadKey(p)]
    BY <1>1, <1>2 DEF HandsInv, CacheIsStored
  <1>4. cache[p] \in DOMAIN mem \cap DOMAIN mem'
    <2>1. cache[p] \in DOMAIN mem
      BY <1>1, TaskFields
    <2>2. cache'[p] \in DOMAIN mem'
      BY DEF TypeInv
    <2> QED BY <1>1, <2>1, <2>2
  <1>5. ~(cache[p] = task[t].obj /\ task[t].pc = "init")
    BY DEF HandsInv, Private
  <1>6. ~ \E q \in Uses(t) : cache[q] = cache[p]
    <2>1. \A q \in Uses(t) : q \in Pads
      BY AloneInUses
    <2> QED BY <1>1, <2>1 DEF HandsInv, OneObjectPerPad
  <1> QED BY <1>1, <1>3, <1>4, <1>5, <1>6 DEF Footprint

\* The pads a step leaves to t are among those it had.
LEMMA TurnsStay ==
    ASSUME TakeTurns, TypeInv, TypeInv', HandsInv, NEW t \in Tasks, Footprint(t),
           Busy(t)' => Busy(t) /\ Uses(t)' \subseteq Uses(t) /\ AloneOf(t)' \subseteq AloneOf(t)
    PROVE  TurnsTaken'
  <1>1. ASSUME NEW u \in Tasks \ {t}, Busy(u)
        PROVE  AloneOf(u)' = AloneOf(u) /\ Uses(u)' = Uses(u)
    <2>1. task'[u] = task[u] /\ \A p \in Uses(u) : cache'[p] = cache[p]
      BY <1>1, OthersKeep
    <2>2. task[u].pad \in Uses(u)
      BY <1>1, AloneInUses
    <2> QED BY <2>1, <2>2 DEF AloneOf, Alone, Uses
  <1>2. \A u \in Tasks \ {t} : Busy(u)' <=> Busy(u)
    BY DEF Footprint, Busy
  <1>3. \A u, v \in Tasks : u # v /\ Busy(u) /\ Busy(v) => AloneOf(u) \cap Uses(v) = {}
    BY DEF HandsInv, TurnsTaken
  <1>4. SUFFICES ASSUME NEW u \in Tasks, NEW v \in Tasks, u # v, Busy(u)', Busy(v)'
                 PROVE  AloneOf(u)' \cap Uses(v)' = {}
    BY DEF TurnsTaken
  <1>5. CASE u = t
    <2>1. v \in Tasks \ {t} /\ Busy(v) /\ Busy(u)
      BY <1>2, <1>4, <1>5
    <2>2. AloneOf(u)' \subseteq AloneOf(u) /\ Uses(v)' = Uses(v)
      BY <1>1, <1>4, <1>5, <2>1
    <2> QED BY <1>3, <1>4, <2>1, <2>2
  <1>6. CASE v = t
    <2>1. u \in Tasks \ {t} /\ Busy(u) /\ Busy(v)
      BY <1>2, <1>4, <1>6
    <2>2. AloneOf(u)' = AloneOf(u) /\ Uses(v)' \subseteq Uses(v)
      BY <1>1, <1>4, <1>6, <2>1
    <2> QED BY <1>3, <1>4, <2>1, <2>2
  <1>7. CASE u # t /\ v # t
    <2>1. u \in Tasks \ {t} /\ v \in Tasks \ {t} /\ Busy(u) /\ Busy(v)
      BY <1>2, <1>4, <1>7
    <2> QED BY <1>1, <1>3, <1>4, <2>1
  <1> QED BY <1>5, <1>6, <1>7

\* A step of t keeps the invariant, if it does for what t itself uses.
LEMMA StepKeeps ==
    ASSUME TakeTurns, TypeInv, TypeInv', HandsInv, NEW t \in Tasks, Footprint(t), TurnsTaken',
           Known(t, task'[t].held), Known(t, task'[t].obj),
           Shape(task'[t]), Busy(t)' => InHand(t)',
           task'[t].pc \in {"init", "padLoad"} =>
              /\ \A p \in Pads : cache'[p] # task'[t].obj
              /\ task'[t].held # task'[t].obj
              /\ \A u \in Tasks \ {t} : task[u].held # task'[t].obj /\ task[u].obj # task'[t].obj,
           \A p \in Pads : \/ cache'[p] \in {cache[p], Nothing}
                           \/ cache'[p] = task[t].obj /\ task[t].pc = "padLoad" /\ p = Target(t),
           \A p \in Uses(t) : cache'[p] # Nothing /\ ~Rewritten(p)' => mem'[cache'[p]] = view'[PadKey(p)]
    PROVE  HandsInv'
  <1>1. \A u \in Tasks \ {t} : task'[u] = task[u]
    BY DEF Footprint
  <1>2. ASSUME NEW u \in Tasks PROVE Shape(task'[u]) /\ (Busy(u)' => InHand(u)')
    <2>1. CASE u # t /\ Busy(u)
      BY <2>1, OthersInHand
    <2>2. CASE u # t /\ ~Busy(u)
      BY <1>1, <2>2 DEF Busy, HandsInv
    <2> QED BY <2>1, <2>2
  <1>3. \A p \in Pads : Known(t, cache'[p])
    BY DEF Known
  <1>4. Private'
    <2>1. SUFFICES ASSUME NEW u \in Tasks, task'[u].pc \in {"init", "padLoad"}
                   PROVE  /\ \A p \in Pads : cache'[p] # task'[u].obj
                          /\ \A v \in Tasks : task'[v].held # task'[u].obj
                          /\ \A v \in Tasks \ {u} : task'[v].obj # task'[u].obj
      BY DEF Private
    <2>2. CASE u = t
      BY <1>1, <2>1, <2>2
    <2>3. CASE u # t
      <3>1. u \in Tasks \ {t} /\ task'[u] = task[u] /\ task[u].pc \in {"init", "padLoad"}
        BY <1>1, <2>1, <2>3
      <3> QED BY <1>3, <3>1, OthersPrivate
    <2> QED BY <2>2, <2>3
  <1>5. OneObjectPerPad'
    <2>1. \A p, q \in Pads : cache[p] = cache[q] /\ cache[p] # Nothing => p = q
      BY DEF HandsInv, OneObjectPerPad
    <2>2. task[t].pc = "padLoad" => \A p \in Pads : cache[p] # task[t].obj
      BY DEF HandsInv, Private
    <2> QED BY <2>1, <2>2 DEF OneObjectPerPad
  <1>6. CacheIsStored'
    <2>1. SUFFICES ASSUME NEW p \in Pads, cache'[p] # Nothing, ~Rewritten(p)'
                   PROVE  mem'[cache'[p]] = view'[PadKey(p)]
      BY DEF CacheIsStored
    <2>2. CASE p \in Uses(t)
      BY <2>1, <2>2
    <2>3. CASE p \notin Uses(t)
      BY <2>1, <2>3, OthersStored
    <2> QED BY <2>2, <2>3
  <1> QED BY <1>2, <1>4, <1>5, <1>6 DEF HandsInv

-----------------------------------------------------------------------------
(* Steps, action by action. *)

LEMMA IdleTyped == Idle \in TaskType /\ Shape(Idle) /\ Idle.pc = "idle" /\ Idle.held = Nothing
                       /\ Idle.obj = Nothing /\ Idle.records = {} /\ Idle.op = "none"
  <1>1. <<>> \in Texts /\ 0 \in Nat
    BY DEF Texts
  <1>2. Idle \in TaskType
    BY <1>1 DEF Idle, TaskType
  <1>3. Shape(Idle)
    BY DEF Idle, Shape, PlainOps, CopyOps, Copies, Snapshots, Loading
  <1> QED BY <1>2, <1>3 DEF Idle

LEMMA GotoIs ==
    ASSUME TypeInv, NEW t \in Tasks, NEW awaits \in SUBSET Keys,
           NEW pc \in {"idle", "run", "write", "clear", "read", "records", "second", "delete", "head",
                       "revs", "unload"} \cup Loading
    PROVE  LET s == Goto(t, pc, awaits) IN
           /\ s \in TaskType /\ s.pc = pc /\ s.awaits = awaits /\ s.op = task[t].op /\ s.pad = task[t].pad
           /\ s.dst = task[t].dst /\ s.held = task[t].held /\ s.obj = task[t].obj /\ s.n = task[t].n
           /\ s.records = task[t].records /\ s.from = task[t].from
  BY ZenonT(60), TaskFields DEF Goto, TaskType

\* A step that writes nothing, and may forget objects.
LEMMA QuietStep ==
    ASSUME TakeTurns, TypeInv, HandsInv, NEW t \in Tasks, Busy(t), NEW s \in TaskType,
           task' = [task EXCEPT ![t] = s], UNCHANGED <<view, disk, cache, calls>>,
           mem' = mem \/ mem' = Live(mem, cache, task'),
           {s.held, s.obj} \subseteq {Nothing, task[t].held, task[t].obj} \cup {cache[p] : p \in Pads},
           s.op \in {"append", "chat"} => s.n <= MaxCalls,
           s.op = "chat" /\ s.pc \in {"getPad", "init", "padLoad", "run"} => t \in Chatting,
           \A r \in s.records : IsRecord(ChatRoom, r[1], r[2]),
           Shape(s), s.pc \notin {"idle", "init", "padLoad"} => InHand(t)', s.pc \notin {"init", "padLoad"},
           s.pc # "idle" => /\ {s.pad, s.dst} \ {Nothing} \subseteq Uses(t)
                            /\ Alone(s.op, s.pad, s.dst) \subseteq AloneOf(t),
           ~(task[t].op = "compact" /\ task[t].pc \in {"revs", "unload"})
    PROVE  TypeInv' /\ HandsInv' /\ Footprint(t)
  <1>1. task'[t] = s /\ \A u \in Tasks \ {t} : task'[u] = task[u]
    BY ChattingStep
  <1>2. {s.held, s.obj} \subseteq DOMAIN mem \cup {Nothing}
    BY TaskFields
  <1>3. /\ IsFiniteSet(DOMAIN mem') /\ DOMAIN mem' \subseteq DOMAIN mem
        /\ \A o \in DOMAIN mem' : mem'[o] = mem[o]
        /\ \A p \in Pads : cache[p] \in DOMAIN mem' \cup {Nothing}
        /\ \A u \in Tasks : {task'[u].held, task'[u].obj} \subseteq DOMAIN mem' \cup {Nothing}
    <2>1. IsFiniteSet(DOMAIN mem) /\ (\A p \in Pads : cache[p] \in DOMAIN mem \cup {Nothing})
          /\ \A u \in Tasks : {task'[u].held, task'[u].obj} \subseteq DOMAIN mem \cup {Nothing}
      BY <1>1, <1>2, TaskFields DEF TypeInv
    <2>2. CASE mem' = mem
      BY <2>1, <2>2
    <2>3. CASE mem' = Live(mem, cache, task')
      <3>1. /\ DOMAIN mem' \subseteq DOMAIN mem /\ IsFiniteSet(DOMAIN mem')
            /\ \A o \in DOMAIN mem' : mem'[o] = mem[o]
            /\ \A p \in Pads : cache[p] \in DOMAIN mem => cache[p] \in DOMAIN mem'
            /\ \A u \in Tasks : {task'[u].held, task'[u].obj} \cap DOMAIN mem \subseteq DOMAIN mem'
        BY ZenonT(60), <2>1, <2>3, LiveIs
      <3> QED BY <2>1, <3>1
    <2> QED BY <2>2, <2>3
  <1>4. ChatRoom' \in Int /\ ChatRoom <= ChatRoom'
    <2>1. Chatting' \subseteq Chatting
      BY <1>1, ChattingStep
    <2> QED BY <2>1, RoomStays DEF TypeInv
  <1>5. TypeInv'
    <2>1. IsDatabase(ChatRoom', view') /\ IsDatabase(ChatRoom', disk')
      BY <1>4, RoomBounded, RoomGrows DEF TypeInv
    <2>2. \A o \in DOMAIN mem' : mem'[o] \in PadIn(ChatRoom')
      BY <1>3, <1>4, RoomBounded, RoomGrows, TaskFields
    <2>3. cache' \in [Pads -> DOMAIN mem' \cup {Nothing}]
      BY <1>3 DEF TypeInv
    <2>4. \A r \in s.records : IsRecord(ChatRoom', r[1], r[2])
      BY <1>4, RoomBounded, RoomGrows
    <2>5. DOMAIN mem' \subseteq Nat /\ calls' \in 1 .. MaxCalls
      BY <1>3 DEF TypeInv
    <2>6. {s.held, s.obj} \subseteq DOMAIN mem' \cup {Nothing}
          /\ \A u \in Tasks \ {t} : {task[u].held, task[u].obj} \subseteq DOMAIN mem' \cup {Nothing}
      BY <1>1, <1>3
    <2> QED BY <1>3, <1>4, <2>1, <2>2, <2>3, <2>4, <2>5, <2>6, StepTyped
  <1>6. Footprint(t)
    BY <1>1, <1>3 DEF Footprint
  <1>7. TurnsTaken'
    <2>1. Busy(t)' => Uses(t)' \subseteq Uses(t) /\ AloneOf(t)' \subseteq AloneOf(t)
      BY <1>1 DEF Busy, Uses, AloneOf, Alone
    <2> QED BY <1>5, <1>6, <2>1, TurnsStay
  <1>8. Known(t, task'[t].held) /\ Known(t, task'[t].obj)
    BY <1>1 DEF Known
  <1>9. ASSUME NEW p \in Uses(t), cache'[p] # Nothing, ~Rewritten(p)'
        PROVE  mem'[cache'[p]] = view'[PadKey(p)]
    <2>1. p \in Pads
      BY AloneInUses
    <2>2. ~Rewritten(p)
      BY <1>1, <1>9 DEF Rewritten
    <2>3. mem[cache[p]] = view[PadKey(p)]
      BY <1>9, <2>1, <2>2 DEF HandsInv, CacheIsStored
    <2> QED BY <1>3, <1>9, <2>1, <2>3
  <1>10. Busy(t)' => InHand(t)'
    BY <1>1 DEF Busy
  <1>11. HandsInv'
    BY <1>1, <1>5, <1>6, <1>7, <1>8, <1>9, <1>10, StepKeeps
  <1> QED BY <1>5, <1>6, <1>11

\* A call ends, having written nothing in its last step.
LEMMA QuietReturn ==
    ASSUME TakeTurns, TypeInv, HandsInv, NEW t \in Tasks, Busy(t), NEW keeps,
           Return(t, mem, cache, keeps), UNCHANGED <<view, disk, calls>>,
           ~(task[t].op = "compact" /\ task[t].pc \in {"revs", "unload"})
    PROVE  TypeInv' /\ HandsInv' /\ Footprint(t)
  <1> DEFINE s == Idle
  <1>1. /\ s \in TaskType /\ Shape(s) /\ s.pc = "idle" /\ s.held = Nothing
        /\ s.obj = Nothing /\ s.records = {} /\ s.op = "none"
    BY IdleTyped
  <1> HIDE DEF s
  <1>2. task' = [task EXCEPT ![t] = s] /\ mem' = Live(mem, cache, task') /\ cache' = cache
    BY DEF Return, Step, s
  <1> QED BY <1>1, <1>2, QuietStep

LEMMA OpenStep ==
    ASSUME TakeTurns, TypeInv, HandsInv, NEW t \in Tasks, Open(t)
    PROVE  TypeInv' /\ HandsInv' /\ Footprint(t)
  <1>1. Busy(t) /\ task[t].pc = "run"
    BY DEF Open, Running, At, Busy
  <1> QED BY <1>1, QuietReturn DEF Open

LEMMA WrittenStep ==
    ASSUME TakeTurns, TypeInv, HandsInv, NEW t \in Tasks, Written(t)
    PROVE  TypeInv' /\ HandsInv' /\ Footprint(t)
  <1>1. Busy(t) /\ task[t].pc = "write"
    BY DEF Written, At, Busy
  <1> QED BY <1>1, QuietReturn DEF Written

LEMMA ReloadedStep ==
    ASSUME TakeTurns, TypeInv, HandsInv, NEW t \in Tasks, Reloaded(t)
    PROVE  TypeInv' /\ HandsInv' /\ Footprint(t)
  <1>1. Busy(t) /\ task[t].pc = "second"
    BY DEF Reloaded, At, Busy
  <1> QED BY <1>1, QuietReturn DEF Reloaded

\* A pad that is cached is taken from there.
LEMMA CachedStep ==
    ASSUME TakeTurns, TypeInv, HandsInv, NEW t \in Tasks, getPad(t), cache[Target(t)] # Nothing
    PROVE  TypeInv' /\ HandsInv' /\ Footprint(t)
  <1> DEFINE o == cache[Target(t)]
             s == Got(t, o)
  <1>1. /\ Busy(t) /\ task[t].pc = "getPad" /\ Shape(task[t]) /\ InHand(t)
        /\ task' = [task EXCEPT ![t] = s] /\ UNCHANGED <<view, disk, mem, cache, calls>>
    BY DEF getPad, At, Busy, Step, HandsInv
  <1>2. task[t].held = Nothing
    \* otherwise there would be nothing in the cache
    <2>1. task[t].held # Nothing => Target(t) = task[t].dst /\ cache[task[t].dst] = Nothing
      BY <1>1 DEF Target, InHand, Reading
    <2> QED BY <2>1
  <1>3. /\ Target(t) = task[t].pad /\ task[t].pad \in Pads /\ o \in DOMAIN mem /\ o \in Nat
        /\ mem[o].text \in Texts /\ task[t].obj = Nothing /\ <<>> \in Texts
    <2>1. Target(t) = task[t].pad /\ task[t].pad \in Pads
      BY <1>1, <1>2 DEF Target, Shape
    <2>2. o \in DOMAIN mem /\ o \in Nat
      BY <2>1, TaskFields DEF TypeInv
    <2>3. mem[o].text \in Texts
      BY <2>2, TaskFields, PadParts, RoomBounded
    <2> QED BY <1>1, <2>1, <2>2, <2>3 DEF Shape, Texts
  <1> HIDE DEF o
  <1>4. /\ s \in TaskType /\ s.pc = "run" /\ s.op = task[t].op /\ s.pad = task[t].pad /\ s.dst = task[t].dst
        /\ s.held = o /\ s.obj = Nothing /\ s.n = task[t].n /\ s.records = task[t].records
    BY ZenonT(60), <1>2, <1>3, TaskFields DEF Got, Goto, TaskType
  <1> HIDE DEF s
  <1>5. task'[t] = s
    BY <1>1, ChattingStep
  <1>6. o # Nothing /\ s.op # "none" /\ (s.op \in {"append", "chat"} => s.n <= MaxCalls)
    BY <1>1, <1>3, <1>4, Constants DEF Shape, TypeInv, o
  <1>7. Shape(s)
    BY <1>1, <1>2, <1>3, <1>4, <1>6 DEF Shape, Loading
  <1>8. InHand(t)'
    BY <1>1, <1>3, <1>4, <1>5 DEF InHand, Reading, o
  <1>9. {s.held, s.obj} \subseteq {Nothing, task[t].held, task[t].obj} \cup {cache[p] : p \in Pads}
    BY <1>3, <1>4 DEF o
  <1>10. {s.pad, s.dst} \ {Nothing} \subseteq Uses(t) /\ Alone(s.op, s.pad, s.dst) \subseteq AloneOf(t)
    BY <1>4 DEF Uses, AloneOf
  <1>11. s.op = "chat" => t \in Chatting
    BY <1>1, <1>4 DEF Chatting
  <1>12. \A r \in s.records : IsRecord(ChatRoom, r[1], r[2])
    BY <1>4 DEF TypeInv
  <1> QED BY <1>1, <1>4, <1>6, <1>7, <1>8, <1>9, <1>10, <1>11, <1>12, QuietStep

\* A step that goes on to another place, and writes nothing.
LEMMA QuietGoto ==
    ASSUME TakeTurns, TypeInv, HandsInv, NEW t \in Tasks, Busy(t), NEW s,
           NEW pc \in {"run", "write", "read", "records", "getPad", "delete"},
           s.pc = pc, s \in TaskType, task' = [task EXCEPT ![t] = s],
           s.op = task[t].op, s.pad = task[t].pad, s.dst = task[t].dst, s.held = task[t].held,
           s.obj = Nothing,
           UNCHANGED <<view, disk, cache, mem, calls>>,
           s.op \in {"append", "chat"} => s.n <= MaxCalls /\ pc # "run" /\ pc # "getPad",
           \A r \in s.records : IsRecord(ChatRoom, r[1], r[2]),
           Shape(s), InHand(t)',
           ~(task[t].op = "compact" /\ task[t].pc \in {"revs", "unload"})
    PROVE  TypeInv' /\ HandsInv' /\ Footprint(t)
  <1>1. {s.pad, s.dst} \ {Nothing} \subseteq Uses(t) /\ Alone(s.op, s.pad, s.dst) \subseteq AloneOf(t)
    BY DEF Uses, AloneOf
  <1> QED BY <1>1, QuietStep

\* The revision is saved already.
LEMMA SavedStep ==
    ASSUME TakeTurns, TypeInv, HandsInv, NEW t \in Tasks, addSavedRevision(t),
           mem[task[t].held].head \in mem[task[t].held].saved
    PROVE  TypeInv' /\ HandsInv' /\ Footprint(t)
  <1> DEFINE s == Goto(t, "write", {})
  <1>1. /\ Busy(t) /\ task[t].pc = "run" /\ task[t].op = "save" /\ Shape(task[t]) /\ InHand(t)
        /\ task' = [task EXCEPT ![t] = s] /\ UNCHANGED <<view, disk, mem, cache, calls>>
    BY DEF addSavedRevision, Running, At, Busy, Step, HandsInv
  <1>2. /\ s \in TaskType /\ s.pc = "write" /\ s.op = task[t].op /\ s.pad = task[t].pad
        /\ s.dst = task[t].dst /\ s.held = task[t].held /\ s.obj = task[t].obj /\ s.records = task[t].records
    BY GotoIs
  <1> HIDE DEF s
  <1>3. task'[t] = s
    BY <1>1, ChattingStep
  <1>4. Shape(s) /\ s.obj = Nothing
    BY <1>1, <1>2 DEF Shape, Loading
  <1>5. InHand(t)'
    BY <1>1, <1>2, <1>3 DEF InHand, HasPad, Reading
  <1>6. \A r \in s.records : IsRecord(ChatRoom, r[1], r[2])
    BY <1>2 DEF TypeInv
  <1> QED BY <1>1, <1>2, <1>4, <1>5, <1>6, QuietGoto

LEMMA RenamedIs ==
    ASSUME NEW p \in Pads, NEW q \in Pads, NEW k \in KeysOf(p)
    PROVE  /\ Renamed(k, q) \in KeysOf(q) /\ Renamed(k, q)[1] = k[1] /\ Renamed(k, q)[3] = k[3]
           /\ \A j \in KeysOf(p) : Renamed(j, q) = Renamed(k, q) => j = k
           /\ Renamed(PadKey(p), q) = PadKey(q)
           /\ \A r : Renamed(RevKey(p, r), q) = RevKey(q, r)
           /\ \A n : Renamed(ChatKey(p, n), q) = ChatKey(q, n)
  <1>1. /\ Renamed(PadKey(p), q) = PadKey(q)
        /\ \A r : Renamed(RevKey(p, r), q) = RevKey(q, r)
        /\ \A n : Renamed(ChatKey(p, n), q) = ChatKey(q, n)
    BY DEF Renamed, PadKey, RevKey, ChatKey
  <1>2. k = PadKey(p) \/ (\E r \in 0 .. MaxHead : k = RevKey(p, r))
          \/ (\E n \in 0 .. MaxCalls : k = ChatKey(p, n))
    BY DEF KeysOf, RevKeys, ChatKeys
  <1>3. Renamed(k, q) \in KeysOf(q)
    BY <1>1, <1>2, KeysInside
  <1>4. Renamed(k, q)[1] = k[1] /\ Renamed(k, q)[3] = k[3]
    BY DEF Renamed
  <1>5. \A j \in KeysOf(p) : j = <<j[1], p, j[3]>>
    BY DEF KeysOf, RevKeys, ChatKeys, PadKey, RevKey, ChatKey
  <1>6. \A j \in KeysOf(p) : Renamed(j, q) = Renamed(k, q) => j = k
    BY <1>5 DEF Renamed
  <1> QED BY <1>1, <1>3, <1>4, <1>6

\* Records of a key are records of the renamed key.
LEMMA RenamedRecord ==
    ASSUME NEW room, NEW k, NEW j, k[1] = j[1], k[3] = j[3], NEW rec, IsRecord(room, k, rec)
    PROVE  IsRecord(room, j, rec)
  BY DEF IsRecord

LEMMA RecordInAny ==
    ASSUME NEW room \in Int, room <= MaxCalls, NEW k \in Keys, NEW rec, IsRecord(room, k, rec)
    PROVE  rec \in AnyRecord
  <1>1. PadIn(room) \subseteq PadRecord
    <2>1. -1 .. room \subseteq -1 .. MaxCalls
      BY Constants
    <2> QED BY <2>1 DEF PadIn, PadRecord
  <1>2. \A r : RevisionRecord(r) \subseteq [changeset : Texts, atext : Texts \cup {Nothing}]
    BY DEF RevisionRecord
  <1>3. 0 .. MaxCalls \subseteq Nat
    BY Constants
  <1> QED BY <1>1, <1>2, <1>3 DEF IsRecord, AnyRecord

-----------------------------------------------------------------------------
(* The text that revisions make. *)

Changes(db, p, to) == [i \in 1 .. to + 1 |-> db[RevKey(p, i - 1)].changeset]

\* Revisions that are there have changesets.
LEMMA ChangesTyped ==
    ASSUME NEW room, NEW db, IsDatabase(room, db), NEW p \in Pads, NEW to \in -1 .. MaxHead,
           \A r \in 0 .. to : db[RevKey(p, r)] # Nothing
    PROVE  Changes(db, p, to) \in [1 .. to + 1 -> Texts]
  <1>1. ASSUME NEW i \in 1 .. to + 1 PROVE db[RevKey(p, i - 1)].changeset \in Texts
    <2> DEFINE r == i - 1
    <2>1. r \in 0 .. MaxHead /\ r \in 0 .. to
      BY Constants
    <2> HIDE DEF r
    <2>2. IsRecord(room, RevKey(p, r), db[RevKey(p, r)]) /\ db[RevKey(p, r)] # Nothing
      BY <2>1, KeysInside DEF IsDatabase
    <2>3. db[RevKey(p, r)] \in RevisionRecord(r)
      BY <2>2, RecordKinds
    <2>4. db[RevKey(p, r)].changeset \in Texts
      BY <2>3 DEF RevisionRecord
    <2> QED BY <2>4 DEF r
  <1> QED BY <1>1 DEF Changes

LEMMA ComposedStep ==
    ASSUME NEW room, NEW db, IsDatabase(room, db), NEW p \in Pads, NEW to \in 0 .. MaxHead,
           \A r \in 0 .. to : db[RevKey(p, r)] # Nothing
    PROVE  /\ Composed(db, p, -1) = <<>>
           /\ Composed(db, p, to - 1) \in Texts /\ Composed(db, p, to) \in Texts
           /\ Composed(db, p, to) = Composed(db, p, to - 1) \o db[RevKey(p, to)].changeset
  <1>1. \A n : Composed(db, p, n) = FlattenSeq(Changes(db, p, n))
    BY DEF Composed, Changes
  <1>2. Changes(db, p, -1) = <<>>
    BY DEF Changes
  <1>3. Composed(db, p, -1) = <<>>
    BY <1>1, <1>2, FlattenEmpty
  <1> DEFINE s == Changes(db, p, to - 1)
             t == Changes(db, p, to)
  <1>4. t \in [1 .. to + 1 -> Texts]
    <2>1. to \in -1 .. MaxHead
      OBVIOUS
    <2> QED BY <2>1, ChangesTyped
  <1>5. s \in [1 .. to -> Texts]
    <2>1. to - 1 \in -1 .. MaxHead /\ (to - 1) + 1 = to /\ \A r \in 0 .. to - 1 : r \in 0 .. to
      BY Constants
    <2>2. s \in [1 .. (to - 1) + 1 -> Texts]
      BY <2>1, ChangesTyped
    <2> QED BY <2>1, <2>2
  <1>6. \A i \in 1 .. to : s[i] = t[i]
    BY DEF Changes
  <1>7. t[to + 1] = db[RevKey(p, to)].changeset
    <2>1. to + 1 \in 1 .. to + 1 /\ to + 1 - 1 = to
      OBVIOUS
    <2> QED BY <2>1 DEF Changes
  <1> HIDE DEF s, t
  <1>8. Composed(db, p, to - 1) = FlattenSeq(s) /\ Composed(db, p, to) = FlattenSeq(t)
    BY <1>1 DEF s, t
  <1>9. CASE to = 0
    <2>1. Composed(db, p, to - 1) = <<>>
      BY <1>3, <1>9
    <2>2. t \in [1 .. 1 -> Seq(0 .. MaxCalls)]
      BY <1>4, <1>9 DEF Texts
    <2>3. FlattenSeq(t) = t[1] /\ t[1] \in Texts
      BY <2>2, FlattenOne DEF Texts
    <2>4. <<>> \in Texts
      BY DEF Texts
    <2>5. <<>> \o t[1] = t[1]
      BY <2>3 DEF Texts
    <2>6. Composed(db, p, to) = t[1] /\ t[1] = db[RevKey(p, to)].changeset
      BY <1>7, <1>8, <1>9, <2>3
    <2> QED BY <1>3, <2>1, <2>3, <2>4, <2>5, <2>6
  <1>10. CASE to # 0
    <2>1. to \in Nat \ {0} /\ t[to + 1] \in Texts
      BY <1>4, <1>10
    <2>4. s \in [1 .. to -> Seq(0 .. MaxCalls)] /\ t \in [1 .. to + 1 -> Seq(0 .. MaxCalls)]
      BY <1>4, <1>5 DEF Texts
    <2>2. FlattenSeq(s) \in Texts /\ FlattenSeq(t) = FlattenSeq(s) \o t[to + 1]
      BY ZenonT(60), <1>6, <2>1, <2>4, FlattenMore DEF Texts
    <2>3. FlattenSeq(t) \in Texts
      BY <2>1, <2>2 DEF Texts
    <2> QED BY <1>3, <1>7, <1>8, <2>2, <2>3
  <1> QED BY <1>9, <1>10

\* The text depends on the changesets only.
LEMMA ComposedSame ==
    ASSUME NEW db, NEW old, NEW p, NEW q, NEW to \in Int,
           \A r \in 0 .. to : db[RevKey(p, r)].changeset = old[RevKey(q, r)].changeset
    PROVE  Composed(db, p, to) = Composed(old, q, to)
  <1>1. \A i \in 1 .. to + 1 : db[RevKey(p, i - 1)].changeset = old[RevKey(q, i - 1)].changeset
    BY \A i \in 1 .. to + 1 : i - 1 \in 0 .. to
  <1> QED BY <1>1 DEF Composed

LEMMA ComposedTyped ==
    ASSUME NEW room, NEW db, IsDatabase(room, db), NEW p \in Pads, NEW to \in -1 .. MaxHead,
           \A r \in 0 .. to : db[RevKey(p, r)] # Nothing
    PROVE  Composed(db, p, to) \in Texts
  <1>1. CASE to = -1
    <2>1. Changes(db, p, -1) = <<>>
      BY DEF Changes
    <2>2. Composed(db, p, -1) = FlattenSeq(Changes(db, p, -1))
      BY DEF Changes, Composed
    <2>3. <<>> \in Texts
      BY DEF Texts
    <2>4. Composed(db, p, -1) \in Texts
      BY <2>1, <2>2, <2>3, FlattenEmpty
    <2> QED BY <1>1, <2>4
  <1>2. CASE to # -1
    <2>1. to \in 0 .. MaxHead
      BY <1>2
    <2> QED BY <2>1, ComposedStep
  <1> QED BY <1>1, <1>2

-----------------------------------------------------------------------------
(* Steps that write. *)

\* A step that keeps to its footprint.
LEMMA WriteStep ==
    ASSUME TakeTurns, TypeInv, HandsInv, NEW t \in Tasks, Busy(t), NEW s \in TaskType,
           task' = [task EXCEPT ![t] = s], UNCHANGED <<disk, calls>>,
           ChatRoom' \in Int, ChatRoom <= ChatRoom', IsDatabase(ChatRoom', view'),
           \A p \in Pads \ Uses(t) : \A k \in KeysOf(p) : view'[k] = view[k],
           IsFiniteSet(DOMAIN mem'), DOMAIN mem' \subseteq Nat,
           \A o \in DOMAIN mem' : mem'[o] \in PadIn(ChatRoom'),
           \A o \in DOMAIN mem \cap DOMAIN mem' :
             \/ mem'[o] = mem[o]
             \/ o = task[t].obj /\ task[t].pc = "init"
             \/ \E p \in Uses(t) : cache[p] = o,
           cache' \in [Pads -> DOMAIN mem' \cup {Nothing}],
           \A p \in Pads :
             \/ cache'[p] = cache[p]
             \/ p \in AloneOf(t) /\ \/ cache'[p] = Nothing
                                    \/ cache'[p] = task[t].obj /\ task[t].pc = "padLoad" /\ p = Target(t),
           {s.held, s.obj} \subseteq DOMAIN mem' \cup {Nothing}, Known(t, s.held), Known(t, s.obj),
           \A u \in Tasks \ {t} : {task[u].held, task[u].obj} \subseteq DOMAIN mem' \cup {Nothing},
           s.op \in {"append", "chat"} => s.n <= MaxCalls,
           \A r \in s.records : IsRecord(ChatRoom', r[1], r[2]),
           Shape(s), s.pc # "idle" => InHand(t)',
           s.pc \in {"init", "padLoad"} =>
              /\ \A p \in Pads : cache'[p] # s.obj
              /\ s.held # s.obj
              /\ \A u \in Tasks \ {t} : task[u].held # s.obj /\ task[u].obj # s.obj,
           s.pc # "idle" => Uses(t)' \subseteq Uses(t) /\ AloneOf(t)' \subseteq AloneOf(t),
           \A p \in Uses(t) : cache'[p] # Nothing /\ ~Rewritten(p)' => mem'[cache'[p]] = view'[PadKey(p)]
    PROVE  TypeInv' /\ HandsInv' /\ Footprint(t)
  <1>1. task'[t] = s /\ \A u \in Tasks \ {t} : task'[u] = task[u]
    BY ChattingStep
  <1>2. TypeInv'
    <2>1. IsDatabase(ChatRoom', disk') /\ calls' \in 1 .. MaxCalls
      BY RoomBounded, RoomGrows DEF TypeInv
    <2> QED BY <2>1, StepTyped
  <1>3. Footprint(t)
    BY <1>1 DEF Footprint
  <1>4. Busy(t)' <=> s.pc # "idle"
    BY <1>1 DEF Busy
  <1>5. TurnsTaken'
    BY <1>2, <1>3, <1>4, TurnsStay
  <1>6. \A p \in Pads : \/ cache'[p] \in {cache[p], Nothing}
                        \/ cache'[p] = task[t].obj /\ task[t].pc = "padLoad" /\ p = Target(t)
    OBVIOUS
  <1>7. HandsInv'
    BY <1>1, <1>2, <1>3, <1>4, <1>5, <1>6, StepKeeps
  <1> QED BY <1>2, <1>3, <1>7

\* The objects stay, and so do the references to them.
LEMMA SameObjects ==
    ASSUME TypeInv, DOMAIN mem' = DOMAIN mem
    PROVE  /\ IsFiniteSet(DOMAIN mem') /\ DOMAIN mem' \subseteq Nat
           /\ \A u \in Tasks : {task[u].held, task[u].obj} \subseteq DOMAIN mem' \cup {Nothing}
           /\ \A p \in Pads : cache[p] \in DOMAIN mem' \cup {Nothing}
  BY TaskFields DEF TypeInv

\* A record that is set for a pad of t.
LEMMA SetsPad ==
    ASSUME TypeInv, NEW room, IsDatabase(room, view), NEW p \in Pads, NEW f, DOMAIN f \subseteq KeysOf(p), Set(f),
           \A k \in DOMAIN f : IsRecord(room, k, f[k])
    PROVE  /\ IsDatabase(room, view')
           /\ \A k \in DOMAIN f : view'[k] = f[k]
           /\ \A q \in Pads \ {p} : \A k \in KeysOf(q) : view'[k] = view[k]
           /\ \A k \in Keys \ DOMAIN f : view'[k] = view[k]
  <1>1. DOMAIN f \subseteq Keys
    BY KeysInside
  <1>2. /\ \A k \in DOMAIN f : view'[k] = f[k]
        /\ \A k \in Keys \ DOMAIN f : view'[k] = view[k]
        /\ IsDatabase(room, view')
    BY <1>1, SetIs
  <1>3. ASSUME NEW q \in Pads \ {p}, NEW k \in KeysOf(q) PROVE view'[k] = view[k]
    <2>1. k[2] = q /\ k \in Keys /\ \A j \in KeysOf(p) : j[2] = p
      BY KeysInside
    <2> QED BY <1>2, <2>1
  <1> QED BY <1>2, <1>3

LEMMA SetsPadOne ==
    ASSUME TypeInv, NEW room, IsDatabase(room, view), NEW p \in Pads, NEW key \in KeysOf(p), NEW rec,
           SetOne(key, rec), IsRecord(room, key, rec)
    PROVE  /\ IsDatabase(room, view')
           /\ view'[key] = rec
           /\ \A q \in Pads \ {p} : \A k \in KeysOf(q) : view'[k] = view[k]
           /\ \A k \in Keys \ {key} : view'[k] = view[k]
  <1>1. key \in Keys /\ key[2] = p
    BY KeysInside
  <1>2. view'[key] = rec /\ IsDatabase(room, view') /\ \A k \in Keys \ {key} : view'[k] = view[k]
    BY <1>1, SetOneIs
  <1>3. ASSUME NEW q \in Pads \ {p}, NEW k \in KeysOf(q) PROVE view'[k] = view[k]
    BY <1>1, <1>2, KeysInside
  <1> QED BY <1>2, <1>3

\* What a task with a pad has.
LEMMA CachedPad ==
    ASSUME TypeInv, HandsInv, NEW t \in Tasks, Busy(t), HasPad(task[t]), task[t].pc \notin {"revs", "unload"}
    PROVE  /\ task[t].pad \in Pads /\ task[t].pad \in Uses(t)
           /\ cache[task[t].pad] = task[t].held /\ task[t].held \in DOMAIN mem /\ task[t].held # Nothing
           /\ mem[task[t].held] \in PadIn(ChatRoom)
           /\ ~Rewritten(task[t].pad) => mem[task[t].held] = view[PadKey(task[t].pad)]
           /\ \A p \in Pads : cache[p] = task[t].held => p = task[t].pad
  <1>1. Shape(task[t]) /\ InHand(t) /\ task[t].held # Nothing
    BY DEF HandsInv, HasPad
  <1>2. task[t].pad \in Pads /\ task[t].pad \in Uses(t)
    BY AloneInUses
  <1>3. cache[task[t].pad] = task[t].held /\ task[t].held \in DOMAIN mem
    BY <1>1, TaskFields DEF InHand
  <1>4. mem[task[t].held] \in PadIn(ChatRoom)
    BY <1>3, TaskFields
  <1>5. ~Rewritten(task[t].pad) => mem[task[t].held] = view[PadKey(task[t].pad)]
    BY <1>1, <1>2, <1>3 DEF HandsInv, CacheIsStored
  <1>6. \A p \in Pads : cache[p] = task[t].held => p = task[t].pad
    BY <1>1, <1>2, <1>3 DEF HandsInv, OneObjectPerPad
  <1> QED BY <1>1, <1>2, <1>3, <1>4, <1>5, <1>6

\* Nobody rewrites a pad that another one uses.
LEMMA NotRewritten ==
    ASSUME TakeTurns, TypeInv, HandsInv, NEW t \in Tasks, NEW p \in Uses(t),
           ~(task[t].op = "compact" /\ task[t].pc \in {"revs", "unload"})
    PROVE  ~Rewritten(p)
  <1>1. SUFFICES ASSUME NEW u \in Tasks, task[u].op = "compact", task[u].pad = p,
                        task[u].pc \in {"revs", "unload"}
                 PROVE  FALSE
    BY DEF Rewritten
  <1>2. u \in Tasks \ {t} /\ Busy(u)
    BY <1>1 DEF Busy
  <1>3. p \in AloneOf(u)
    BY <1>1, AloneIs
  <1> QED BY <1>2, <1>3, NotShared

LEMMA RefusedStep ==
    ASSUME TakeTurns, TypeInv, HandsInv, NEW t \in Tasks, At(t, "clear"),
           Return(t, mem, cache, kept), UNCHANGED <<view, disk, calls>>
    PROVE  TypeInv' /\ HandsInv' /\ Footprint(t)
  BY QuietReturn DEF At, Busy

LEMMA ContinueIs ==
    ASSUME NEW op \in {"remove", "recreate"}, NEW p \in Pads, NEW q \in Pads \cup {Nothing},
           NEW o \in Nat, NEW text \in Texts
    PROVE  LET s == [Idle EXCEPT !.pc = "run", !.op = op, !.pad = p, !.dst = q, !.held = o, !.from = text] IN
           /\ s \in TaskType /\ s.pc = "run" /\ s.op = op /\ s.pad = p /\ s.dst = q /\ s.held = o
           /\ s.obj = Nothing /\ s.awaits = {} /\ s.n = 0 /\ s.records = {} /\ s.from = text
  BY DEF Idle, TaskType, PlainOps, CopyOps, Copies, Snapshots

LEMMA EmptyText == <<>> \in Texts
  BY DEF Texts

\* A copy is complete, or a pad that has been copied is removed.
LEMMA CopiedStep ==
    ASSUME TakeTurns, TypeInv, HandsInv, NEW t \in Tasks, Copied(t)
    PROVE  TypeInv' /\ HandsInv' /\ Footprint(t)
  <1>1. /\ Busy(t) /\ task[t].pc = "second" /\ Shape(task[t]) /\ InHand(t) /\ task[t].op \in Copies
        /\ UNCHANGED <<view, disk, calls>>
    BY DEF Copied, At, Busy, HandsInv
  <1>2. CASE task[t].op = "copy"
    <2>1. PICK keeps : Return(t, mem, cache, keeps)
      BY <1>2 DEF Copied
    <2> QED BY <1>1, <2>1, QuietReturn
  <1>3. CASE task[t].op # "copy"
    <2> DEFINE s == [Idle EXCEPT !.pc = "run", !.op = "remove", !.pad = task[t].pad, !.dst = Nothing,
                                 !.held = task[t].held, !.from = <<>>]
    <2>1. task' = [task EXCEPT ![t] = s] /\ UNCHANGED <<mem, cache>> /\ task[t].op = "move"
      BY <1>1, <1>3 DEF Copied, Continue, Step, Copies
    <2>2. HasPad(task[t])
      BY <1>1, <2>1 DEF HasPad, Shape, Loading
    <2>3. task[t].pad \in Pads /\ cache[task[t].pad] = task[t].held /\ task[t].held \in DOMAIN mem
          /\ task[t].held \in Nat /\ task[t].held # Nothing /\ task[t].pad \in Uses(t)
      BY <1>1, <2>2, CachedPad DEF TypeInv
    <2>4. /\ s \in TaskType /\ s.pc = "run" /\ s.op = "remove" /\ s.pad = task[t].pad /\ s.dst = Nothing
          /\ s.held = task[t].held /\ s.obj = Nothing /\ s.records = {}
      <3>1. task[t].pad \in Pads /\ Nothing \in Pads \cup {Nothing} /\ task[t].held \in Nat /\ <<>> \in Texts
        BY <2>3, EmptyText
      <3> QED BY <3>1 DEF Idle, TaskType, PlainOps, CopyOps, Copies, Snapshots
    <2> HIDE DEF s
    <2>5. task'[t] = s
      BY <2>1, ChattingStep
    <2>6. Shape(s)
      BY <2>3, <2>4 DEF Shape, PlainOps, CopyOps, Copies, Snapshots, Loading
    <2>7. InHand(t)'
      BY <2>1, <2>3, <2>4, <2>5 DEF InHand, Reading
    <2>8. {s.pad, s.dst} \ {Nothing} \subseteq Uses(t)
      BY <2>3, <2>4
    <2>9. Alone(s.op, s.pad, s.dst) \subseteq AloneOf(t)
      BY <2>1, <2>4 DEF AloneOf, Alone, Copies, Snapshots
    <2> QED BY <1>1, <2>1, <2>4, <2>6, <2>7, <2>8, <2>9, QuietStep
  <1> QED BY <1>2, <1>3

\* All reads are answered.
LEMMA CopiesReadStep ==
    ASSUME TakeTurns, TypeInv, HandsInv, NEW t \in Tasks, RecordsCopied(t)
    PROVE  TypeInv' /\ HandsInv' /\ Footprint(t)
  <1> DEFINE s == Goto(t, "getPad", {})
  <1>1. /\ Busy(t) /\ task[t].pc = "records" /\ Shape(task[t]) /\ InHand(t) /\ task[t].records = {}
        /\ task' = [task EXCEPT ![t] = s] /\ UNCHANGED <<view, disk, mem, cache, calls>>
    BY DEF RecordsCopied, At, Busy, Step, HandsInv
  <1>2. /\ s \in TaskType /\ s.pc = "getPad" /\ s.op = task[t].op /\ s.pad = task[t].pad
        /\ s.dst = task[t].dst /\ s.held = task[t].held /\ s.obj = task[t].obj /\ s.records = task[t].records
    BY GotoIs DEF Loading
  <1> HIDE DEF s
  <1>3. task'[t] = s
    BY <1>1, ChattingStep
  <1>4. /\ task[t].op \in Copies /\ s.held # Nothing /\ s.obj = Nothing /\ task[t].op \in CopyOps
        /\ task[t].op \notin Snapshots /\ task[t].op \notin PlainOps \cup {"compact"}
    BY <1>1, <1>2 DEF Shape, Loading, Copies, Snapshots, CopyOps, PlainOps
  <1>5. Shape(s)
    BY <1>1, <1>2, <1>4 DEF Shape, Loading
  <1>6. view[PadKey(s.dst)] # Nothing
    <2>1. PadKey(task[t].dst) \in Keys
      BY <1>1, <1>4, KeysInside DEF Shape
    <2>2. Planned(task[t], view)[PadKey(task[t].dst)] = view[PadKey(task[t].dst)]
      BY <1>1, <2>1 DEF Planned
    <2> QED BY <1>1, <1>2, <2>2 DEF InHand
  <1>7. InHand(t)'
    BY <1>1, <1>2, <1>3, <1>4, <1>6 DEF InHand, HasPad, Reading
  <1>8. \A r \in s.records : IsRecord(ChatRoom, r[1], r[2])
    BY <1>1, <1>2
  <1>9. s.op \notin {"append", "chat"}
    BY <1>2, <1>4 DEF PlainOps
  <1> QED BY <1>1, <1>2, <1>4, <1>5, <1>7, <1>8, <1>9, QuietGoto

LEMMA PlannedIs ==
    ASSUME NEW s, NEW db, \A r1, r2 \in s.records : r1[1] = r2[1] => r1 = r2
    PROVE  /\ \A r \in s.records : r[1] \in Keys => Planned(s, db)[r[1]] = r[2]
           /\ \A k \in Keys : ~(\E r \in s.records : r[1] = k) => Planned(s, db)[k] = db[k]
  <1>1. ASSUME NEW r \in s.records, r[1] \in Keys PROVE Planned(s, db)[r[1]] = r[2]
    <2>1. (CHOOSE x \in s.records : x[1] = r[1]) = r
      BY <1>1
    <2> QED BY <1>1, <2>1 DEF Planned
  <1>2. \A k \in Keys : ~(\E r \in s.records : r[1] = k) => Planned(s, db)[k] = db[k]
    BY DEF Planned
  <1> QED BY <1>1, <1>2

\* A pad of less than a batch is read at once.
LEMMA ReadAtOnce ==
    ASSUME TakeTurns, TypeInv, HandsInv, NEW t \in Tasks
    PROVE  /\ ~ReadMessages(t)
           /\ copyRecord(t) => task[t].pc = "records"
           /\ ReadRecords(t) =>
                LET p == task[t].pad
                    read == RecordKeys(p, mem[task[t].held])
                IN  /\ At(t, "read")
                    /\ Step(t, [Goto(t, "records", {}) EXCEPT
                                  !.records = {<<Renamed(k, task[t].dst), view[k]>> : k \in read}])
                    /\ UNCHANGED <<view, disk, mem, cache, kept, forgone, stray, calls, crashes>>
  <1>1. task[t].pc # "messages"
    <2>1. task[t] \in TaskType
      BY DEF TypeInv
    <2> QED BY <2>1 DEF TaskType, Loading
  <1>2. ASSUME ReadRecords(t) PROVE ~CountedLate(mem[task[t].held])
    <2>1. task[t].pc = "read"
      BY <1>2 DEF ReadRecords, At
    <2>2. task[t].held # Nothing
      BY <2>1 DEF HandsInv, Shape, Loading
    <2>3. mem[task[t].held] \in PadIn(ChatRoom)
      BY <2>2 DEF TypeInv
    <2>4. mem[task[t].held].head \in -1 .. MaxHead
      BY <2>3 DEF PadIn
    <2> QED BY <2>4, Constants DEF TakeTurns, CountedLate
  <1>3. ~ReadMessages(t)
    BY <1>1 DEF ReadMessages
  <1>4. copyRecord(t) => task[t].pc = "records"
    BY <1>1 DEF copyRecord
  <1> QED BY <1>2, <1>3, <1>4 DEF ReadRecords, Read

\* The source is read.
LEMMA ReadRecordsStep ==
    ASSUME TakeTurns, TypeInv, HandsInv, NEW t \in Tasks, ReadRecords(t)
    PROVE  TypeInv' /\ HandsInv' /\ Footprint(t)
  <1> DEFINE p == task[t].pad
             q == task[t].dst
             read == RecordKeys(p, mem[task[t].held])
             records == {<<Renamed(k, q), view[k]>> : k \in read}
             s == [Goto(t, "records", {}) EXCEPT !.records = records]
  <1>1. /\ Busy(t) /\ task[t].pc = "read" /\ Shape(task[t]) /\ InHand(t)
        /\ task' = [task EXCEPT ![t] = s] /\ UNCHANGED <<view, disk, mem, cache, calls>>
    BY ReadAtOnce DEF At, Busy, Step, HandsInv
  <1>2. /\ task[t].op \in Copies /\ task[t].held # Nothing /\ task[t].obj = Nothing
        /\ task[t].op \in CopyOps /\ task[t].op \notin PlainOps \cup {"compact"} \cup Snapshots
        /\ q \in Pads /\ p \in Pads
    BY <1>1 DEF Shape, Loading, Copies, Snapshots, CopyOps, PlainOps
  <1>3. HasPad(task[t])
    BY <1>1, <1>2 DEF HasPad, Copies
  <1>4. mem[task[t].held] \in PadIn(ChatRoom) /\ mem[task[t].held] = view[PadKey(p)]
    <2>1. p \in Uses(t) /\ task[t].op # "compact"
      BY <1>1, <1>2, <1>3, CachedPad
    <2>2. ~Rewritten(p)
      BY <2>1, NotRewritten
    <2> QED BY <1>1, <1>3, <2>2, CachedPad
  <1>5. read \subseteq KeysOf(p) /\ PadKey(p) \in read
    <2>1. ChatRoom \in Int /\ ChatRoom <= MaxCalls
      BY RoomBounded, Constants
    <2> QED BY <1>2, <1>4, <2>1, RemovedTyped
  <1>6. \A k \in read : IsRecord(ChatRoom, Renamed(k, q), view[k]) /\ Renamed(k, q) \in KeysOf(q) /\ Renamed(k, q) \in Keys
                        /\ view[k] \in AnyRecord
    <2> TAKE k \in read
    <2>1. Renamed(k, q) \in KeysOf(q) /\ Renamed(k, q)[1] = k[1] /\ Renamed(k, q)[3] = k[3] /\ k \in Keys
      BY <1>2, <1>5, RenamedIs, KeysInside
    <2>2. IsRecord(ChatRoom, k, view[k])
      BY <2>1 DEF TypeInv, IsDatabase
    <2>3. view[k] \in AnyRecord
      <3>1. ChatRoom \in Int /\ ChatRoom <= MaxCalls
        BY RoomBounded, Constants
      <3> QED BY <2>1, <2>2, <3>1, RecordInAny
    <2> QED BY <1>2, <2>1, <2>2, <2>3, RenamedRecord, KeysInside
  <1>7. \A k, j \in read : Renamed(k, q) = Renamed(j, q) => k = j
    BY <1>2, <1>5, RenamedIs
  <1> HIDE DEF read
  <1>8. /\ records \subseteq Keys \X AnyRecord
        /\ \A r \in records : IsRecord(ChatRoom, r[1], r[2]) /\ r[1] \in KeysOf(q)
        /\ \A r1, r2 \in records : r1[1] = r2[1] => r1 = r2
        /\ <<PadKey(q), view[PadKey(p)]>> \in records
    <2>1. Renamed(PadKey(p), q) = PadKey(q)
      BY <1>2, <1>5, RenamedIs
    <2> QED BY <1>5, <1>6, <1>7, <2>1
  <1> HIDE DEF records
  <1>9. /\ s \in TaskType /\ s.pc = "records" /\ s.op = task[t].op /\ s.pad = p /\ s.dst = q
        /\ s.held = task[t].held /\ s.obj = task[t].obj /\ s.records = records
    <2>1. Goto(t, "records", {}) \in TaskType
      BY GotoIs
    <2> QED BY <1>8, <2>1, GotoIs DEF TaskType
  <1> HIDE DEF s, p, q
  <1>10. task'[t] = s
    BY <1>1, ChattingStep
  <1>11. Shape(s) /\ s.obj = Nothing
    BY <1>1, <1>2, <1>9 DEF Shape, Loading, p, q
  <1>12. Planned(s, view)[PadKey(q)] # Nothing
    <2>1. Planned(s, view)[PadKey(q)] = view[PadKey(p)]
      <3>1. PadKey(q) \in Keys
        BY <1>2, KeysInside
      <3>2. \A r \in s.records : r[1] \in Keys => Planned(s, view)[r[1]] = r[2]
        BY <1>8, <1>9, PlannedIs
      <3> QED BY <1>8, <1>9, <3>1, <3>2
    <2> QED BY <1>4, <2>1, PadsAreRecords
  <1>13. InHand(t)'
    BY <1>1, <1>2, <1>8, <1>9, <1>10, <1>12 DEF InHand, HasPad, Reading, p, q
  <1>14. s.op \notin {"append", "chat"}
    BY <1>2, <1>9 DEF PlainOps
  <1> QED BY <1>1, <1>8, <1>9, <1>11, <1>13, <1>14, QuietGoto DEF p, q

\* Revisions that are to be compacted.
LEMMA RecreatedTyped ==
    ASSUME NEW room, IsDatabase(room, view), NEW p \in Pads, NEW until \in Nat, NEW r \in Nat,
           until + r <= MaxHead, \A i \in 0 .. until + r : view[RevKey(p, i)] # Nothing
    PROVE  Recreated(p, until, r) \in RevisionRecord(r)
  <1>1. until \in 0 .. MaxHead /\ until + r \in 0 .. MaxHead
        /\ until \in -1 .. MaxHead /\ until + r \in -1 .. MaxHead
    BY Constants
  <1>2. Composed(view, p, until) \in Texts
    BY <1>1, ComposedTyped
  <1> DEFINE n == until + r
  <1> HIDE DEF n
  <1>3. n \in -1 .. MaxHead /\ n \in 0 .. MaxHead /\ \A i \in 0 .. n : view[RevKey(p, i)] # Nothing
    BY <1>1 DEF n
  <1>4. Composed(view, p, n) \in Texts
    BY <1>3, ComposedTyped
  <1>5. view[RevKey(p, n)].changeset \in Texts
    <2>1. IsRecord(room, RevKey(p, n), view[RevKey(p, n)]) /\ view[RevKey(p, n)] # Nothing
      BY <1>3, KeysInside DEF IsDatabase
    <2>2. view[RevKey(p, n)] \in RevisionRecord(n)
      BY <2>1, RecordKinds
    <2> QED BY <2>2 DEF RevisionRecord
  <1>6. Recreated(p, until, r) = Revision(r, IF r = 0 THEN Composed(view, p, until)
                                             ELSE view[RevKey(p, n)].changeset, Composed(view, p, n))
    BY DEF Recreated, ComposedUntil, n
  <1> QED BY <1>2, <1>4, <1>5, <1>6, RevisionTyped

\* deleteRevisions begins, or has nothing to delete.
LEMMA LoadRevisionsStep ==
    ASSUME TakeTurns, TypeInv, HandsInv, NEW t \in Tasks, LoadRevisions(t)
    PROVE  TypeInv' /\ HandsInv' /\ Footprint(t)
  <1> DEFINE p == task[t].pad
             pad == mem[task[t].held]
             until == pad.head - KeepRevisions
             records == {<<RevKey(p, r), Recreated(p, until, r)>> : r \in 0 .. KeepRevisions}
  <1>1. /\ Busy(t) /\ task[t].pc = "run" /\ task[t].op = "compact" /\ Shape(task[t]) /\ InHand(t)
        /\ UNCHANGED <<view, disk, mem, cache, calls>>
    BY DEF LoadRevisions, Running, At, Busy, HandsInv
  <1>2. /\ task[t].held # Nothing /\ task[t].obj = Nothing /\ task[t].dst = Nothing /\ p \in Pads
    BY <1>1 DEF Shape, Loading
  <1>3. HasPad(task[t])
    BY <1>1, <1>2 DEF HasPad
  <1>4. pad \in PadIn(ChatRoom) /\ cache[p] = task[t].held
    BY <1>1, <1>3, CachedPad
  <1>5. CASE ~check(view, p, pad) \/ until <= 0
    <2> DEFINE s == Goto(t, "write", {})
    <2>1. task' = [task EXCEPT ![t] = s]
      BY <1>5 DEF LoadRevisions, Step
    <2>2. /\ s \in TaskType /\ s.pc = "write" /\ s.op = task[t].op /\ s.pad = task[t].pad
          /\ s.dst = task[t].dst /\ s.held = task[t].held /\ s.obj = task[t].obj /\ s.records = task[t].records
      BY GotoIs
    <2> HIDE DEF s
    <2>3. task'[t] = s
      BY <2>1, ChattingStep
    <2>4. Shape(s) /\ s.obj = Nothing
      BY <1>1, <1>2, <2>2 DEF Shape, Loading, PlainOps, CopyOps, Copies, Snapshots
    <2>5. InHand(t)'
      BY <1>1, <1>2, <2>2, <2>3 DEF InHand, HasPad, Reading
    <2>6. \A r \in s.records : IsRecord(ChatRoom, r[1], r[2])
      BY <2>2 DEF TypeInv
    <2> QED BY <1>1, <2>1, <2>2, <2>4, <2>5, <2>6, QuietGoto
  <1>6. CASE ~(~check(view, p, pad) \/ until <= 0)
    <2> DEFINE s == [Goto(t, "delete", {}) EXCEPT !.n = until, !.records = records]
    <2>1. task' = [task EXCEPT ![t] = s]
      BY <1>6 DEF LoadRevisions, Step
    <2>2. /\ pad.head \in Int /\ pad.head <= MaxHead /\ KeepRevisions \in Nat /\ MaxHead \in Nat
          /\ until \in Nat /\ until >= 1 /\ pad.head = until + KeepRevisions /\ KeepRevisions <= MaxHead
      BY <1>4, <1>6, RoomBounded, PadParts, Constants
    <2>3. \A r \in 0 .. pad.head : view[RevKey(p, r)] # Nothing
      BY <1>6 DEF check
    <2> HIDE DEF pad, until
    <2>4. ASSUME NEW r \in 0 .. KeepRevisions
          PROVE  /\ Recreated(p, until, r) \in RevisionRecord(r) /\ r \in Nat /\ r \in 0 .. MaxHead
                 /\ RevKey(p, r) \in KeysOf(p) /\ RevKey(p, r) \in Keys
                 /\ IsRecord(ChatRoom, RevKey(p, r), Recreated(p, until, r))
                 /\ Recreated(p, until, r) \in AnyRecord
                 /\ RevKey(p, r) \in RevKeys(p, KeepRevisions)
      <3>1. r \in Nat /\ r \in 0 .. MaxHead /\ until + r <= MaxHead /\ until + r <= pad.head
        BY <2>2, <2>4
      <3>2. \A i \in 0 .. until + r : view[RevKey(p, i)] # Nothing
        BY <2>2, <2>3, <3>1
      <3>3. Recreated(p, until, r) \in RevisionRecord(r)
        BY <1>2, <2>2, <3>1, <3>2, RecreatedTyped DEF TypeInv
      <3>4. RevKey(p, r) \in KeysOf(p) /\ RevKey(p, r) \in Keys
        BY <1>2, <3>1, KeysInside
      <3>5. IsRecord(ChatRoom, RevKey(p, r), Recreated(p, until, r))
        BY <3>3, RecordKinds
      <3>6. Recreated(p, until, r) \in AnyRecord
        <4>1. ChatRoom \in Int /\ ChatRoom <= MaxCalls
          BY RoomBounded, Constants
        <4> QED BY <3>4, <3>5, <4>1, RecordInAny
      <3> QED BY <3>1, <3>3, <3>4, <3>5, <3>6 DEF RevKeys
    <2>5. /\ records \subseteq Keys \X AnyRecord
          /\ \A r \in records : IsRecord(ChatRoom, r[1], r[2]) /\ r[1] \in RevKeys(p, KeepRevisions)
      BY <2>4
    <2>6. \A r1, r2 \in records : r1[1] = r2[1] => r1 = r2
      <3>1. \A i, j : RevKey(p, i) = RevKey(p, j) => i = j
        BY DEF RevKey
      <3> QED BY <3>1
    <2> HIDE DEF records
    <2>7. /\ s \in TaskType /\ s.pc = "delete" /\ s.op = task[t].op /\ s.pad = p /\ s.dst = Nothing
          /\ s.held = task[t].held /\ s.obj = task[t].obj /\ s.records = records /\ s.n = until
      <3> DEFINE g == Goto(t, "delete", {})
      <3>1. /\ g \in TaskType /\ g.pc = "delete" /\ g.op = task[t].op /\ g.pad = task[t].pad
            /\ g.dst = task[t].dst /\ g.held = task[t].held /\ g.obj = task[t].obj
        BY GotoIs
      <3> HIDE DEF g
      <3>2. s = [g EXCEPT !.n = until, !.records = records]
        BY DEF g
      <3> HIDE DEF s
      <3> QED BY <1>2, <2>2, <2>5, <3>1, <3>2 DEF TaskType
    <2> HIDE DEF s, p
    <2>8. task'[t] = s
      BY <2>1, ChattingStep
    <2>9. Shape(s) /\ s.obj = Nothing
      BY <1>1, <1>2, <2>7 DEF Shape, Loading, PlainOps, CopyOps, Copies, Snapshots, p
    <2>10. InHand(t)'
      BY <1>1, <1>2, <1>4, <2>2, <2>5, <2>6, <2>7, <2>8 DEF InHand, HasPad, Reading, pad
    <2>11. s.op \notin {"append", "chat"}
      BY <1>1, <2>7
    <2> QED BY <1>1, <1>2, <2>1, <2>5, <2>7, <2>9, <2>10, <2>11, QuietGoto DEF p
  <1> QED BY <1>5, <1>6

\* A call begins.
LEMMA CallStep ==
    ASSUME TakeTurns, TypeInv, HandsInv, NEW t \in Tasks, Call(t)
    PROVE  TypeInv' /\ HandsInv' /\ Footprint(t)
  <1>1. PICK op \in Ops, p \in Pads, q \in Pads \cup {Nothing} :
          /\ (q \in Pads) = (op \in Copies \cup Snapshots)
          /\ p # q
          /\ Undisturbed(t, op, p, q)
          /\ Step(t, [Idle EXCEPT !.pc = "getPad", !.op = op, !.pad = p, !.dst = q,
                                  !.n = IF op \in {"append", "chat"} THEN calls + 1 ELSE 0])
    BY DEF Call
  <1>2. ~Busy(t) /\ calls < MaxCalls /\ calls' = calls + 1 /\ UNCHANGED <<view, disk, mem, cache>>
    BY DEF Call
  <1> DEFINE n == IF op \in {"append", "chat"} THEN calls + 1 ELSE 0
             s == [Idle EXCEPT !.pc = "getPad", !.op = op, !.pad = p, !.dst = q, !.n = n]
  <1>3. task' = [task EXCEPT ![t] = s]
    BY <1>1 DEF Step
  <1>4. n \in Nat /\ n <= MaxCalls /\ calls' \in 1 .. MaxCalls
    BY <1>2, Constants DEF TypeInv
  <1> HIDE DEF n
  <1>5. op \in PlainOps \cup CopyOps \cup {"compact"} /\ op # "none"
    BY RecordsAssumption DEF PlainOps, CopyOps, Copies, Snapshots
  <1>6. /\ s \in TaskType /\ s.pc = "getPad" /\ s.op = op /\ s.pad = p /\ s.dst = q /\ s.n = n
        /\ s.held = Nothing /\ s.obj = Nothing /\ s.records = {}
    BY <1>4, <1>5, EmptyText DEF Idle, TaskType, Loading
  <1> HIDE DEF s
  <1>7. task'[t] = s /\ \A u \in Tasks \ {t} : task'[u] = task[u]
    BY <1>3, ChattingStep
  <1>8. ChatRoom' \in Int /\ ChatRoom <= ChatRoom'
    <2>1. Chatting' \subseteq Chatting \cup {t}
      BY <1>3, ChattingStep
    <2>2. ChatRoom \in Int /\ calls \in Nat
      BY Constants DEF TypeInv
    <2> QED BY <1>2, <2>1, <2>2, RoomForCall
  <1>9. TypeInv'
    <2>1. IsDatabase(ChatRoom', view') /\ IsDatabase(ChatRoom', disk')
      BY <1>2, <1>8, RoomBounded, RoomGrows DEF TypeInv
    <2>2. \A o \in DOMAIN mem' : mem'[o] \in PadIn(ChatRoom')
      BY <1>2, <1>8, RoomBounded, RoomGrows, TaskFields
    <2>3. /\ IsFiniteSet(DOMAIN mem') /\ DOMAIN mem' \subseteq Nat
          /\ cache' \in [Pads -> DOMAIN mem' \cup {Nothing}]
          /\ \A u \in Tasks \ {t} : {task[u].held, task[u].obj} \subseteq DOMAIN mem' \cup {Nothing}
      BY <1>2 DEF TypeInv
    <2> QED BY <1>3, <1>4, <1>6, <1>8, <2>1, <2>2, <2>3, StepTyped
  <1>10. Footprint(t)
    BY <1>2, <1>7 DEF Footprint
  <1>11. Shape(s)
    BY <1>1, <1>5, <1>6, Constants DEF Shape, Loading, PlainOps, CopyOps, Copies, Snapshots
  <1>12. InHand(t)'
    BY <1>6, <1>7 DEF InHand, HasPad, Reading
  <1>13. TurnsTaken'
    <2>1. Uses(t)' = {p, q} \ {Nothing} /\ AloneOf(t)' = Alone(op, p, q) /\ Busy(t)'
      BY <1>2, <1>6, <1>7 DEF Uses, AloneOf, Alone, Busy
    <2>2. \A u \in Tasks \ {t} : /\ Uses(u)' = Uses(u) /\ AloneOf(u)' = AloneOf(u) /\ (Busy(u)' <=> Busy(u))
      BY <1>2, <1>7 DEF Uses, AloneOf, Alone, Busy
    <2>3. \A u \in Tasks \ {t} : Busy(u) => /\ Alone(op, p, q) \cap Uses(u) = {}
                                            /\ ({p, q} \ {Nothing}) \cap AloneOf(u) = {}
      BY <1>1 DEF Undisturbed, AloneOf
    <2>4. SUFFICES ASSUME NEW u \in Tasks, NEW v \in Tasks, u # v, Busy(u)', Busy(v)'
                   PROVE  AloneOf(u)' \cap Uses(v)' = {}
      BY DEF TurnsTaken
    <2>5. CASE u = t
      BY <2>1, <2>2, <2>3, <2>4, <2>5
    <2>6. CASE v = t
      BY <2>1, <2>2, <2>3, <2>4, <2>6
    <2>7. CASE u # t /\ v # t
      BY <2>2, <2>4, <2>7 DEF HandsInv, TurnsTaken
    <2> QED BY <2>5, <2>6, <2>7
  <1>14. Uses(t) = {}
    BY <1>2, AloneInUses
  <1>15. Known(t, task'[t].held) /\ Known(t, task'[t].obj)
    BY <1>6, <1>7 DEF Known
  <1>16. \A r \in Pads : cache'[r] \in {cache[r], Nothing}
    BY <1>2
  <1> QED BY <1>6, <1>7, <1>9, <1>10, <1>11, <1>12, <1>13, <1>14, <1>15, <1>16, StepKeeps

\* The room when a step takes none.
LEMMA SameRoom ==
    ASSUME TypeInv, NEW t \in Tasks, NEW s, task' = [task EXCEPT ![t] = s], calls' = calls,
           s.op = "chat" /\ s.pc \in {"getPad", "init", "padLoad", "run"} => t \in Chatting
    PROVE  /\ ChatRoom' \in Int /\ ChatRoom <= ChatRoom' /\ ChatRoom \in Int /\ -1 <= ChatRoom'
           /\ IsDatabase(ChatRoom', view)
           /\ \A o \in DOMAIN mem : mem[o] \in PadIn(ChatRoom')
           /\ \A k, rec : IsRecord(ChatRoom, k, rec) => IsRecord(ChatRoom', k, rec)
           /\ PadIn(ChatRoom) \subseteq PadIn(ChatRoom')
  <1>1. Chatting' \subseteq Chatting
    BY ChattingStep
  <1>2. ChatRoom \in Int /\ calls \in Nat /\ -1 <= ChatRoom
    BY Constants DEF TypeInv
  <1>3. ChatRoom' \in Int /\ ChatRoom <= ChatRoom'
    BY <1>1, <1>2, RoomStays
  <1>4. /\ PadIn(ChatRoom) \subseteq PadIn(ChatRoom')
        /\ \A k, rec : IsRecord(ChatRoom, k, rec) => IsRecord(ChatRoom', k, rec)
        /\ \A db : IsDatabase(ChatRoom, db) => IsDatabase(ChatRoom', db)
    BY <1>2, <1>3, RoomGrows
  <1> QED BY <1>2, <1>3, <1>4 DEF TypeInv

\* A pad that is not cached gets an object.
LEMMA FreshStep ==
    ASSUME TakeTurns, TypeInv, HandsInv, NEW t \in Tasks, getPad(t), cache[Target(t)] = Nothing
    PROVE  TypeInv' /\ HandsInv' /\ Footprint(t)
  <1> DEFINE s == [Goto(t, "init", {}) EXCEPT !.obj = Fresh]
  <1>1. /\ Busy(t) /\ task[t].pc = "getPad" /\ Shape(task[t]) /\ InHand(t)
        /\ task' = [task EXCEPT ![t] = s] /\ UNCHANGED <<view, disk, cache, calls>>
        /\ mem' = [o \in DOMAIN mem \cup {Fresh} |-> IF o = Fresh THEN NewPad ELSE mem[o]]
    BY DEF getPad, At, Busy, Step, HandsInv
  <1>2. /\ Fresh \in Nat /\ Fresh \notin DOMAIN mem /\ Fresh # Nothing
        /\ IsFiniteSet(DOMAIN mem \cup {Fresh}) /\ DOMAIN mem \cup {Fresh} \subseteq Nat
    BY FreshIsNew, Constants DEF TypeInv
  <1> DEFINE f == Fresh
  <1> HIDE DEF f
  <1>3. /\ s \in TaskType /\ s.pc = "init" /\ s.op = task[t].op /\ s.pad = task[t].pad /\ s.dst = task[t].dst
        /\ s.held = task[t].held /\ s.obj = f /\ s.records = task[t].records /\ s.n = task[t].n
    <2> DEFINE g == Goto(t, "init", {})
    <2>1. /\ g \in TaskType /\ g.pc = "init" /\ g.op = task[t].op /\ g.pad = task[t].pad
          /\ g.dst = task[t].dst /\ g.held = task[t].held /\ g.records = task[t].records /\ g.n = task[t].n
      BY GotoIs DEF Loading
    <2>2. s = [g EXCEPT !.obj = f] /\ f \in Nat
      BY <1>2 DEF f
    <2> HIDE DEF g, s
    <2> QED BY <2>1, <2>2 DEF TaskType
  <1> HIDE DEF s
  <1>4. task'[t] = s
    BY <1>1, ChattingStep
  <1>5. s.op = "chat" => t \in Chatting
    BY <1>1, <1>3 DEF Chatting
  <1>6. /\ ChatRoom' \in Int /\ ChatRoom <= ChatRoom' /\ -1 <= ChatRoom'
        /\ IsDatabase(ChatRoom', view)
        /\ \A o \in DOMAIN mem : mem[o] \in PadIn(ChatRoom')
        /\ \A k, rec : IsRecord(ChatRoom, k, rec) => IsRecord(ChatRoom', k, rec)
    BY <1>1, <1>5, SameRoom
  <1>7. /\ DOMAIN mem' = DOMAIN mem \cup {f} /\ \A o \in DOMAIN mem : mem'[o] = mem[o]
        /\ \A o \in DOMAIN mem' : mem'[o] \in PadIn(ChatRoom')
    <2>1. DOMAIN mem' = DOMAIN mem \cup {f} /\ mem'[f] = NewPad /\ \A o \in DOMAIN mem : mem'[o] = mem[o]
      BY <1>1, <1>2 DEF f
    <2> QED BY <1>6, <2>1, BlankTyped
  <1>8. IsFiniteSet(DOMAIN mem') /\ DOMAIN mem' \subseteq Nat /\ f # Nothing /\ f \notin DOMAIN mem
    BY <1>2, <1>7 DEF f
  <1>9. /\ cache' \in [Pads -> DOMAIN mem' \cup {Nothing}]
        /\ \A u \in Tasks : {task[u].held, task[u].obj} \subseteq DOMAIN mem' \cup {Nothing}
        /\ \A u \in Tasks : task[u].held # f /\ task[u].obj # f
        /\ \A p \in Pads : cache[p] # f
    <2>1. \A u \in Tasks : {task[u].held, task[u].obj} \subseteq DOMAIN mem \cup {Nothing}
      BY TaskFields
    <2>2. cache \in [Pads -> DOMAIN mem \cup {Nothing}]
      BY DEF TypeInv
    <2> QED BY <1>1, <1>7, <1>8, <2>1, <2>2
  <1>10. Shape(s)
    BY <1>1, <1>3, <1>8 DEF Shape, Loading
  <1>11. InHand(t)'
    <2>1. Target(t)' = Target(t)
      BY <1>3, <1>4 DEF Target
    <2> QED BY <1>1, <1>3, <1>4, <2>1 DEF InHand, HasPad, Reading
  <1>12. Known(t, s.held) /\ Known(t, s.obj)
    BY <1>3, <1>8 DEF Known
  <1>13. Uses(t)' \subseteq Uses(t) /\ AloneOf(t)' \subseteq AloneOf(t)
    BY <1>1, <1>3, <1>4 DEF Uses, AloneOf, Alone
  <1>14. ASSUME NEW p \in Uses(t), cache'[p] # Nothing
         PROVE  mem'[cache'[p]] = view'[PadKey(p)]
    <2>1. p \in Pads /\ ~Rewritten(p)
      BY <1>1, AloneInUses, NotRewritten
    <2> QED BY <1>1, <1>7, <1>14, <2>1, TaskFields DEF HandsInv, CacheIsStored
  <1>15. \A r \in s.records : IsRecord(ChatRoom', r[1], r[2])
    BY <1>3, <1>6 DEF TypeInv
  <1>16. s.op \in {"append", "chat"} => s.n <= MaxCalls
    BY <1>3 DEF TypeInv
  <1>17. IsDatabase(ChatRoom', view') /\ \A p \in Pads : cache'[p] = cache[p]
    BY <1>1, <1>6
  <1>18. /\ \A p \in Pads \ Uses(t) : \A k \in KeysOf(p) : view'[k] = view[k]
         /\ \A o \in DOMAIN mem \cap DOMAIN mem' : mem'[o] = mem[o]
         /\ {s.held, s.obj} \subseteq DOMAIN mem' \cup {Nothing}
         /\ \A p \in Pads : cache'[p] # s.obj
         /\ s.held # s.obj
         /\ \A u \in Tasks \ {t} : task[u].held # s.obj /\ task[u].obj # s.obj
    BY <1>1, <1>3, <1>7, <1>9
  <1> QED BY ZenonT(60), <1>1, <1>3, <1>6, <1>7, <1>8, <1>9, <1>10, <1>11, <1>12, <1>13, <1>14, <1>15, <1>16, <1>17,
             <1>18, WriteStep

\* What a task that loads a pad has.
LEMMA LoadingPad ==
    ASSUME TakeTurns, TypeInv, HandsInv, NEW t \in Tasks, task[t].pc \in {"init", "padLoad"}
    PROVE  /\ Busy(t) /\ Shape(task[t]) /\ InHand(t)
           /\ Target(t) \in Pads /\ Target(t) \in Uses(t) /\ Target(t) \in AloneOf(t)
           /\ task[t].obj \in DOMAIN mem /\ task[t].obj \in Nat /\ task[t].obj # Nothing
           /\ cache[Target(t)] = Nothing
           /\ \A p \in Pads : cache[p] # task[t].obj
           /\ task[t].held # task[t].obj
           /\ \A u \in Tasks \ {t} : task[u].held # task[t].obj /\ task[u].obj # task[t].obj
           /\ \A p \in Uses(t) : p \in Pads /\ ~Rewritten(p)
  <1>1. Busy(t) /\ Shape(task[t]) /\ InHand(t)
    BY DEF Busy, HandsInv
  <1>2. Target(t) \in Uses(t) /\ Target(t) \in AloneOf(t) /\ Uses(t) \subseteq Pads
    BY <1>1, AlonePads, AloneInUses DEF Loading
  <1>3. task[t].obj # Nothing /\ task[t].obj \in DOMAIN mem /\ task[t].obj \in Nat
    BY <1>1, TaskFields DEF Shape
  <1>4. cache[Target(t)] = Nothing
    BY <1>1 DEF InHand
  <1>5. \A p \in Uses(t) : p \in Pads /\ ~Rewritten(p)
    BY <1>2, NotRewritten
  <1> QED BY <1>1, <1>2, <1>3, <1>4, <1>5 DEF HandsInv, Private

\* The step of a task that loads a pad: it fills the object, or puts it in the cache.
LEMMA InitTypes ==
    ASSUME TakeTurns, TypeInv, HandsInv, NEW t \in Tasks, task[t].pc = "init",
           NEW awaits \in SUBSET Keys, NEW pad \in PadIn(ChatRoom),
           mem' = [mem EXCEPT ![task[t].obj] = pad],
           Step(t, Goto(t, "padLoad", awaits)), UNCHANGED <<disk, cache, calls>>,
           IsDatabase(ChatRoom, view'),
           \A q \in Pads \ {Target(t)} : \A k \in KeysOf(q) : view'[k] = view[k],
           view'[PadKey(Target(t))] = pad,
           task[t].held # Nothing /\ task[t].op \in Snapshots => pad = Blank
    PROVE  TypeInv' /\ HandsInv' /\ Footprint(t)
  <1> DEFINE s == Goto(t, "padLoad", awaits)
             o == task[t].obj
  <1>1. /\ Busy(t) /\ Shape(task[t]) /\ InHand(t)
        /\ Target(t) \in Pads /\ Target(t) \in Uses(t) /\ Target(t) \in AloneOf(t)
        /\ o \in DOMAIN mem /\ o # Nothing
        /\ cache[Target(t)] = Nothing
        /\ \A p \in Pads : cache[p] # o
        /\ task[t].held # o
        /\ \A u \in Tasks \ {t} : task[u].held # o /\ task[u].obj # o
        /\ \A p \in Uses(t) : p \in Pads /\ ~Rewritten(p)
    BY LoadingPad
  <1>2. /\ s \in TaskType /\ s.pc = "padLoad" /\ s.op = task[t].op /\ s.pad = task[t].pad /\ s.dst = task[t].dst
        /\ s.held = task[t].held /\ s.obj = o /\ s.records = task[t].records /\ s.n = task[t].n
    BY GotoIs DEF Loading
  <1>3. task' = [task EXCEPT ![t] = s]
    BY DEF Step
  <1> HIDE DEF s
  <1>4. task'[t] = s
    BY <1>3, ChattingStep
  <1>5. s.op = "chat" => t \in Chatting
    BY <1>2 DEF Chatting
  <1>6. /\ ChatRoom' \in Int /\ ChatRoom <= ChatRoom' /\ -1 <= ChatRoom'
        /\ \A x \in DOMAIN mem : mem[x] \in PadIn(ChatRoom')
        /\ \A k, rec : IsRecord(ChatRoom, k, rec) => IsRecord(ChatRoom', k, rec)
        /\ PadIn(ChatRoom) \subseteq PadIn(ChatRoom')
    BY <1>3, <1>5, SameRoom
  <1>7. IsDatabase(ChatRoom', view')
    BY <1>6 DEF IsDatabase
  <1>8. /\ DOMAIN mem' = DOMAIN mem /\ mem'[o] = pad /\ \A x \in DOMAIN mem \ {o} : mem'[x] = mem[x]
    BY <1>1
  <1> HIDE DEF o
  <1>9. \A x \in DOMAIN mem' : mem'[x] \in PadIn(ChatRoom')
    BY <1>6, <1>8
  <1>10. /\ IsFiniteSet(DOMAIN mem') /\ DOMAIN mem' \subseteq Nat
         /\ \A u \in Tasks : {task[u].held, task[u].obj} \subseteq DOMAIN mem' \cup {Nothing}
         /\ cache' \in [Pads -> DOMAIN mem' \cup {Nothing}]
    BY <1>8, SameObjects DEF TypeInv
  <1>11. Shape(s)
    BY <1>1, <1>2 DEF Shape, Loading, o
  <1>12. InHand(t)'
    <2>1. Target(t)' = Target(t)
      BY <1>2, <1>4 DEF Target
    <2>2. pad # Nothing
      BY PadsAreRecords
    <2> QED BY <1>1, <1>2, <1>4, <1>8, <2>1, <2>2 DEF InHand, HasPad, Reading
  <1>13. Known(t, s.held) /\ Known(t, s.obj)
    BY <1>2 DEF Known, o
  <1>14. Uses(t)' \subseteq Uses(t) /\ AloneOf(t)' \subseteq AloneOf(t)
    BY <1>2, <1>4 DEF Uses, AloneOf, Alone
  <1>15. ASSUME NEW p \in Uses(t), cache'[p] # Nothing
         PROVE  mem'[cache'[p]] = view'[PadKey(p)]
    <2>1. p \in Pads /\ ~Rewritten(p) /\ p # Target(t) /\ cache'[p] = cache[p] /\ cache[p] # o
      BY <1>1, <1>15
    <2>2. view'[PadKey(p)] = view[PadKey(p)]
      BY <2>1, KeysInside
    <2>3. mem[cache[p]] = view[PadKey(p)] /\ cache[p] \in DOMAIN mem
      BY <1>15, <2>1, TaskFields DEF HandsInv, CacheIsStored
    <2> QED BY <1>8, <2>1, <2>2, <2>3
  <1>16. \A r \in s.records : IsRecord(ChatRoom', r[1], r[2])
    BY <1>2, <1>6 DEF TypeInv
  <1>17. s.op \in {"append", "chat"} => s.n <= MaxCalls
    BY <1>2 DEF TypeInv
  <1>18. /\ \A p \in Pads \ Uses(t) : \A k \in KeysOf(p) : view'[k] = view[k]
         /\ \A x \in DOMAIN mem \cap DOMAIN mem' :
              mem'[x] = mem[x] \/ (x = task[t].obj /\ task[t].pc = "init")
         /\ {s.held, s.obj} \subseteq DOMAIN mem' \cup {Nothing}
         /\ \A p \in Pads : cache'[p] # s.obj
         /\ s.held # s.obj
         /\ \A u \in Tasks \ {t} : task[u].held # s.obj /\ task[u].obj # s.obj
         /\ \A p \in Pads : cache'[p] = cache[p]
    BY <1>1, <1>2, <1>8, <1>10 DEF o
  <1> QED BY ZenonT(60), <1>1, <1>2, <1>3, <1>6, <1>7, <1>9, <1>10, <1>11, <1>12, <1>13, <1>14, <1>15, <1>16, <1>17,
             <1>18, WriteStep

LEMMA InitStep ==
    ASSUME TakeTurns, TypeInv, HandsInv, NEW t \in Tasks, init(t)
    PROVE  TypeInv' /\ HandsInv' /\ Footprint(t)
  <1> DEFINE p == Target(t)
             first == IF task[t].op \in Snapshots /\ task[t].held # Nothing THEN <<>> ELSE <<0>>
  <1>1. task[t].pc = "init" /\ UNCHANGED <<disk, cache, calls>>
    BY DEF init, At
  <1>2. p \in Pads /\ InHand(t) /\ PadKey(p) \in Keys /\ IsDatabase(ChatRoom, view) /\ ChatRoom \in Int /\ -1 <= ChatRoom
    BY <1>1, LoadingPad, KeysInside DEF TypeInv
  <1>3. CASE Exists(p)
    <2>1. /\ mem' = [mem EXCEPT ![task[t].obj] = view[PadKey(p)]] /\ view' = view
          /\ Step(t, Goto(t, "padLoad", {}))
      BY <1>3 DEF init
    <2>2. view[PadKey(p)] \in PadIn(ChatRoom)
      BY <1>2, <1>3, RecordKinds DEF Exists, IsDatabase
    <2>3. ~(task[t].held # Nothing /\ task[t].op \in Snapshots)
      BY <1>1, <1>2, <1>3 DEF InHand, Exists, Target
    <2> QED BY <1>1, <1>2, <2>1, <2>2, <2>3, InitTypes
  <1>4. CASE ~Exists(p)
    <2> DEFINE f == revisionRecords(p, NewPad, first)
               new == appendRevision(NewPad, first)
               awaits == RevisionAwaits(p, NewPad, first)
    <2>1. /\ mem' = [mem EXCEPT ![task[t].obj] = new] /\ Set(f)
          /\ Step(t, Goto(t, "padLoad", awaits))
      BY <1>4 DEF init
    <2>2. first \in Texts
      <3>1. 0 \in 0 .. MaxCalls
        BY Constants
      <3>2. <<0>> \in Seq(0 .. MaxCalls)
        BY <3>1
      <3> QED BY <3>2, EmptyText DEF Texts
    <2>3. NewPad \in PadIn(ChatRoom) /\ NewPad.head < MaxHead /\ HasEffect(NewPad, first)
      BY <1>2, BlankTyped, Constants DEF NewPad, HasEffect
    <2>4. task[t].held # Nothing /\ task[t].op \in Snapshots => new = Blank
      BY <1>2, BlankTyped
    <2> HIDE DEF first
    <2>5. /\ awaits = DOMAIN f /\ DOMAIN f \subseteq KeysOf(p)
          /\ \A k \in DOMAIN f : IsRecord(ChatRoom, k, f[k])
          /\ PadKey(p) \in DOMAIN f /\ f[PadKey(p)] = new
      <3> DEFINE pad == NewPad
      <3>1. pad \in PadIn(ChatRoom) /\ pad.head < MaxHead /\ HasEffect(pad, first)
        BY <2>3
      <3> HIDE DEF pad
      <3> HIDE DEF p
      <3>3. ChatRoom \in Int /\ p \in Pads
        BY <1>2
      <3>4. PadKey(p) \in {RevKey(p, appendRevision(pad, first).head), PadKey(p)}
        OBVIOUS
      <3>2. /\ RevisionAwaits(p, pad, first) = DOMAIN revisionRecords(p, pad, first)
            /\ DOMAIN revisionRecords(p, pad, first) \subseteq KeysOf(p)
            /\ \A k \in DOMAIN revisionRecords(p, pad, first) :
                 IsRecord(ChatRoom, k, revisionRecords(p, pad, first)[k])
            /\ PadKey(p) \in DOMAIN revisionRecords(p, pad, first)
            /\ revisionRecords(p, pad, first)[PadKey(p)] = appendRevision(pad, first)
        BY <2>2, <3>1, <3>3, <3>4, RevisionRecordsTyped
      <3> QED BY <3>2 DEF pad, p
    <2>6. new \in PadIn(ChatRoom)
      BY <1>2, <2>2, <2>3, AppendTyped
    <2> HIDE DEF f, new, awaits
    <2>7. /\ IsDatabase(ChatRoom, view') /\ view'[PadKey(p)] = new
          /\ \A q \in Pads \ {p} : \A k \in KeysOf(q) : view'[k] = view[k]
      BY <1>2, <2>1, <2>5, SetsPad
    <2>8. awaits \in SUBSET Keys
      BY <1>2, <2>5, KeysInside
    <2> QED BY <1>1, <2>1, <2>4, <2>6, <2>7, <2>8, InitTypes
  <1> QED BY <1>3, <1>4

\* The loaded pad goes to the cache.
LEMMA CachePadStep ==
    ASSUME TakeTurns, TypeInv, HandsInv, NEW t \in Tasks, cachePad(t)
    PROVE  TypeInv' /\ HandsInv' /\ Footprint(t)
  <1> DEFINE o == task[t].obj
             q == Target(t)
             s == Got(t, o)
  <1>1. /\ Busy(t) /\ Shape(task[t]) /\ InHand(t) /\ task[t].pc = "padLoad"
        /\ q \in Pads /\ q \in Uses(t) /\ q \in AloneOf(t)
        /\ o \in DOMAIN mem /\ o # Nothing /\ o \in Nat
        /\ cache[q] = Nothing
        /\ \A p \in Pads : cache[p] # o
        /\ task[t].held # o
        /\ \A p \in Uses(t) : p \in Pads /\ ~Rewritten(p)
    BY LoadingPad DEF cachePad, At
  <1>2. /\ task' = [task EXCEPT ![t] = s] /\ cache' = [cache EXCEPT ![q] = o]
        /\ UNCHANGED <<view, disk, mem, calls>>
    BY DEF cachePad, Step
  <1>3. mem[o].text \in Texts /\ mem[o] = view[PadKey(q)]
    BY <1>1, TaskFields, PadParts, RoomBounded DEF InHand
  <1>4. /\ s \in TaskType /\ s.op = task[t].op /\ s.pad = task[t].pad /\ s.dst = task[t].dst
        /\ s.records = task[t].records /\ s.n = task[t].n
        /\ task[t].held = Nothing => s.pc = "run" /\ s.held = o /\ s.obj = Nothing
        /\ task[t].held # Nothing => s.pc = "second" /\ s.held = task[t].held /\ s.obj = o
    <2>1. CASE task[t].held = Nothing
      <3> DEFINE g == Goto(t, "run", {})
                 text == IF task[t].dst = Nothing THEN <<>> ELSE mem[o].text
      <3>1. /\ g \in TaskType /\ g.pc = "run" /\ g.op = task[t].op /\ g.pad = task[t].pad
            /\ g.dst = task[t].dst /\ g.records = task[t].records /\ g.n = task[t].n
        BY GotoIs
      <3>2. s = [g EXCEPT !.held = o, !.obj = Nothing, !.from = text]
        BY <2>1 DEF Got
      <3>3. text \in Texts
        BY <1>3, EmptyText
      <3> HIDE DEF g, s, text
      <3> QED BY <1>1, <2>1, <3>1, <3>2, <3>3 DEF TaskType
    <2>2. CASE task[t].held # Nothing
      <3> DEFINE g == Goto(t, "second", {})
      <3>1. /\ g \in TaskType /\ g.pc = "second" /\ g.op = task[t].op /\ g.pad = task[t].pad
            /\ g.dst = task[t].dst /\ g.records = task[t].records /\ g.n = task[t].n /\ g.held = task[t].held
        BY GotoIs
      <3>2. s = [g EXCEPT !.obj = o]
        BY <2>2 DEF Got
      <3> HIDE DEF g, s
      <3> QED BY <1>1, <2>2, <3>1, <3>2 DEF TaskType
    <2> QED BY <2>1, <2>2
  <1> HIDE DEF s
  <1>5. task'[t] = s
    BY <1>2, ChattingStep
  <1>6. s.op = "chat" => t \in Chatting
    BY <1>1, <1>4 DEF Chatting
  <1>7. /\ ChatRoom' \in Int /\ ChatRoom <= ChatRoom' /\ IsDatabase(ChatRoom', view')
        /\ \A x \in DOMAIN mem' : mem'[x] \in PadIn(ChatRoom')
        /\ \A k, rec : IsRecord(ChatRoom, k, rec) => IsRecord(ChatRoom', k, rec)
    BY <1>2, <1>6, SameRoom
  <1>8. /\ IsFiniteSet(DOMAIN mem') /\ DOMAIN mem' \subseteq Nat
        /\ \A u \in Tasks : {task[u].held, task[u].obj} \subseteq DOMAIN mem' \cup {Nothing}
        /\ cache' \in [Pads -> DOMAIN mem' \cup {Nothing}]
        /\ cache'[q] = o /\ \A p \in Pads \ {q} : cache'[p] = cache[p]
    BY <1>1, <1>2, SameObjects DEF TypeInv
  <1>9. task[t].held = Nothing => task[t].pad = q
    BY DEF Target
  <1>10. task[t].held # Nothing => task[t].dst = q /\ task[t].op \in CopyOps \cup {"compact"}
    BY <1>1 DEF Target, Shape, Loading
  <1> HIDE DEF o, q
  <1>11. Shape(s)
    BY <1>1, <1>4, <1>10 DEF Shape, Loading
  <1>12. InHand(t)'
    <2>1. CASE task[t].held = Nothing
      BY <1>1, <1>2, <1>4, <1>5, <1>8, <1>9, <2>1 DEF InHand, HasPad, Reading
    <2>2. CASE task[t].held # Nothing
      <3>1. HasPad(s) => HasPad(task[t]) /\ task[t].pad # q
        BY <1>1, <1>4, <1>10, <2>2, Constants DEF HasPad, Shape
      <3>2. HasPad(s) => cache'[s.pad] = s.held
        BY <1>1, <1>4, <1>8, <2>2, <3>1 DEF InHand, Shape
      <3> QED BY <1>1, <1>2, <1>4, <1>5, <1>8, <1>10, <2>2, <3>2 DEF InHand, Reading, o
    <2> QED BY <2>1, <2>2
  <1>13. Known(t, s.held) /\ Known(t, s.obj)
    BY <1>4 DEF Known, o
  <1>14. Uses(t)' \subseteq Uses(t) /\ AloneOf(t)' \subseteq AloneOf(t)
    <2>1. cache'[task[t].pad] = Nothing => cache[task[t].pad] = Nothing
      BY <1>1, <1>8 DEF Shape
    <2> QED BY <1>4, <1>5, <2>1 DEF Uses, AloneOf, Alone
  <1>15. ASSUME NEW p \in Uses(t), cache'[p] # Nothing
         PROVE  mem'[cache'[p]] = view'[PadKey(p)]
    BY <1>1, <1>2, <1>3, <1>8, <1>15 DEF HandsInv, CacheIsStored
  <1>16. \A r \in s.records : IsRecord(ChatRoom', r[1], r[2])
    BY <1>4, <1>7 DEF TypeInv
  <1>17. s.op \in {"append", "chat"} => s.n <= MaxCalls
    BY <1>4 DEF TypeInv
  <1>18. /\ \A p \in Pads \ Uses(t) : \A k \in KeysOf(p) : view'[k] = view[k]
         /\ \A x \in DOMAIN mem \cap DOMAIN mem' : mem'[x] = mem[x]
         /\ {s.held, s.obj} \subseteq DOMAIN mem' \cup {Nothing}
         /\ s.pc \notin {"init", "padLoad"}
    BY <1>1, <1>2, <1>4, <1>8 DEF o
  <1>19. \A p \in Pads : \/ cache'[p] = cache[p]
                         \/ p \in AloneOf(t) /\ cache'[p] = task[t].obj /\ task[t].pc = "padLoad" /\ p = Target(t)
    BY <1>1, <1>8 DEF o, q
  <1> QED BY ZenonT(60), <1>1, <1>2, <1>4, <1>7, <1>8, <1>11, <1>12, <1>13, <1>14, <1>15, <1>16, <1>17,
             <1>18, <1>19, WriteStep

-----------------------------------------------------------------------------
(* Steps that change a pad. *)

\* The object of the pad and its records change together.
LEMMA ChangeStep ==
    ASSUME TakeTurns, TypeInv, HandsInv, NEW t \in Tasks, task[t].pc = "run",
           task[t].op \in {"append", "chat", "save"},
           ChatRoom' \in Int, ChatRoom <= ChatRoom',
           NEW pad \in PadIn(ChatRoom'), NEW f, NEW awaits \in SUBSET Keys, Change(t, pad, f, awaits), calls' = calls,
           DOMAIN f \subseteq KeysOf(task[t].pad), \A k \in DOMAIN f : IsRecord(ChatRoom', k, f[k]),
           \/ PadKey(task[t].pad) \in DOMAIN f /\ f[PadKey(task[t].pad)] = pad
           \/ DOMAIN f = {} /\ pad = mem[task[t].held]
    PROVE  TypeInv' /\ HandsInv' /\ Footprint(t)
  <1> DEFINE s == Goto(t, "write", awaits)
             o == task[t].held
             p == task[t].pad
  <1>1. /\ Busy(t) /\ Shape(task[t]) /\ InHand(t) /\ task[t].op \in PlainOps /\ task[t].obj = Nothing
        /\ task[t].dst = Nothing
    BY DEF Busy, HandsInv, Shape, PlainOps
  <1>2. /\ task' = [task EXCEPT ![t] = s] /\ mem' = [mem EXCEPT ![o] = pad] /\ Set(f)
        /\ UNCHANGED <<disk, cache, calls>>
    BY DEF Change, Step
  <1>3. HasPad(task[t])
    BY <1>1 DEF HasPad, Shape, Loading
  <1>4. /\ p \in Pads /\ p \in Uses(t) /\ cache[p] = o /\ o \in DOMAIN mem /\ o # Nothing
        /\ ~Rewritten(p) /\ mem[o] = view[PadKey(p)] /\ \A q \in Pads : cache[q] = o => q = p
    BY <1>1, <1>3, CachedPad, NotRewritten
  <1>5. /\ s \in TaskType /\ s.pc = "write" /\ s.op = task[t].op /\ s.pad = task[t].pad /\ s.dst = task[t].dst
        /\ s.held = task[t].held /\ s.obj = task[t].obj /\ s.records = task[t].records /\ s.n = task[t].n
    BY GotoIs
  <1> HIDE DEF s
  <1>6. task'[t] = s
    BY <1>2, ChattingStep
  <1>7. /\ IsDatabase(ChatRoom', view) /\ PadIn(ChatRoom) \subseteq PadIn(ChatRoom')
        /\ \A k, rec : IsRecord(ChatRoom, k, rec) => IsRecord(ChatRoom', k, rec)
    <2>1. ChatRoom \in Int /\ IsDatabase(ChatRoom, view)
      BY DEF TypeInv
    <2> QED BY <2>1, RoomGrows
  <1>8. /\ IsDatabase(ChatRoom', view')
        /\ \A k \in DOMAIN f : view'[k] = f[k]
        /\ \A q \in Pads \ {p} : \A k \in KeysOf(q) : view'[k] = view[k]
        /\ \A k \in Keys \ DOMAIN f : view'[k] = view[k]
    <2> HIDE DEF p
    <2>1. DOMAIN f \subseteq KeysOf(p)
      BY DEF p
    <2> QED BY <1>2, <1>4, <1>7, <2>1, SetsPad
  <1>9. /\ DOMAIN mem' = DOMAIN mem /\ mem'[o] = pad /\ \A x \in DOMAIN mem \ {o} : mem'[x] = mem[x]
        /\ IsFiniteSet(DOMAIN mem') /\ DOMAIN mem' \subseteq Nat
        /\ \A u \in Tasks : {task[u].held, task[u].obj} \subseteq DOMAIN mem' \cup {Nothing}
        /\ cache' \in [Pads -> DOMAIN mem' \cup {Nothing}]
    <2>1. DOMAIN mem' = DOMAIN mem /\ mem'[o] = pad /\ \A x \in DOMAIN mem \ {o} : mem'[x] = mem[x]
      BY <1>2, <1>4
    <2> QED BY <1>2, <2>1, SameObjects DEF TypeInv
  <1>10. \A x \in DOMAIN mem' : mem'[x] \in PadIn(ChatRoom')
    BY <1>7, <1>9, TaskFields
  <1>11. view'[PadKey(p)] = pad
    <2>1. PadKey(p) \in Keys
      BY <1>4, KeysInside
    <2> QED BY <1>4, <1>8, <2>1
  <1> HIDE DEF o, p
  <1>12. Shape(s)
    BY <1>1, <1>5, Constants DEF Shape, Loading, PlainOps, CopyOps, Copies, Snapshots
  <1>13. InHand(t)'
    BY <1>1, <1>2, <1>3, <1>5, <1>6 DEF InHand, HasPad, Reading
  <1>14. ASSUME NEW q \in Uses(t), cache'[q] # Nothing
         PROVE  mem'[cache'[q]] = view'[PadKey(q)]
    <2>1. q = p
      BY <1>1 DEF Uses, p
    <2> QED BY <1>2, <1>4, <1>9, <1>11, <2>1
  <1>15. Known(t, s.held) /\ Known(t, s.obj)
    BY <1>5 DEF Known
  <1>16. Uses(t)' \subseteq Uses(t) /\ AloneOf(t)' \subseteq AloneOf(t)
    BY <1>2, <1>5, <1>6 DEF Uses, AloneOf, Alone
  <1>17. \A r \in s.records : IsRecord(ChatRoom', r[1], r[2])
    BY <1>5, <1>7 DEF TypeInv
  <1>18. s.op \in {"append", "chat"} => s.n <= MaxCalls
    BY <1>5 DEF TypeInv
  <1>19. /\ \A q \in Pads \ Uses(t) : \A k \in KeysOf(q) : view'[k] = view[k]
         /\ \A x \in DOMAIN mem \cap DOMAIN mem' : mem'[x] = mem[x] \/ (\E q \in Uses(t) : cache[q] = x)
         /\ {s.held, s.obj} \subseteq DOMAIN mem' \cup {Nothing}
         /\ s.pc \notin {"init", "padLoad"}
         /\ \A q \in Pads : cache'[q] = cache[q]
    BY <1>2, <1>4, <1>5, <1>8, <1>9
  <1>20. /\ Busy(t) /\ s \in TaskType /\ task' = [task EXCEPT ![t] = s] /\ UNCHANGED <<disk, calls>>
         /\ IsFiniteSet(DOMAIN mem') /\ DOMAIN mem' \subseteq Nat /\ IsDatabase(ChatRoom', view')
         /\ \A u \in Tasks : {task[u].held, task[u].obj} \subseteq DOMAIN mem' \cup {Nothing}
         /\ cache' \in [Pads -> DOMAIN mem' \cup {Nothing}]
    BY <1>1, <1>2, <1>5, <1>8, <1>9
  <1> QED BY <1>10, <1>12, <1>13, <1>14, <1>15, <1>16, <1>17, <1>18, <1>19, <1>20, WriteStep

\* A stored pad has a revision.
LEMMA StoredHead ==
    ASSUME NEW room \in Int, NEW db, IsDatabase(room, db), NEW p \in Pads, db[PadKey(p)] # Nothing \/ db[PadKey(p)] \in PadIn(room)
    PROVE  db[PadKey(p)] \in PadIn(room) /\ db[PadKey(p)].head \in 0 .. MaxHead
  <1>1. PadKey(p) \in Keys /\ db[PadKey(p)] # Nothing
    BY KeysInside, PadsAreRecords
  <1>2. db[PadKey(p)] \in PadIn(room) /\ db[PadKey(p)].head >= 0
    BY <1>1, RecordKinds DEF IsDatabase
  <1> QED BY <1>2, PadParts

\* A pad that runs a call for one pad.
LEMMA RunningPad ==
    ASSUME TakeTurns, TypeInv, HandsInv, NEW t \in Tasks, task[t].pc = "run", task[t].op \in PlainOps
    PROVE  /\ Busy(t) /\ task[t].pad \in Pads /\ mem[task[t].held] \in PadIn(ChatRoom)
           /\ task[t].n \in Nat /\ (task[t].op \in {"append", "chat"} => task[t].n \in 0 .. MaxCalls)
           /\ ChatRoom \in Int /\ ChatRoom < MaxCalls /\ -1 <= ChatRoom
           /\ mem[task[t].held].head \in 0 .. MaxHead
           /\ task[t].held \in DOMAIN mem /\ cache[task[t].pad] = task[t].held
           /\ mem[task[t].held] = view[PadKey(task[t].pad)] /\ task[t].pad \in Uses(t)
           /\ \A p \in Pads : cache[p] = task[t].held => p = task[t].pad
  <1>1. Busy(t) /\ Shape(task[t])
    BY DEF Busy, HandsInv
  <1>2. HasPad(task[t])
    BY <1>1 DEF HasPad, Shape, Loading, PlainOps
  <1>3. ~Rewritten(task[t].pad)
    BY <1>1, AloneInUses, NotRewritten
  <1>4. task[t].n \in Nat /\ (task[t].op \in {"append", "chat"} => task[t].n \in 0 .. MaxCalls)
    BY TaskFields, Constants DEF TypeInv
  <1>5. /\ task[t].pad \in Pads /\ mem[task[t].held] \in PadIn(ChatRoom)
        /\ task[t].held \in DOMAIN mem /\ cache[task[t].pad] = task[t].held
        /\ mem[task[t].held] = view[PadKey(task[t].pad)] /\ task[t].pad \in Uses(t)
        /\ \A p \in Pads : cache[p] = task[t].held => p = task[t].pad
    BY <1>1, <1>2, <1>3, CachedPad
  <1>6. mem[task[t].held].head \in 0 .. MaxHead
    BY <1>5, StoredHead, RoomBounded DEF TypeInv
  <1> QED BY <1>1, <1>4, <1>5, <1>6, RoomBounded

LEMMA AppendStep ==
    ASSUME TakeTurns, TypeInv, HandsInv, NEW t \in Tasks, AppendEdit(t)
    PROVE  TypeInv' /\ HandsInv' /\ Footprint(t)
  <1> DEFINE p == task[t].pad
             pad == mem[task[t].held]
             cs == <<task[t].n>>
             f == revisionRecords(p, pad, cs)
             new == appendRevision(pad, cs)
  <1>1. task[t].pc = "run" /\ task[t].op = "append" /\ pad.head < MaxHead
        /\ Change(t, new, f, RevisionAwaits(p, pad, cs)) /\ calls' = calls
    BY DEF AppendEdit, Running, At, Change
  <1>2. p \in Pads /\ pad \in PadIn(ChatRoom) /\ task[t].n \in 0 .. MaxCalls /\ ChatRoom \in Int
    BY <1>1, RunningPad DEF PlainOps
  <1>3. cs \in Texts
    <2>1. <<task[t].n>> \in Seq(0 .. MaxCalls)
      BY <1>2
    <2> QED BY <2>1 DEF Texts
  <1>4. HasEffect(pad, cs)
    BY DEF HasEffect
  <1>5. new \in PadIn(ChatRoom)
    BY <1>1, <1>2, <1>3, AppendTyped
  <1>6. PadKey(p) \in DOMAIN f /\ f[PadKey(p)] = new /\ DOMAIN f \subseteq KeysOf(p)
        /\ RevisionAwaits(p, pad, cs) = DOMAIN f /\ \A k \in DOMAIN f : IsRecord(ChatRoom, k, f[k])
    <2> HIDE DEF p, pad, cs
    <2> QED BY ZenonT(60), <1>1, <1>2, <1>3, <1>4, RevisionRecordsTyped DEF f, new
  <1>7. RevisionAwaits(p, pad, cs) \in SUBSET Keys
    BY <1>2, <1>6, KeysInside
  <1>8. ChatRoom' \in Int /\ ChatRoom <= ChatRoom' /\ PadIn(ChatRoom) \subseteq PadIn(ChatRoom')
        /\ \A k, rec : IsRecord(ChatRoom, k, rec) => IsRecord(ChatRoom', k, rec)
    <2> DEFINE s == Goto(t, "write", RevisionAwaits(p, pad, cs))
    <2>1. s.pc = "write"
      BY <1>7, GotoIs
    <2>2. task' = [task EXCEPT ![t] = s]
      BY <1>1 DEF Change, Step
    <2> HIDE DEF s
    <2> QED BY <1>1, <2>1, <2>2, SameRoom
  <1>9. \A k \in DOMAIN f : IsRecord(ChatRoom', k, f[k])
    BY <1>6, <1>8
  <1>10. new \in PadIn(ChatRoom')
    BY <1>5, <1>8
  <1> HIDE DEF f, new
  <1> QED BY <1>1, <1>6, <1>7, <1>8, <1>9, <1>10, ChangeStep

LEMMA SaveStep ==
    ASSUME TakeTurns, TypeInv, HandsInv, NEW t \in Tasks, addSavedRevision(t)
    PROVE  TypeInv' /\ HandsInv' /\ Footprint(t)
  <1> DEFINE p == task[t].pad
             pad == mem[task[t].held]
             new == [pad EXCEPT !.saved = @ \cup {pad.head}]
             f == [k \in {PadKey(p)} |-> new]
  <1>1. CASE pad.head \in pad.saved
    BY <1>1, SavedStep
  <1>2. CASE pad.head \notin pad.saved
    <2>1. task[t].pc = "run" /\ task[t].op = "save" /\ Change(t, new, f, {PadKey(p)}) /\ calls' = calls
      BY <1>2 DEF addSavedRevision, Running, At, Change
    <2>2. p \in Pads /\ pad \in PadIn(ChatRoom) /\ ChatRoom \in Int /\ pad = view[PadKey(p)]
      BY <2>1, RunningPad DEF PlainOps
    <2>3. pad.head \in 0 .. MaxHead
      BY <2>1, RunningPad DEF PlainOps
    <2>4. new \in PadIn(ChatRoom) /\ new.head >= 0
      BY <2>2, <2>3, PadParts DEF PadIn
    <2>5. PadKey(p) \in KeysOf(p) /\ {PadKey(p)} \in SUBSET Keys
      BY <2>2, KeysInside
    <2>6. ChatRoom' \in Int /\ ChatRoom <= ChatRoom' /\ PadIn(ChatRoom) \subseteq PadIn(ChatRoom')
      <3> DEFINE s == Goto(t, "write", {PadKey(p)})
      <3>1. s.pc = "write"
        BY <2>5, GotoIs
      <3>2. task' = [task EXCEPT ![t] = s]
        BY <2>1 DEF Change, Step
      <3> HIDE DEF s
      <3> QED BY <2>1, <3>1, <3>2, SameRoom
    <2>7. new \in PadIn(ChatRoom') /\ new.head >= 0
      BY <2>4, <2>6
    <2>8. /\ DOMAIN f = {PadKey(p)} /\ f[PadKey(p)] = new
          /\ \A k \in DOMAIN f : IsRecord(ChatRoom', k, f[k])
      BY ZenonT(60), <2>7, RecordKinds
    <2> HIDE DEF f, new
    <2> QED BY <2>1, <2>5, <2>6, <2>7, <2>8, ChangeStep
  <1> QED BY <1>1, <1>2

LEMMA ChatStep ==
    ASSUME TakeTurns, TypeInv, HandsInv, NEW t \in Tasks, appendChatMessage(t)
    PROVE  TypeInv' /\ HandsInv' /\ Footprint(t)
  <1> DEFINE p == task[t].pad
             old == mem[task[t].held]
             pad == [old EXCEPT !.chatHead = @ + 1]
             f == [k \in {ChatKey(p, pad.chatHead), PadKey(p)} |-> IF k = PadKey(p) THEN pad ELSE task[t].n]
  <1>1. task[t].pc = "run" /\ task[t].op = "chat" /\ Change(t, pad, f, DOMAIN f) /\ calls' = calls
    BY DEF appendChatMessage, Running, At, Change
  <1>2. /\ p \in Pads /\ old \in PadIn(ChatRoom) /\ task[t].n \in 0 .. MaxCalls /\ ChatRoom \in Int
        /\ old.head \in 0 .. MaxHead /\ ChatRoom < MaxCalls
    BY <1>1, RunningPad DEF PlainOps
  <1>3. /\ pad.chatHead = old.chatHead + 1 /\ pad.chatHead \in 0 .. MaxCalls /\ pad.head = old.head
        /\ pad.chatHead \in -1 .. ChatRoom + 1
        /\ pad = [head |-> old.head, chatHead |-> old.chatHead + 1, saved |-> old.saved, text |-> old.text]
    <2>1. pad = [head |-> old.head, chatHead |-> old.chatHead + 1, saved |-> old.saved, text |-> old.text]
      BY <1>2 DEF PadIn
    <2>2. old.chatHead \in -1 .. ChatRoom
      BY <1>2, PadParts
    <2> QED BY <1>2, <2>1, <2>2, Constants
  <1>4. ChatRoom' \in Int /\ ChatRoom + 1 <= ChatRoom'
    <2> DEFINE s == Goto(t, "write", DOMAIN f)
    <2>1. s.pc = "write"
      BY DEF Goto, TypeInv, TaskType
    <2>2. task' = [task EXCEPT ![t] = s]
      BY <1>1 DEF Change, Step
    <2> HIDE DEF s
    <2>3. Chatting' \subseteq Chatting \ {t}
      BY <2>1, <2>2, ChattingStep
    <2>4. t \in Chatting
      BY <1>1 DEF Chatting
    <2>5. calls \in Nat
      BY Constants DEF TypeInv
    <2> QED BY <1>1, <1>2, <2>3, <2>4, <2>5, RoomOfMessage
  <1>5. pad \in PadIn(ChatRoom') /\ pad.head >= 0
    <2>1. -1 .. ChatRoom + 1 \subseteq -1 .. ChatRoom'
      BY <1>2, <1>4
    <2>2. pad.chatHead \in -1 .. ChatRoom'
      BY <1>3, <2>1
    <2>3. old.head \in -1 .. MaxHead /\ old.saved \in SUBSET (0 .. MaxHead) /\ old.text \in Texts
      BY <1>2 DEF PadIn
    <2> QED BY <1>2, <1>3, <2>2, <2>3 DEF PadIn
  <1>6. PadKey(p) # ChatKey(p, pad.chatHead)
    <2>1. PadKey(p)[1] = "pad" /\ ChatKey(p, pad.chatHead)[1] = "chat"
      BY KeyParts
    <2> QED BY <2>1
  <1>7. /\ DOMAIN f = {ChatKey(p, pad.chatHead), PadKey(p)} /\ f[PadKey(p)] = pad
        /\ f[ChatKey(p, pad.chatHead)] = task[t].n
    BY <1>6
  <1>8. DOMAIN f \subseteq KeysOf(p) /\ DOMAIN f \in SUBSET Keys
    BY <1>2, <1>3, <1>7, KeysInside
  <1> HIDE DEF f, pad
  <1>9. IsRecord(ChatRoom', PadKey(p), f[PadKey(p)])
    BY <1>5, <1>7, RecordKinds
  <1>10. IsRecord(ChatRoom', ChatKey(p, pad.chatHead), f[ChatKey(p, pad.chatHead)])
    BY <1>2, <1>7, RecordKinds
  <1>11. \A k \in DOMAIN f : IsRecord(ChatRoom', k, f[k])
    BY <1>7, <1>9, <1>10
  <1>12. PadKey(p) \in DOMAIN f /\ f[PadKey(p)] = pad /\ ChatRoom <= ChatRoom'
    BY <1>2, <1>4, <1>7
  <1> QED BY <1>1, <1>4, <1>5, <1>8, <1>11, <1>12, ChangeStep

\* A pad and all its records are removed.
LEMMA RemoveStep ==
    ASSUME TakeTurns, TypeInv, HandsInv, NEW t \in Tasks, remove(t)
    PROVE  TypeInv' /\ HandsInv' /\ Footprint(t)
  <1> DEFINE p == task[t].pad
             f == Removed(p, mem[task[t].held])
             s == Goto(t, "write", DOMAIN f)
  <1>1. task[t].pc = "run" /\ task[t].op = "remove" /\ Set(f) /\ cache' = [cache EXCEPT ![p] = Nothing]
        /\ task' = [task EXCEPT ![t] = s] /\ UNCHANGED <<disk, mem, calls>>
    BY DEF remove, Running, At, Step
  <1>2. /\ Busy(t) /\ p \in Pads /\ mem[task[t].held] \in PadIn(ChatRoom) /\ ChatRoom \in Int /\ ChatRoom <= MaxCalls
        /\ p \in Uses(t) /\ Shape(task[t]) /\ InHand(t) /\ task[t].obj = Nothing /\ task[t].dst = Nothing
        /\ task[t].held # Nothing
    BY <1>1, RunningPad, Constants DEF PlainOps, HandsInv, Shape, Loading
  <1>3. /\ DOMAIN f \subseteq KeysOf(p) /\ PadKey(p) \in DOMAIN f /\ \A k \in DOMAIN f : f[k] = Nothing
        /\ DOMAIN f \in SUBSET Keys
    BY <1>2, RemovedTyped, KeysInside
  <1>4. /\ s \in TaskType /\ s.pc = "write" /\ s.op = task[t].op /\ s.pad = task[t].pad /\ s.dst = task[t].dst
        /\ s.held = task[t].held /\ s.obj = task[t].obj /\ s.records = task[t].records /\ s.n = task[t].n
    BY <1>3, GotoIs
  <1> HIDE DEF s, f
  <1>5. task'[t] = s
    BY <1>1, ChattingStep
  <1>6. /\ ChatRoom' \in Int /\ ChatRoom <= ChatRoom' /\ IsDatabase(ChatRoom', view)
        /\ \A x \in DOMAIN mem : mem[x] \in PadIn(ChatRoom')
        /\ \A k, rec : IsRecord(ChatRoom, k, rec) => IsRecord(ChatRoom', k, rec)
    BY <1>1, <1>4, SameRoom
  <1>7. /\ IsDatabase(ChatRoom', view')
        /\ \A q \in Pads \ {p} : \A k \in KeysOf(q) : view'[k] = view[k]
    <2> HIDE DEF p
    <2>1. \A k \in DOMAIN f : IsRecord(ChatRoom', k, f[k])
      BY <1>3 DEF IsRecord
    <2> QED BY <1>1, <1>2, <1>3, <1>6, <2>1, SetsPad
  <1>8. /\ IsFiniteSet(DOMAIN mem') /\ DOMAIN mem' \subseteq Nat
        /\ \A u \in Tasks : {task[u].held, task[u].obj} \subseteq DOMAIN mem' \cup {Nothing}
        /\ cache' \in [Pads -> DOMAIN mem' \cup {Nothing}]
        /\ cache'[p] = Nothing /\ \A q \in Pads \ {p} : cache'[q] = cache[q]
    BY <1>1, <1>2, SameObjects DEF TypeInv
  <1>9. p \in AloneOf(t) /\ \A q \in Uses(t) : q = p
    BY <1>1, <1>2, AloneIs DEF Uses
  <1> HIDE DEF p
  <1>10. Shape(s)
    BY <1>1, <1>2, <1>4 DEF Shape, Loading, PlainOps, CopyOps, Copies, Snapshots
  <1>11. InHand(t)'
    BY <1>1, <1>2, <1>4, <1>5 DEF InHand, HasPad, Reading
  <1>12. Uses(t)' \subseteq Uses(t) /\ AloneOf(t)' \subseteq AloneOf(t)
    BY <1>1, <1>4, <1>5, <1>9 DEF Uses, AloneOf, Alone, Copies, Snapshots, p
  <1>13. Known(t, s.held) /\ Known(t, s.obj)
    BY <1>4 DEF Known
  <1>14. \A r \in s.records : IsRecord(ChatRoom', r[1], r[2])
    BY <1>4, <1>6 DEF TypeInv
  <1>15. s.op \in {"append", "chat"} => s.n <= MaxCalls
    BY <1>4 DEF TypeInv
  <1>16. /\ \A q \in Pads \ Uses(t) : \A k \in KeysOf(q) : view'[k] = view[k]
         /\ \A x \in DOMAIN mem \cap DOMAIN mem' : mem'[x] = mem[x]
         /\ {s.held, s.obj} \subseteq DOMAIN mem' \cup {Nothing}
         /\ s.pc \notin {"init", "padLoad"}
         /\ \A q \in Pads : cache'[q] = cache[q] \/ (q \in AloneOf(t) /\ cache'[q] = Nothing)
         /\ \A q \in Uses(t) : cache'[q] = Nothing
         /\ \A x \in DOMAIN mem' : mem'[x] \in PadIn(ChatRoom')
    BY <1>1, <1>2, <1>4, <1>6, <1>7, <1>8, <1>9
  <1>17. Busy(t) /\ task' = [task EXCEPT ![t] = s] /\ UNCHANGED <<disk, calls>>
    BY <1>1, <1>2
  <1> QED BY <1>4, <1>6, <1>7, <1>8, <1>10, <1>11, <1>12, <1>13, <1>14, <1>15, <1>16, <1>17, WriteStep

\* A step that writes records of one pad, and may take it from the cache.
LEMMA DatabaseStep ==
    ASSUME TakeTurns, TypeInv, HandsInv, NEW t \in Tasks, Busy(t), NEW s \in TaskType,
           task' = [task EXCEPT ![t] = s], UNCHANGED <<disk, mem, calls>>,
           s.op = "chat" /\ s.pc \in {"getPad", "init", "padLoad", "run"} => t \in Chatting,
           NEW q \in Pads, q \in Uses(t), IsDatabase(ChatRoom, view'),
           \A p \in Pads \ {q} : \A k \in KeysOf(p) : view'[k] = view[k],
           cache' = cache \/ (cache' = [cache EXCEPT ![q] = Nothing] /\ q \in AloneOf(t)),
           s.held \in {Nothing, task[t].held}, s.obj \in {Nothing, task[t].obj},
           s.op \in {"append", "chat"} => s.n <= MaxCalls,
           \A r \in s.records : IsRecord(ChatRoom, r[1], r[2]),
           Shape(s), s.pc \notin {"idle", "init", "padLoad"}, InHand(t)',
           Uses(t)' \subseteq Uses(t), AloneOf(t)' \subseteq AloneOf(t),
           cache'[q] # Nothing /\ ~Rewritten(q)' => mem[cache[q]] = view'[PadKey(q)],
           \A p \in Uses(t) \ {q} : ~Rewritten(p)
    PROVE  TypeInv' /\ HandsInv' /\ Footprint(t)
  <1>1. /\ ChatRoom' \in Int /\ ChatRoom <= ChatRoom' /\ IsDatabase(ChatRoom', view')
        /\ \A x \in DOMAIN mem' : mem'[x] \in PadIn(ChatRoom')
        /\ \A r \in s.records : IsRecord(ChatRoom', r[1], r[2])
    <2>1. /\ ChatRoom' \in Int /\ ChatRoom <= ChatRoom'
          /\ \A x \in DOMAIN mem : mem[x] \in PadIn(ChatRoom')
          /\ \A k, rec : IsRecord(ChatRoom, k, rec) => IsRecord(ChatRoom', k, rec)
      BY SameRoom
    <2> QED BY <2>1 DEF IsDatabase
  <1>2. \A p \in Pads \ {q} : cache'[p] = cache[p]
    BY DEF TypeInv
  <1>3. \A p \in Pads : cache'[p] = cache[p] \/ (p \in AloneOf(t) /\ cache'[p] = Nothing)
    BY <1>2 DEF TypeInv
  <1>4. /\ IsFiniteSet(DOMAIN mem') /\ DOMAIN mem' \subseteq Nat
        /\ \A u \in Tasks : {task[u].held, task[u].obj} \subseteq DOMAIN mem' \cup {Nothing}
        /\ cache' \in [Pads -> DOMAIN mem' \cup {Nothing}]
    BY SameObjects DEF TypeInv
  <1>5. ASSUME NEW p \in Uses(t), cache'[p] # Nothing, ~Rewritten(p)'
        PROVE  mem'[cache'[p]] = view'[PadKey(p)]
    <2>1. CASE p = q
      BY <1>3, <1>5, <2>1
    <2>2. CASE p # q
      <3>1. p \in Pads /\ cache'[p] = cache[p] /\ ~Rewritten(p)
        BY <1>2, <2>2, AloneInUses
      <3>2. view'[PadKey(p)] = view[PadKey(p)]
        BY <2>2, <3>1, KeysInside
      <3> QED BY <1>5, <3>1, <3>2 DEF HandsInv, CacheIsStored
    <2> QED BY <2>1, <2>2
  <1>6. Known(t, s.held) /\ Known(t, s.obj)
    BY DEF Known
  <1>7. /\ \A p \in Pads \ Uses(t) : \A k \in KeysOf(p) : view'[k] = view[k]
        /\ \A x \in DOMAIN mem \cap DOMAIN mem' : mem'[x] = mem[x]
        /\ {s.held, s.obj} \subseteq DOMAIN mem' \cup {Nothing}
    BY <1>4
  <1> QED BY <1>1, <1>3, <1>4, <1>5, <1>6, <1>7, WriteStep

\* What a task with a source and a destination has.
LEMMA CopyingPad ==
    ASSUME TakeTurns, TypeInv, HandsInv, NEW t \in Tasks, task[t].op \in CopyOps,
           task[t].pc \in {"run", "clear", "read", "records", "second"}
    PROVE  /\ Busy(t) /\ Shape(task[t]) /\ InHand(t) /\ HasPad(task[t])
           /\ task[t].pad \in Pads /\ task[t].dst \in Pads /\ task[t].pad # task[t].dst
           /\ task[t].pad \in Uses(t) /\ task[t].dst \in Uses(t) /\ task[t].dst \in AloneOf(t)
           /\ task[t].held \in DOMAIN mem /\ task[t].held \in Nat /\ task[t].held # Nothing
           /\ cache[task[t].pad] = task[t].held /\ mem[task[t].held] \in PadIn(ChatRoom)
           /\ mem[task[t].held] = view[PadKey(task[t].pad)]
           /\ \A p \in Uses(t) : p \in Pads /\ ~Rewritten(p)
           /\ task[t].op \notin PlainOps \cup {"compact", "none"}
           /\ Uses(t) = {task[t].pad, task[t].dst}
  <1>1. Busy(t) /\ Shape(task[t]) /\ InHand(t)
    BY DEF Busy, HandsInv
  <1>2. task[t].op \notin PlainOps \cup {"compact", "none"}
    BY DEF CopyOps, Copies, Snapshots, PlainOps
  <1>3. HasPad(task[t])
    BY <1>1, <1>2 DEF HasPad, Shape, Loading, PlainOps
  <1>4. /\ task[t].pad \in Pads /\ task[t].dst \in Pads /\ task[t].pad # task[t].dst
        /\ task[t].pad \in Uses(t) /\ task[t].dst \in Uses(t) /\ task[t].dst \in AloneOf(t)
    BY <1>1, AlonePads DEF Shape
  <1>5. \A p \in Uses(t) : p \in Pads /\ ~Rewritten(p)
    BY <1>2, AloneInUses, <1>1, NotRewritten
  <1>6. Uses(t) = {task[t].pad, task[t].dst}
    BY <1>4, Constants DEF Uses
  <1>7. task[t].pc \notin {"revs", "unload"}
    OBVIOUS
  <1>8. /\ cache[task[t].pad] = task[t].held /\ task[t].held \in DOMAIN mem /\ task[t].held # Nothing
        /\ mem[task[t].held] \in PadIn(ChatRoom)
        /\ mem[task[t].held] = view[PadKey(task[t].pad)]
    BY <1>1, <1>3, <1>4, <1>5, <1>7, CachedPad
  <1> QED BY <1>1, <1>2, <1>3, <1>4, <1>5, <1>6, <1>8, TaskFields, Constants

LEMMA SaveSourceStep ==
    ASSUME TakeTurns, TypeInv, HandsInv, NEW t \in Tasks, SaveSource(t)
    PROVE  TypeInv' /\ HandsInv' /\ Footprint(t)
  <1> DEFINE p == task[t].pad
             awaits == IF task[t].op \in Copies THEN {PadKey(p)} ELSE {}
             s == Goto(t, "clear", awaits)
  <1>1. /\ task[t].pc = "run" /\ task[t].op \in CopyOps /\ SetOne(PadKey(p), mem[task[t].held])
        /\ task' = [task EXCEPT ![t] = s] /\ UNCHANGED <<disk, mem, cache, calls>>
    BY DEF SaveSource, At, Step, CopyOps
  <1>2. /\ Busy(t) /\ Shape(task[t]) /\ InHand(t) /\ HasPad(task[t]) /\ p \in Pads /\ p \in Uses(t)
        /\ mem[task[t].held] = view[PadKey(p)] /\ cache[p] = task[t].held
        /\ \A q \in Uses(t) : ~Rewritten(q)
        /\ task[t].op \notin PlainOps \cup {"compact"}
    BY <1>1, CopyingPad
  <1>3. PadKey(p) \in Keys /\ awaits \in SUBSET Keys
    BY <1>2, KeysInside
  <1>4. /\ s \in TaskType /\ s.pc = "clear" /\ s.op = task[t].op /\ s.pad = task[t].pad /\ s.dst = task[t].dst
        /\ s.held = task[t].held /\ s.obj = task[t].obj /\ s.records = task[t].records /\ s.n = task[t].n
    BY <1>3, GotoIs
  <1> HIDE DEF s, awaits
  <1>5. task'[t] = s
    BY <1>1, ChattingStep
  <1>6. \A k \in Keys : view'[k] = view[k]
    BY <1>1, <1>2, <1>3, SetOneIs DEF TypeInv
  <1>7. IsDatabase(ChatRoom, view')
    BY <1>1, <1>6 DEF TypeInv, IsDatabase, SetOne
  <1>8. Shape(s)
    BY <1>1, <1>2, <1>4 DEF Shape, Loading
  <1>9. InHand(t)'
    BY <1>1, <1>2, <1>4, <1>5 DEF InHand, HasPad, Reading
  <1>10. Uses(t)' \subseteq Uses(t) /\ AloneOf(t)' \subseteq AloneOf(t)
    BY <1>1, <1>4, <1>5 DEF Uses, AloneOf, Alone
  <1>11. /\ s.op \notin {"append", "chat"} /\ s.pc \notin {"idle", "init", "padLoad"}
         /\ \A r \in s.records : IsRecord(ChatRoom, r[1], r[2])
    BY <1>2, <1>4 DEF PlainOps, TypeInv
  <1>12. \A q \in Pads \ {p} : \A k \in KeysOf(q) : view'[k] = view[k]
    BY <1>6, KeysInside
  <1>13. mem[cache[p]] = view'[PadKey(p)]
    BY <1>2, <1>3, <1>6
  <1> QED BY <1>1, <1>2, <1>4, <1>7, <1>8, <1>9, <1>10, <1>11, <1>12, <1>13, DatabaseStep

\* What is known of a pad, cached or not.
LEMMA CurrentTyped ==
    ASSUME TypeInv, HandsInv, NEW p \in Pads, ~Rewritten(p)
    PROVE  /\ Exists(p) => Current(p) = view[PadKey(p)] /\ Current(p) \in PadIn(ChatRoom)
           /\ ~Exists(p) => cache[p] = Nothing
  <1>1. cache[p] # Nothing => mem[cache[p]] = view[PadKey(p)] /\ mem[cache[p]] \in PadIn(ChatRoom)
    <2>1. cache[p] \in DOMAIN mem \cup {Nothing} /\ \A o \in DOMAIN mem : mem[o] \in PadIn(ChatRoom)
      BY DEF TypeInv
    <2> QED BY <2>1 DEF HandsInv, CacheIsStored
  <1>2. Nothing \notin PadIn(ChatRoom)
    BY PadsAreRecords
  <1>3. Exists(p) => view[PadKey(p)] \in PadIn(ChatRoom)
    BY StoredHead, RoomBounded DEF Exists, TypeInv
  <1> QED BY <1>1, <1>2, <1>3 DEF Exists, Current

\* The destination is cleared.
LEMMA ClearStep ==
    ASSUME TakeTurns, TypeInv, HandsInv, NEW t \in Tasks, At(t, "clear"),
           Set(Cleared(task[t].dst)),
           cache' = [cache EXCEPT ![task[t].dst] = IF Exists(task[t].dst) THEN Nothing ELSE @],
           Step(t, Goto(t, IF task[t].op \in Copies THEN "read" ELSE "getPad", DOMAIN Cleared(task[t].dst))),
           UNCHANGED <<mem, disk, calls>>
    PROVE  TypeInv' /\ HandsInv' /\ Footprint(t)
  <1> DEFINE q == task[t].dst
             f == Cleared(q)
             pc == IF task[t].op \in Copies THEN "read" ELSE "getPad"
             s == Goto(t, pc, DOMAIN f)
  <1>1. task[t].pc = "clear" /\ Shape(task[t]) /\ task[t].op \in CopyOps /\ task[t].obj = Nothing
    BY DEF At, HandsInv, Shape
  <1>2. /\ Busy(t) /\ InHand(t) /\ HasPad(task[t]) /\ q \in Pads /\ q \in Uses(t) /\ q \in AloneOf(t)
        /\ cache[task[t].pad] = task[t].held /\ task[t].pad \in Pads /\ task[t].pad # q
        /\ task[t].held # Nothing
        /\ \A p \in Uses(t) : p \in Pads /\ ~Rewritten(p)
        /\ task[t].op \notin PlainOps \cup {"compact", "none"}
    BY <1>1, CopyingPad
  <1>3. /\ DOMAIN f \subseteq KeysOf(q) /\ (\A k \in DOMAIN f : f[k] = Nothing)
        /\ Exists(q) => PadKey(q) \in DOMAIN f
    <2> HIDE DEF q
    <2>1. CASE Exists(q)
      <3>1. ~Rewritten(q) /\ q \in Pads
        BY <1>2
      <3>2. Current(q) \in PadIn(ChatRoom)
        BY <2>1, <3>1, CurrentTyped
      <3>3. ChatRoom \in Int /\ ChatRoom <= MaxCalls
        BY RoomBounded, Constants
      <3>4. f = Removed(q, Current(q))
        BY <2>1 DEF Cleared
      <3> QED BY <3>1, <3>2, <3>3, <3>4, RemovedTyped
    <2>2. CASE ~Exists(q)
      <3>1. f = <<>> /\ DOMAIN <<>> = {}
        BY <2>2 DEF Cleared
      <3> QED BY <2>2, <3>1
    <2> QED BY <2>1, <2>2
  <1>4. DOMAIN f \in SUBSET Keys /\ PadKey(q) \in Keys
    BY <1>2, <1>3, KeysInside
  <1>5. /\ s \in TaskType /\ s.pc = pc /\ s.op = task[t].op /\ s.pad = task[t].pad /\ s.dst = task[t].dst
        /\ s.held = task[t].held /\ s.obj = task[t].obj /\ s.records = task[t].records /\ s.n = task[t].n
    BY <1>4, GotoIs DEF Loading
  <1>6. task' = [task EXCEPT ![t] = s] /\ Set(f)
    BY DEF Step
  <1> HIDE DEF s, f
  <1>7. task'[t] = s
    BY <1>6, ChattingStep
  <1>8. /\ IsDatabase(ChatRoom, view')
        /\ \A p \in Pads \ {q} : \A k \in KeysOf(p) : view'[k] = view[k]
        /\ \A k \in DOMAIN f : view'[k] = f[k]
        /\ \A k \in Keys \ DOMAIN f : view'[k] = view[k]
    <2> HIDE DEF q
    <2>1. \A k \in DOMAIN f : IsRecord(ChatRoom, k, f[k])
      BY <1>3 DEF IsRecord
    <2>2. IsDatabase(ChatRoom, view)
      BY DEF TypeInv
    <2> QED BY <1>2, <1>3, <1>6, <2>1, <2>2, SetsPad
  <1>9. view'[PadKey(q)] = Nothing
    BY <1>3, <1>4, <1>8 DEF Exists
  <1>10. cache'[q] = Nothing /\ cache'[task[t].pad] = task[t].held
         /\ (cache' = cache \/ (cache' = [cache EXCEPT ![q] = Nothing] /\ q \in AloneOf(t)))
    <2>1. CASE Exists(q)
      BY <1>2, <2>1 DEF TypeInv
    <2>2. CASE ~Exists(q)
      <3>1. cache[q] = Nothing
        BY <1>2, <2>2, CurrentTyped
      <3>2. cache' = cache
        BY <2>2 DEF TypeInv
      <3> QED BY <1>2, <3>1, <3>2
    <2> QED BY <2>1, <2>2
  <1>11. pc \in {"read", "getPad"} /\ (pc = "read" <=> task[t].op \in Copies)
         /\ (pc = "getPad" <=> task[t].op \in Snapshots) /\ (pc = "getPad" <=> task[t].op \notin Copies)
    BY <1>1 DEF CopyOps, Copies, Snapshots
  <1> HIDE DEF q, pc
  <1>12. Shape(s)
    BY <1>1, <1>2, <1>5, <1>11 DEF Shape, Loading
  <1>13. InHand(t)'
    BY <1>1, <1>2, <1>5, <1>7, <1>9, <1>10, <1>11 DEF InHand, HasPad, Reading, q
  <1>14. Uses(t)' \subseteq Uses(t) /\ AloneOf(t)' \subseteq AloneOf(t)
    BY <1>2, <1>5, <1>7, <1>10 DEF Uses, AloneOf, Alone
  <1>15. /\ s.op \notin {"append", "chat"} /\ s.pc \notin {"idle", "init", "padLoad"}
         /\ \A r \in s.records : IsRecord(ChatRoom, r[1], r[2])
    BY <1>2, <1>5, <1>11 DEF PlainOps, TypeInv
  <1> QED BY <1>2, <1>5, <1>6, <1>8, <1>10, <1>12, <1>13, <1>14, <1>15, DatabaseStep

\* A record that is written no longer has to be.
LEMMA PlannedStep ==
    ASSUME NEW s, NEW new, NEW db, NEW db2, DOMAIN db = Keys, NEW r \in s.records,
           \A r1, r2 \in s.records : r1[1] = r2[1] => r1 = r2,
           r[1] \in Keys, new.records = s.records \ {r}, db2[r[1]] = r[2],
           \A k \in Keys \ {r[1]} : db2[k] = db[k]
    PROVE  Planned(new, db2) = Planned(s, db)
  <1>1. \A r1, r2 \in new.records : r1[1] = r2[1] => r1 = r2
    OBVIOUS
  <1>2. ASSUME NEW k \in Keys PROVE Planned(new, db2)[k] = Planned(s, db)[k]
    <2>1. CASE k = r[1]
      <3>1. Planned(s, db)[k] = r[2]
        BY <2>1, PlannedIs
      <3>2. ~(\E x \in new.records : x[1] = k)
        BY <2>1
      <3>3. Planned(new, db2)[k] = db2[k]
        BY <1>1, <3>2, PlannedIs
      <3> QED BY <2>1, <3>1, <3>3
    <2>2. CASE k # r[1] /\ \E x \in s.records : x[1] = k
      <3>1. PICK x \in s.records : x[1] = k
        BY <2>2
      <3>2. x \in new.records
        BY <2>2, <3>1
      <3>3. Planned(s, db)[k] = x[2]
        BY <3>1, PlannedIs
      <3>4. Planned(new, db2)[k] = x[2]
        BY <1>1, <3>1, <3>2, PlannedIs
      <3> QED BY <3>3, <3>4
    <2>3. CASE k # r[1] /\ ~(\E x \in s.records : x[1] = k)
      <3>1. Planned(s, db)[k] = db[k]
        BY <2>3, PlannedIs
      <3>2. ~(\E x \in new.records : x[1] = k)
        BY <2>3
      <3>3. Planned(new, db2)[k] = db2[k]
        BY <1>1, <3>2, PlannedIs
      <3> QED BY <2>3, <3>1, <3>3
    <2> QED BY <2>1, <2>2, <2>3
  <1> QED BY <1>2 DEF Planned

\* A record of a copy is written.
LEMMA CopyRecordStep ==
    ASSUME TakeTurns, TypeInv, HandsInv, NEW t \in Tasks, copyRecord(t)
    PROVE  TypeInv' /\ HandsInv' /\ Footprint(t)
  <1> DEFINE q == task[t].dst
  <1>1. PICK r \in task[t].records :
          /\ SetOne(r[1], r[2])
          /\ Step(t, [task[t] EXCEPT !.records = @ \ {r}, !.awaits = @ \cup {r[1]}])
    BY DEF copyRecord
  <1> DEFINE s == [task[t] EXCEPT !.records = @ \ {r}, !.awaits = @ \cup {r[1]}]
  <1>2. /\ task[t].pc = "records" /\ Shape(task[t]) /\ task[t].op \in CopyOps /\ task[t].obj = Nothing
        /\ UNCHANGED <<disk, mem, cache, calls>> /\ task' = [task EXCEPT ![t] = s]
    <2>1. task[t].pc = "records"
      BY ReadAtOnce
    <2> QED BY <1>1, <2>1 DEF copyRecord, HandsInv, Shape, Step, CopyOps
  <1>3. /\ Busy(t) /\ InHand(t) /\ q \in Pads /\ q \in Uses(t)
        /\ \A p \in Uses(t) : p \in Pads /\ ~Rewritten(p)
        /\ task[t].op \notin PlainOps \cup {"compact", "none"}
    BY <1>2, CopyingPad
  <1>4. /\ r[1] \in KeysOf(q) /\ IsRecord(ChatRoom, r[1], r[2]) /\ r[1] \in Keys /\ cache[q] = Nothing
        /\ \A r1, r2 \in task[t].records : r1[1] = r2[1] => r1 = r2
    BY <1>2, <1>3, KeysInside DEF InHand, Reading, TypeInv
  <1>5. /\ s \in TaskType /\ s.pc = "records" /\ s.op = task[t].op /\ s.pad = task[t].pad /\ s.dst = task[t].dst
        /\ s.held = task[t].held /\ s.obj = task[t].obj /\ s.records = task[t].records \ {r} /\ s.n = task[t].n
    BY ZenonT(60), <1>2, <1>4, TaskFields DEF TaskType
  <1> HIDE DEF s
  <1>6. task'[t] = s
    BY <1>2, ChattingStep
  <1>7. /\ IsDatabase(ChatRoom, view') /\ view'[r[1]] = r[2]
        /\ \A p \in Pads \ {q} : \A k \in KeysOf(p) : view'[k] = view[k]
        /\ \A k \in Keys \ {r[1]} : view'[k] = view[k]
    <2> DEFINE key == r[1]
               rec == r[2]
    <2> HIDE DEF key, rec, q
    <2>1. key \in KeysOf(q) /\ SetOne(key, rec) /\ IsRecord(ChatRoom, key, rec)
      BY <1>1, <1>4 DEF key, rec
    <2>2. IsDatabase(ChatRoom, view)
      BY DEF TypeInv
    <2>3. /\ IsDatabase(ChatRoom, view') /\ view'[key] = rec
          /\ \A p \in Pads \ {q} : \A k \in KeysOf(p) : view'[k] = view[k]
          /\ \A k \in Keys \ {key} : view'[k] = view[k]
      BY <1>3, <2>1, <2>2, SetsPadOne
    <2> QED BY <2>3 DEF key, rec
  <1>8. Planned(s, view') = Planned(task[t], view)
    BY <1>4, <1>5, <1>7, PlannedStep DEF TypeInv, IsDatabase
  <1>9. Shape(s)
    BY <1>2, <1>5 DEF Shape
  <1>10. InHand(t)'
    BY <1>2, <1>3, <1>4, <1>5, <1>6, <1>8 DEF InHand, HasPad, Reading
  <1>11. Uses(t)' \subseteq Uses(t) /\ AloneOf(t)' \subseteq AloneOf(t)
    BY <1>2, <1>5, <1>6 DEF Uses, AloneOf, Alone
  <1>12. /\ s.op \notin {"append", "chat"} /\ s.pc \notin {"idle", "init", "padLoad"}
         /\ \A x \in s.records : IsRecord(ChatRoom, x[1], x[2])
    BY <1>3, <1>5 DEF PlainOps, TypeInv
  <1>13. cache'[q] = Nothing
    BY <1>2, <1>4
  <1> QED BY <1>2, <1>3, <1>5, <1>7, <1>9, <1>10, <1>11, <1>12, <1>13, DatabaseStep

\* The text of the source is appended to the copy.
LEMMA SnapshotParts ==
    ASSUME TakeTurns, TypeInv, HandsInv, NEW t \in Tasks, AppendSnapshot(t)
    PROVE  LET p == task[t].pad
               q == task[t].dst
               o == task[t].obj
               cs == mem[task[t].held].text
               f == revisionRecords(q, Blank, cs)
               new == appendRevision(Blank, cs)
           IN  /\ Busy(t) /\ task[t].pc = "second" /\ task[t].op \in Snapshots /\ HasPad(task[t]) /\ Shape(task[t])
               /\ p \in Pads /\ q \in Pads /\ p # q /\ Uses(t) = {p, q} /\ q \in AloneOf(t)
               /\ \A r \in Uses(t) : r \in Pads /\ ~Rewritten(r)
               /\ o \in DOMAIN mem /\ o \in Nat /\ o # Nothing /\ cache[q] = o /\ mem[o] = Blank
               /\ view[PadKey(q)] = Blank
               /\ task[t].held \in DOMAIN mem /\ task[t].held \in Nat /\ task[t].held # Nothing
               /\ cache[p] = task[t].held /\ task[t].held # o
               /\ cs \in Texts /\ new \in PadIn(ChatRoom) /\ new.text \in Texts
               /\ Set(f) /\ UNCHANGED <<disk, cache, calls>>
               /\ IsDatabase(ChatRoom, view') /\ view'[PadKey(q)] = new
               /\ \A r \in Pads \ {q} : \A k \in KeysOf(r) : view'[k] = view[k]
               /\ \A k \in Keys \ DOMAIN f : view'[k] = view[k]
               /\ \A k \in DOMAIN f : view'[k] = f[k]
  <1> DEFINE p == task[t].pad
             q == task[t].dst
             o == task[t].obj
             cs == mem[task[t].held].text
             f == revisionRecords(q, Blank, cs)
             new == appendRevision(Blank, cs)
  <1>1. task[t].pc = "second" /\ UNCHANGED <<disk, cache, calls>>
    <2>1. task[t].pc = "second" /\ UNCHANGED <<disk, calls>>
      BY DEF AppendSnapshot, At
    <2>2. cache' = cache
      BY DEF AppendSnapshot, Return
    <2> QED BY <2>1, <2>2
  <1>2. task[t].op \in Snapshots /\ task[t].op \in CopyOps
    BY DEF AppendSnapshot, Snapshots, CopyOps
  <1>3. /\ Busy(t) /\ Shape(task[t]) /\ InHand(t) /\ HasPad(task[t])
        /\ p \in Pads /\ q \in Pads /\ p # q /\ q \in AloneOf(t)
        /\ task[t].held \in DOMAIN mem /\ task[t].held \in Nat /\ task[t].held # Nothing
        /\ cache[p] = task[t].held /\ mem[task[t].held] \in PadIn(ChatRoom)
        /\ \A r \in Uses(t) : r \in Pads /\ ~Rewritten(r)
        /\ Uses(t) = {p, q}
    BY <1>1, <1>2, CopyingPad
  <1>4. o # Nothing /\ cache[q] = o /\ mem[o] = Blank /\ o \in DOMAIN mem /\ o \in Nat /\ task[t].held # o
    <2>1. o # Nothing /\ cache[q] = o /\ mem[o] = Blank
      BY <1>1, <1>2, <1>3 DEF Shape, InHand
    <2>2. task[t].held # o
      BY <1>3, <2>1 DEF HandsInv, OneObjectPerPad
    <2> QED BY <2>1, <2>2, TaskFields
  <1>5. view[PadKey(q)] = Blank
    BY <1>3, <1>4 DEF HandsInv, CacheIsStored
  <1>6. ChatRoom \in Int /\ -1 <= ChatRoom
    BY RoomBounded
  <1>7. cs \in Texts
    BY <1>3, <1>6, PadParts
  <1> DEFINE blank == Blank
  <1>8. blank \in PadIn(ChatRoom) /\ blank.head < MaxHead /\ blank = mem[o]
    BY <1>4, <1>6, BlankTyped, Constants DEF Blank
  <1>9. Set(revisionRecords(q, blank, cs))
    BY <1>4 DEF AppendSnapshot
  <1> HIDE DEF blank, cs, q
  <1>10. appendRevision(blank, cs) \in PadIn(ChatRoom)
    BY <1>6, <1>7, <1>8, AppendTyped
  <1>11. /\ DOMAIN revisionRecords(q, blank, cs) \subseteq KeysOf(q)
         /\ \A k \in DOMAIN revisionRecords(q, blank, cs) : IsRecord(ChatRoom, k, revisionRecords(q, blank, cs)[k])
         /\ ~HasEffect(blank, cs) =>
              DOMAIN revisionRecords(q, blank, cs) = {} /\ appendRevision(blank, cs) = blank
         /\ HasEffect(blank, cs) => /\ PadKey(q) \in DOMAIN revisionRecords(q, blank, cs)
                                    /\ revisionRecords(q, blank, cs)[PadKey(q)] = appendRevision(blank, cs)
    <2>1. PadKey(q) \in {RevKey(q, appendRevision(blank, cs).head), PadKey(q)}
      OBVIOUS
    <2> QED BY ZenonT(60), <1>3, <1>6, <1>7, <1>8, <2>1, RevisionRecordsTyped
  <1>12. /\ IsDatabase(ChatRoom, view')
         /\ \A k \in DOMAIN revisionRecords(q, blank, cs) : view'[k] = revisionRecords(q, blank, cs)[k]
         /\ \A r \in Pads \ {q} : \A k \in KeysOf(r) : view'[k] = view[k]
         /\ \A k \in Keys \ DOMAIN revisionRecords(q, blank, cs) : view'[k] = view[k]
    <2> DEFINE g == revisionRecords(q, blank, cs)
    <2> HIDE DEF g
    <2>1. DOMAIN g \subseteq KeysOf(q) /\ Set(g) /\ \A k \in DOMAIN g : IsRecord(ChatRoom, k, g[k])
      BY <1>9, <1>11 DEF g
    <2>2. IsDatabase(ChatRoom, view)
      BY DEF TypeInv
    <2>3. /\ IsDatabase(ChatRoom, view') /\ \A k \in DOMAIN g : view'[k] = g[k]
          /\ \A r \in Pads \ {q} : \A k \in KeysOf(r) : view'[k] = view[k]
          /\ \A k \in Keys \ DOMAIN g : view'[k] = view[k]
      BY <1>3, <2>1, <2>2, SetsPad
    <2> QED BY <2>3 DEF g
  <1>13. view'[PadKey(q)] = appendRevision(blank, cs)
    <2>1. PadKey(q) \in Keys
      BY <1>3, KeysInside
    <2>2. view[PadKey(q)] = blank
      BY <1>5 DEF blank, q
    <2> QED BY <1>11, <1>12, <2>1, <2>2
  <1>14. appendRevision(blank, cs).text \in Texts
    BY <1>6, <1>10, PadParts
  <1> QED BY <1>1, <1>2, <1>3, <1>4, <1>5, <1>7, <1>9, <1>10, <1>12, <1>13, <1>14 DEF blank, cs, q

\* The snapshot is answered, or the call goes on with the pad it has made or made anew.
LEMMA SnapshotStep ==
    ASSUME TakeTurns, TypeInv, HandsInv, NEW t \in Tasks, AppendSnapshot(t)
    PROVE  TypeInv' /\ HandsInv' /\ Footprint(t)
  <1> DEFINE p == task[t].pad
             q == task[t].dst
             o == task[t].obj
             cs == mem[task[t].held].text
             f == revisionRecords(q, Blank, cs)
             new == appendRevision(Blank, cs)
             snapshot == [mem EXCEPT ![o] = new]
  <1>1. /\ Busy(t) /\ task[t].pc = "second" /\ task[t].op \in Snapshots /\ HasPad(task[t]) /\ Shape(task[t])
        /\ p \in Pads /\ q \in Pads /\ p # q /\ Uses(t) = {p, q} /\ q \in AloneOf(t)
        /\ \A r \in Uses(t) : r \in Pads /\ ~Rewritten(r)
        /\ o \in DOMAIN mem /\ o \in Nat /\ o # Nothing /\ cache[q] = o /\ mem[o] = Blank
        /\ task[t].held \in DOMAIN mem /\ task[t].held \in Nat /\ task[t].held # Nothing
        /\ cache[p] = task[t].held /\ task[t].held # o
        /\ new \in PadIn(ChatRoom) /\ new.text \in Texts
        /\ UNCHANGED <<disk, cache, calls>>
        /\ IsDatabase(ChatRoom, view') /\ view'[PadKey(q)] = new
        /\ \A r \in Pads \ {q} : \A k \in KeysOf(r) : view'[k] = view[k]
    BY SnapshotParts
  <1>2. /\ DOMAIN snapshot = DOMAIN mem /\ snapshot[o] = new /\ IsFiniteSet(DOMAIN snapshot)
        /\ \A x \in DOMAIN mem \ {o} : snapshot[x] = mem[x]
    BY <1>1 DEF TypeInv
  <1>3. /\ \/ task[t].op = "snapshot" /\ Return(t, snapshot, cache, kept)
           \/ /\ task[t].op = "collapse" /\ mem' = snapshot
              /\ Continue(t, "recreate", q, p, o)
           \/ /\ task[t].op = "recreate" /\ mem' = snapshot
              /\ Continue(t, "remove", p, Nothing, task[t].held)
    BY <1>1 DEF AppendSnapshot
  <1> HIDE DEF new, snapshot, p, q, o
  <1>4. PICK s \in TaskType :
          /\ task' = [task EXCEPT ![t] = s] /\ Shape(s) /\ s.op \notin {"append", "chat"} /\ s.records = {}
          /\ s.pc \in {"idle", "run"}
          /\ s.held \in {Nothing, task[t].held, o} /\ s.obj = Nothing
          /\ \/ s.pc = "idle" /\ s.held = Nothing /\ mem' = Live(snapshot, cache', task')
             \/ s.pc = "run" /\ mem' = snapshot /\ s.op = "recreate" /\ task[t].op = "collapse"
                  /\ s.pad = q /\ s.dst = p /\ s.held = o
             \/ s.pc = "run" /\ mem' = snapshot /\ s.op = "remove" /\ task[t].op = "recreate"
                  /\ s.pad = p /\ s.dst = Nothing /\ s.held = task[t].held
    <2>1. CASE task[t].op = "snapshot"
      <3>1. task' = [task EXCEPT ![t] = Idle] /\ mem' = Live(snapshot, cache', task')
        BY <1>1, <1>3, <2>1 DEF Return, Step
      <3> QED BY <3>1, IdleTyped
    <2>2. CASE task[t].op = "collapse"
      <3> DEFINE s == [Idle EXCEPT !.pc = "run", !.op = "recreate", !.pad = q, !.dst = p, !.held = o,
                                   !.from = mem'[o].text]
      <3>1. task' = [task EXCEPT ![t] = s] /\ mem' = snapshot
        BY <1>1, <1>3, <2>2, Constants DEF Continue, Step
      <3>2. mem'[o].text \in Texts
        BY <1>1, <1>2, <3>1
      <3>3. /\ s \in TaskType /\ s.pc = "run" /\ s.op = "recreate" /\ s.pad = q /\ s.dst = p /\ s.held = o
            /\ s.obj = Nothing /\ s.records = {}
        BY <1>1, <3>2 DEF Idle, TaskType, PlainOps, CopyOps, Copies, Snapshots, o
      <3> HIDE DEF s
      <3>4. Shape(s)
        BY <1>1, <3>3 DEF Shape, PlainOps, CopyOps, Copies, Snapshots, Loading
      <3> QED BY <2>2, <3>1, <3>3, <3>4
    <2>3. CASE task[t].op = "recreate"
      <3> DEFINE s == [Idle EXCEPT !.pc = "run", !.op = "remove", !.pad = p, !.dst = Nothing,
                                   !.held = task[t].held, !.from = <<>>]
      <3>1. task' = [task EXCEPT ![t] = s] /\ mem' = snapshot
        BY <1>1, <1>3, <2>3 DEF Continue, Step
      <3>3. /\ s \in TaskType /\ s.pc = "run" /\ s.op = "remove" /\ s.pad = p /\ s.dst = Nothing
            /\ s.held = task[t].held /\ s.obj = Nothing /\ s.records = {}
        BY <1>1, EmptyText DEF Idle, TaskType, PlainOps, CopyOps, Copies, Snapshots
      <3> HIDE DEF s
      <3>4. Shape(s)
        BY <1>1, <3>3 DEF Shape, PlainOps, CopyOps, Copies, Snapshots, Loading
      <3> QED BY <2>3, <3>1, <3>3, <3>4
    <2> QED BY <1>3, <2>1, <2>2, <2>3
  <1>5. task'[t] = s /\ \A u \in Tasks \ {t} : task'[u] = task[u]
    BY <1>4, ChattingStep
  <1>6. /\ ChatRoom' \in Int /\ ChatRoom <= ChatRoom' /\ PadIn(ChatRoom) \subseteq PadIn(ChatRoom')
        /\ \A x \in DOMAIN mem : mem[x] \in PadIn(ChatRoom')
        /\ \A k, rec : IsRecord(ChatRoom, k, rec) => IsRecord(ChatRoom', k, rec)
    BY <1>1, <1>4, SameRoom
  <1>7. IsDatabase(ChatRoom', view')
    BY <1>1, <1>6 DEF IsDatabase
  <1>8. /\ IsFiniteSet(DOMAIN mem') /\ DOMAIN mem' \subseteq DOMAIN mem
        /\ \A x \in DOMAIN mem' : mem'[x] = snapshot[x]
        /\ \A r \in Pads : cache'[r] \in DOMAIN mem' \cup {Nothing}
        /\ \A u \in Tasks : {task'[u].held, task'[u].obj} \subseteq DOMAIN mem' \cup {Nothing}
    <2>1. /\ \A r \in Pads : cache'[r] \in DOMAIN mem \cup {Nothing}
          /\ \A u \in Tasks : {task'[u].held, task'[u].obj} \subseteq DOMAIN mem \cup {Nothing}
      <3>1. \A u \in Tasks : {task[u].held, task[u].obj} \subseteq DOMAIN mem \cup {Nothing}
        BY TaskFields
      <3>2. {s.held, s.obj} \subseteq DOMAIN mem \cup {Nothing}
        BY <1>1, <1>4
      <3> QED BY <1>1, <1>5, <3>1, <3>2, TaskFields
    <2>2. CASE mem' = snapshot
      BY <1>2, <2>1, <2>2
    <2>3. CASE mem' = Live(snapshot, cache', task')
      <3>1. /\ DOMAIN mem' \subseteq DOMAIN snapshot /\ IsFiniteSet(DOMAIN mem')
            /\ \A x \in DOMAIN mem' : mem'[x] = snapshot[x]
            /\ \A r \in Pads : cache'[r] \in DOMAIN snapshot => cache'[r] \in DOMAIN mem'
            /\ \A u \in Tasks : {task'[u].held, task'[u].obj} \cap DOMAIN snapshot \subseteq DOMAIN mem'
        BY <1>2, <2>3, LiveIs
      <3> QED BY <1>2, <2>1, <3>1
    <2> QED BY <1>4, <2>2, <2>3
  <1>9. \A x \in DOMAIN mem' : mem'[x] \in PadIn(ChatRoom')
    BY <1>1, <1>2, <1>6, <1>8
  <1>10. \A x \in DOMAIN mem \cap DOMAIN mem' : mem'[x] = mem[x] \/ (\E r \in Uses(t) : cache[r] = x)
    BY <1>1, <1>2, <1>8
  <1>11. cache' \in [Pads -> DOMAIN mem' \cup {Nothing}] /\ DOMAIN mem' \subseteq Nat
    BY <1>1, <1>8 DEF TypeInv
  <1>12. s.pc # "idle" => InHand(t)'
    <2>1. SUFFICES ASSUME s.pc = "run" PROVE InHand(t)'
      BY <1>4
    <2>2. cache'[s.pad] = s.held
      BY <1>1, <1>4, <2>1
    <2> QED BY <1>4, <1>5, <2>1, <2>2 DEF InHand, HasPad, Reading
  <1>13. s.pc # "idle" => Uses(t)' \subseteq Uses(t) /\ AloneOf(t)' \subseteq AloneOf(t)
    <2>1. SUFFICES ASSUME s.pc = "run"
                   PROVE  Uses(t)' \subseteq Uses(t) /\ AloneOf(t)' \subseteq AloneOf(t)
      BY <1>4
    <2>2. p \in AloneOf(t) \/ task[t].op = "snapshot"
      BY <1>1, AloneIs DEF Snapshots, p
    <2>3. Uses(t)' \subseteq Uses(t)
      BY <1>1, <1>4, <1>5, <2>1 DEF Uses
    <2>4. AloneOf(t)' \subseteq AloneOf(t)
      BY <1>1, <1>4, <1>5, <2>1, <2>2 DEF AloneOf, Alone, Copies, Snapshots
    <2> QED BY <2>3, <2>4
  <1>14. ASSUME NEW r \in Uses(t), cache'[r] # Nothing
         PROVE  mem'[cache'[r]] = view'[PadKey(r)]
    <2>1. cache'[r] = cache[r] /\ cache[r] \in DOMAIN mem' /\ r \in Pads
      BY <1>1, <1>8, <1>14
    <2>2. CASE r = q
      BY <1>1, <1>2, <1>8, <2>1, <2>2
    <2>3. CASE r # q
      <3>1. mem[cache[r]] = view[PadKey(r)] /\ cache[r] # o
        BY <1>1, <1>14, <2>1, <2>3 DEF HandsInv, CacheIsStored, OneObjectPerPad
      <3>2. view'[PadKey(r)] = view[PadKey(r)]
        BY <1>1, <2>1, <2>3, KeysInside
      <3> QED BY <1>2, <1>8, <2>1, <3>1, <3>2
    <2> QED BY <2>2, <2>3
  <1>15. Known(t, s.held) /\ Known(t, s.obj)
    BY <1>4 DEF Known, o
  <1>16. \A u \in Tasks \ {t} : {task[u].held, task[u].obj} \subseteq DOMAIN mem' \cup {Nothing}
    BY <1>5, <1>8
  <1>17. {s.held, s.obj} \subseteq DOMAIN mem' \cup {Nothing}
    BY <1>5, <1>8
  <1>18. \A r \in Pads \ Uses(t) : \A k \in KeysOf(r) : view'[k] = view[k]
    BY <1>1
  <1>19. /\ \A r \in Pads : cache'[r] = cache[r]
         /\ \A x \in s.records : IsRecord(ChatRoom', x[1], x[2])
         /\ s.pc \notin {"init", "padLoad"} /\ s.op \notin {"append", "chat"}
         /\ Busy(t) /\ UNCHANGED <<disk, calls>> /\ Shape(s) /\ task' = [task EXCEPT ![t] = s]
    BY <1>1, <1>4
  <1> QED BY <1>6, <1>7, <1>8, <1>9, <1>10, <1>11, <1>12, <1>13, <1>14, <1>15, <1>16, <1>17,
             <1>18, <1>19, WriteStep

-----------------------------------------------------------------------------
(* Steps of deleteRevisions. *)

\* What a task that compacts a pad has.
LEMMA CompactingPad ==
    ASSUME TakeTurns, TypeInv, HandsInv, NEW t \in Tasks, task[t].pc \in {"delete", "head", "revs", "unload"}
    PROVE  /\ Busy(t) /\ Shape(task[t]) /\ InHand(t) /\ HasPad(task[t]) /\ task[t].op = "compact"
           /\ task[t].pad \in Pads /\ Uses(t) = {task[t].pad} /\ task[t].pad \in AloneOf(t)
           /\ task[t].dst = Nothing /\ task[t].obj = Nothing /\ task[t].held # Nothing
           /\ cache[task[t].pad] = task[t].held /\ task[t].held \in DOMAIN mem
           /\ mem[task[t].held] \in PadIn(ChatRoom) /\ ChatRoom \in Int /\ ChatRoom < MaxCalls
           /\ task[t].pc \in {"delete", "head"} => mem[task[t].held] = view[PadKey(task[t].pad)]
           /\ PadKey(task[t].pad) \in KeysOf(task[t].pad) /\ PadKey(task[t].pad) \in Keys
  <1>1. /\ Busy(t) /\ Shape(task[t]) /\ InHand(t) /\ task[t].op = "compact" /\ task[t].pad \in Pads
        /\ task[t].dst = Nothing /\ task[t].obj = Nothing /\ task[t].held # Nothing
    BY DEF Busy, HandsInv, Shape, Loading
  <1>2. HasPad(task[t])
    BY <1>1 DEF HasPad
  <1>3. Uses(t) = {task[t].pad} /\ task[t].pad \in AloneOf(t)
    BY <1>1, AloneIs, Constants DEF Uses
  <1>4. cache[task[t].pad] = task[t].held /\ task[t].held \in DOMAIN mem
    BY <1>1, <1>2, TaskFields DEF InHand
  <1>5. mem[task[t].held] \in PadIn(ChatRoom)
    BY <1>4, TaskFields
  <1>6. task[t].pc \in {"delete", "head"} => mem[task[t].held] = view[PadKey(task[t].pad)]
    <2>1. task[t].pc \in {"delete", "head"} => ~Rewritten(task[t].pad)
      BY <1>3, NotRewritten
    <2> QED BY <1>1, <1>4, <2>1 DEF HandsInv, CacheIsStored
  <1> QED BY <1>1, <1>2, <1>3, <1>4, <1>5, <1>6, RoomBounded, KeysInside

LEMMA DeleteStep ==
    ASSUME TakeTurns, TypeInv, HandsInv, NEW t \in Tasks, DeleteRevisions(t)
    PROVE  TypeInv' /\ HandsInv' /\ Footprint(t)
  <1> DEFINE p == task[t].pad
             keys == RevKeys(p, mem[task[t].held].head)
             f == [k \in keys |-> Nothing]
             s == Goto(t, "head", keys)
  <1>1. task[t].pc = "delete" /\ Set(f) /\ task' = [task EXCEPT ![t] = s] /\ UNCHANGED <<disk, mem, cache, calls>>
    BY DEF DeleteRevisions, At, Step
  <1>2. /\ Busy(t) /\ Shape(task[t]) /\ InHand(t) /\ HasPad(task[t]) /\ task[t].op = "compact"
        /\ p \in Pads /\ Uses(t) = {p} /\ p \in AloneOf(t)
        /\ task[t].dst = Nothing /\ task[t].obj = Nothing /\ task[t].held # Nothing
        /\ cache[p] = task[t].held /\ mem[task[t].held] = view[PadKey(p)]
        /\ mem[task[t].held] \in PadIn(ChatRoom) /\ ChatRoom \in Int
        /\ PadKey(p) \in Keys
    BY <1>1, CompactingPad
  <1>3. keys \subseteq KeysOf(p) /\ PadKey(p) \notin keys /\ DOMAIN f = keys /\ \A k \in keys : f[k] = Nothing
    <2>1. 0 .. mem[task[t].held].head \subseteq 0 .. MaxHead
      BY <1>2, PadParts, Constants
    <2>2. keys \subseteq KeysOf(p)
      BY <1>2, <2>1, KeysInside DEF RevKeys
    <2>3. PadKey(p) \notin keys
      BY DEF RevKeys, PadKey, RevKey
    <2> QED BY <2>2, <2>3
  <1>4. keys \in SUBSET Keys
    BY <1>2, <1>3, KeysInside
  <1>5. /\ s \in TaskType /\ s.pc = "head" /\ s.op = task[t].op /\ s.pad = task[t].pad /\ s.dst = task[t].dst
        /\ s.held = task[t].held /\ s.obj = task[t].obj /\ s.records = task[t].records /\ s.n = task[t].n
    BY <1>4, GotoIs
  <1> HIDE DEF s, f, keys, p
  <1>6. task'[t] = s
    BY <1>1, ChattingStep
  <1>7. /\ IsDatabase(ChatRoom, view')
        /\ \A q \in Pads \ {p} : \A k \in KeysOf(q) : view'[k] = view[k]
        /\ \A k \in Keys \ DOMAIN f : view'[k] = view[k]
    <2>1. \A k \in DOMAIN f : IsRecord(ChatRoom, k, f[k])
      BY <1>3 DEF IsRecord
    <2>2. IsDatabase(ChatRoom, view)
      BY DEF TypeInv
    <2> QED BY <1>1, <1>2, <1>3, <2>1, <2>2, SetsPad
  <1>8. view'[PadKey(p)] = view[PadKey(p)]
    BY <1>2, <1>3, <1>7
  <1>9. Shape(s)
    BY <1>1, <1>2, <1>5 DEF Shape, Loading, PlainOps, CopyOps, Copies, Snapshots, p
  <1>10. InHand(t)'
    BY <1>1, <1>2, <1>5, <1>6 DEF InHand, HasPad, Reading
  <1>11. Uses(t)' \subseteq Uses(t) /\ AloneOf(t)' \subseteq AloneOf(t)
    BY <1>1, <1>5, <1>6 DEF Uses, AloneOf, Alone
  <1>12. /\ s.op \notin {"append", "chat"} /\ s.pc \notin {"idle", "init", "padLoad"}
         /\ \A r \in s.records : IsRecord(ChatRoom, r[1], r[2])
         /\ mem[cache[p]] = view'[PadKey(p)] /\ \A q \in Uses(t) \ {p} : ~Rewritten(q)
    BY <1>2, <1>5, <1>8 DEF TypeInv
  <1> QED BY <1>1, <1>2, <1>5, <1>7, <1>9, <1>10, <1>11, <1>12, DatabaseStep

LEMMA RewriteRecordStep ==
    ASSUME TakeTurns, TypeInv, HandsInv, NEW t \in Tasks, RewriteRecord(t)
    PROVE  TypeInv' /\ HandsInv' /\ Footprint(t)
  <1> DEFINE p == task[t].pad
             key == PadKey(p)
             rec == [view[key] EXCEPT !.head = KeepRevisions, !.saved = Renumbered(@, task[t].n)]
             s == Goto(t, "revs", {key})
  <1>1. task[t].pc = "head" /\ SetOne(key, rec) /\ task' = [task EXCEPT ![t] = s] /\ UNCHANGED <<disk, mem, cache, calls>>
    BY DEF RewriteRecord, At, Step
  <1>2. /\ Busy(t) /\ Shape(task[t]) /\ InHand(t) /\ HasPad(task[t]) /\ task[t].op = "compact"
        /\ p \in Pads /\ Uses(t) = {p} /\ p \in AloneOf(t)
        /\ task[t].dst = Nothing /\ task[t].obj = Nothing /\ task[t].held # Nothing
        /\ cache[p] = task[t].held /\ mem[task[t].held] = view[key]
        /\ mem[task[t].held] \in PadIn(ChatRoom) /\ ChatRoom \in Int
        /\ key \in Keys /\ key \in KeysOf(p)
    BY <1>1, CompactingPad
  <1>3. rec \in PadIn(ChatRoom) /\ rec.head >= 0
    <2>1. KeepRevisions <= MaxHead /\ KeepRevisions \in Nat /\ KeepRevisions \in -1 .. MaxHead /\ task[t].n \in Nat
      BY <1>1, <1>2, Constants, TaskFields DEF InHand
    <2>2. view[key].saved \subseteq 0 .. MaxHead
      BY <1>2, PadParts
    <2>3. Renumbered(view[key].saved, task[t].n) \subseteq 0 .. MaxHead
      BY <2>1, <2>2, Constants DEF Renumbered
    <2>4. rec = [head |-> KeepRevisions, chatHead |-> view[key].chatHead,
                 saved |-> Renumbered(view[key].saved, task[t].n), text |-> view[key].text]
      <3> DEFINE v == view[key]
                 saved == Renumbered(v.saved, task[t].n)
      <3>1. v \in PadIn(ChatRoom)
        BY <1>2
      <3>2. rec = [v EXCEPT !.head = KeepRevisions, !.saved = saved]
        OBVIOUS
      <3> HIDE DEF v, saved, rec
      <3>3. rec = [head |-> KeepRevisions, chatHead |-> v.chatHead, saved |-> saved, text |-> v.text]
        BY <3>1, <3>2 DEF PadIn
      <3> QED BY <3>3 DEF v, saved
    <2>5. view[key].chatHead \in -1 .. ChatRoom /\ view[key].text \in Texts
      BY <1>2, PadParts
    <2> HIDE DEF rec, key
    <2> QED BY <2>1, <2>3, <2>4, <2>5 DEF PadIn
  <1>4. {key} \in SUBSET Keys
    BY <1>2
  <1>5. /\ s \in TaskType /\ s.pc = "revs" /\ s.op = task[t].op /\ s.pad = task[t].pad /\ s.dst = task[t].dst
        /\ s.held = task[t].held /\ s.obj = task[t].obj /\ s.records = task[t].records /\ s.n = task[t].n
    BY <1>4, GotoIs
  <1> HIDE DEF s, rec
  <1>6. task'[t] = s
    BY <1>1, ChattingStep
  <1>7. IsRecord(ChatRoom, key, rec)
    BY <1>3, RecordKinds
  <1> HIDE DEF key, p
  <1>8. /\ IsDatabase(ChatRoom, view') /\ view'[key] = rec
        /\ \A q \in Pads \ {p} : \A k \in KeysOf(q) : view'[k] = view[k]
    <2>1. IsDatabase(ChatRoom, view)
      BY DEF TypeInv
    <2> QED BY <1>1, <1>2, <1>7, <2>1, SetsPadOne
  <1>9. view'[PadKey(p)] # Nothing
    BY <1>3, <1>8, PadsAreRecords DEF key
  <1>10. Shape(s)
    BY <1>1, <1>2, <1>5 DEF Shape, Loading, PlainOps, CopyOps, Copies, Snapshots, p
  <1>11. InHand(t)'
    BY <1>1, <1>2, <1>5, <1>6, <1>9 DEF InHand, HasPad, Reading, p
  <1>12. Uses(t)' \subseteq Uses(t) /\ AloneOf(t)' \subseteq AloneOf(t)
    BY <1>1, <1>5, <1>6 DEF Uses, AloneOf, Alone
  <1>13. \A q \in Pads : q = p => Rewritten(q)'
    BY <1>2, <1>5, <1>6 DEF Rewritten, p
  <1>14. /\ s.op \notin {"append", "chat"} /\ s.pc \notin {"idle", "init", "padLoad"}
         /\ \A r \in s.records : IsRecord(ChatRoom, r[1], r[2])
         /\ \A q \in Uses(t) \ {p} : ~Rewritten(q)
    BY <1>2, <1>5 DEF TypeInv
  <1> QED BY <1>1, <1>2, <1>5, <1>8, <1>10, <1>11, <1>12, <1>13, <1>14, DatabaseStep

LEMMA RewriteRevisionsStep ==
    ASSUME TakeTurns, TypeInv, HandsInv, NEW t \in Tasks, RewriteRevisions(t)
    PROVE  TypeInv' /\ HandsInv' /\ Footprint(t)
  <1> DEFINE p == task[t].pad
             records == task[t].records
             keys == {r[1] : r \in records}
             f == [k \in keys |-> (CHOOSE r \in records : r[1] = k)[2]]
             s == [Goto(t, "unload", keys) EXCEPT !.records = {}]
  <1>1. task[t].pc = "revs" /\ Set(f) /\ task' = [task EXCEPT ![t] = s] /\ UNCHANGED <<disk, mem, cache, calls>>
    BY DEF RewriteRevisions, At, Step
  <1>2. /\ Busy(t) /\ Shape(task[t]) /\ InHand(t) /\ HasPad(task[t]) /\ task[t].op = "compact"
        /\ p \in Pads /\ Uses(t) = {p} /\ p \in AloneOf(t)
        /\ task[t].dst = Nothing /\ task[t].obj = Nothing /\ task[t].held # Nothing
        /\ PadKey(p) \in Keys /\ PadKey(p) \in KeysOf(p)
    BY <1>1, CompactingPad
  <1>3. KeepRevisions <= MaxHead /\ keys \subseteq RevKeys(p, KeepRevisions) /\ view[PadKey(p)] # Nothing
    BY <1>1, <1>2 DEF InHand
  <1>4. keys \subseteq KeysOf(p) /\ PadKey(p) \notin keys
    <2>1. 0 .. KeepRevisions \subseteq 0 .. MaxHead
      BY <1>3, Constants
    <2>2. RevKeys(p, KeepRevisions) \subseteq KeysOf(p)
      BY <1>2, <2>1, KeysInside DEF RevKeys
    <2>3. PadKey(p) \notin RevKeys(p, KeepRevisions)
      BY DEF RevKeys, PadKey, RevKey
    <2> QED BY <1>3, <2>2, <2>3
  <1>5. \A k \in keys : IsRecord(ChatRoom, k, f[k])
    <2> TAKE k \in keys
    <2>1. \E r \in records : r[1] = k
      OBVIOUS
    <2>2. PICK r \in records : f[k] = r[2] /\ r[1] = k
      BY <2>1
    <2> QED BY <2>2 DEF TypeInv
  <1>6. keys \in SUBSET Keys
    BY <1>2, <1>4, KeysInside
  <1>7. /\ s \in TaskType /\ s.pc = "unload" /\ s.op = task[t].op /\ s.pad = task[t].pad /\ s.dst = task[t].dst
        /\ s.held = task[t].held /\ s.obj = task[t].obj /\ s.records = {} /\ s.n = task[t].n
    <2> DEFINE g == Goto(t, "unload", keys)
    <2>1. /\ g \in TaskType /\ g.pc = "unload" /\ g.op = task[t].op /\ g.pad = task[t].pad
          /\ g.dst = task[t].dst /\ g.held = task[t].held /\ g.obj = task[t].obj /\ g.n = task[t].n
      BY <1>6, GotoIs
    <2>2. s = [g EXCEPT !.records = {}]
      OBVIOUS
    <2> HIDE DEF g, s
    <2> QED BY <2>1, <2>2 DEF TaskType
  <1> HIDE DEF s
  <1>8. task'[t] = s /\ DOMAIN f = keys
    BY <1>1, ChattingStep
  <1> HIDE DEF f, keys, records, p
  <1>9. /\ IsDatabase(ChatRoom, view')
        /\ \A q \in Pads \ {p} : \A k \in KeysOf(q) : view'[k] = view[k]
        /\ \A k \in Keys \ DOMAIN f : view'[k] = view[k]
    <2>1. IsDatabase(ChatRoom, view)
      BY DEF TypeInv
    <2> QED BY <1>1, <1>2, <1>4, <1>5, <1>8, <2>1, SetsPad
  <1>10. view'[PadKey(p)] # Nothing
    BY <1>2, <1>3, <1>4, <1>8, <1>9
  <1>11. Shape(s)
    BY <1>1, <1>2, <1>7 DEF Shape, Loading, PlainOps, CopyOps, Copies, Snapshots, p
  <1>12. InHand(t)'
    BY <1>1, <1>2, <1>7, <1>8, <1>10 DEF InHand, HasPad, Reading, p
  <1>13. Uses(t)' \subseteq Uses(t) /\ AloneOf(t)' \subseteq AloneOf(t)
    BY <1>1, <1>7, <1>8 DEF Uses, AloneOf, Alone
  <1>14. \A q \in Pads : q = p => Rewritten(q)'
    BY <1>2, <1>7, <1>8 DEF Rewritten, p
  <1>15. /\ s.op \notin {"append", "chat"} /\ s.pc \notin {"idle", "init", "padLoad"}
         /\ \A r \in s.records : IsRecord(ChatRoom, r[1], r[2])
         /\ \A q \in Uses(t) \ {p} : ~Rewritten(q)
    BY <1>2, <1>7
  <1> QED BY <1>1, <1>2, <1>7, <1>9, <1>11, <1>12, <1>13, <1>14, <1>15, DatabaseStep

LEMMA UnloadStep ==
    ASSUME TakeTurns, TypeInv, HandsInv, NEW t \in Tasks, Unload(t)
    PROVE  TypeInv' /\ HandsInv' /\ Footprint(t)
  <1> DEFINE p == task[t].pad
             s == [Goto(t, "getPad", {}) EXCEPT !.dst = p]
  <1>1. task[t].pc = "unload" /\ task' = [task EXCEPT ![t] = s] /\ cache' = [cache EXCEPT ![p] = Nothing]
        /\ UNCHANGED <<view, disk, mem, calls>>
    BY DEF Unload, Unloaded, At, Step
  <1>2. /\ Busy(t) /\ Shape(task[t]) /\ InHand(t) /\ task[t].op = "compact"
        /\ p \in Pads /\ Uses(t) = {p} /\ p \in AloneOf(t)
        /\ task[t].obj = Nothing /\ task[t].held # Nothing
    BY <1>1, CompactingPad
  <1>3. /\ s \in TaskType /\ s.pc = "getPad" /\ s.op = task[t].op /\ s.pad = p /\ s.dst = p
        /\ s.held = task[t].held /\ s.obj = task[t].obj /\ s.records = task[t].records /\ s.n = task[t].n
    <2> DEFINE g == Goto(t, "getPad", {})
    <2>1. /\ g \in TaskType /\ g.pc = "getPad" /\ g.op = task[t].op /\ g.pad = task[t].pad
          /\ g.held = task[t].held /\ g.obj = task[t].obj /\ g.records = task[t].records /\ g.n = task[t].n
      BY GotoIs DEF Loading
    <2>2. s = [g EXCEPT !.dst = p]
      OBVIOUS
    <2> HIDE DEF g, s
    <2> QED BY <1>2, <2>1, <2>2 DEF TaskType
  <1> HIDE DEF s, p
  <1>4. task'[t] = s /\ cache'[p] = Nothing
    BY <1>1, <1>2, ChattingStep DEF TypeInv
  <1>5. /\ IsDatabase(ChatRoom, view') /\ view[PadKey(p)] # Nothing
        /\ \A q \in Pads \ {p} : \A k \in KeysOf(q) : view'[k] = view[k]
    BY <1>1, <1>2 DEF TypeInv, InHand, p
  <1>6. Shape(s)
    BY <1>1, <1>2, <1>3 DEF Shape, Loading, PlainOps, CopyOps, Copies, Snapshots, p
  <1>7. InHand(t)'
    <2>1. p # Nothing
      BY <1>2, Constants
    <2> QED BY <1>1, <1>2, <1>3, <1>4, <1>5, <2>1 DEF InHand, HasPad, Reading, Snapshots
  <1>8. Uses(t)' \subseteq Uses(t) /\ AloneOf(t)' \subseteq AloneOf(t)
    BY <1>1, <1>2, <1>3, <1>4 DEF Uses, AloneOf, Alone, Copies, Snapshots
  <1>9. /\ s.op \notin {"append", "chat"} /\ s.pc \notin {"idle", "init", "padLoad"}
        /\ \A r \in s.records : IsRecord(ChatRoom, r[1], r[2])
        /\ \A q \in Uses(t) \ {p} : ~Rewritten(q)
    BY <1>2, <1>3 DEF TypeInv
  <1> QED BY <1>1, <1>2, <1>3, <1>4, <1>5, <1>6, <1>7, <1>8, <1>9, DatabaseStep

-----------------------------------------------------------------------------
(* The database, a crash, and the beginning. *)

LEMMA FlushIs ==
    ASSUME TypeInv, NEW k \in Keys, Flush(k), NEW t \in Tasks
    PROVE  /\ task'[t].pc = task[t].pc /\ task'[t].op = task[t].op /\ task'[t].pad = task[t].pad
           /\ task'[t].dst = task[t].dst /\ task'[t].held = task[t].held /\ task'[t].obj = task[t].obj
           /\ task'[t].n = task[t].n /\ task'[t].records = task[t].records /\ task'[t].from = task[t].from
           /\ task'[t].awaits = task[t].awaits \ {k} /\ task'[t] \in TaskType
           /\ task[t] = Idle => task'[t] = Idle
  <1>1. task'[t] = [task[t] EXCEPT !.awaits = @ \ {k}]
    BY DEF Flush
  <1>2. task[t] \in TaskType
    BY TaskFields
  <1>3. task[t] = Idle => task'[t] = Idle
    <2>1. task[t] = Idle => task'[t] = [Idle EXCEPT !.awaits = {} \ {k}]
      BY <1>1 DEF Idle
    <2>2. [Idle EXCEPT !.awaits = {} \ {k}] = Idle
      <3>1. {} \ {k} = {} /\ Idle.awaits = {} /\ Idle \in TaskType
        BY IdleTyped DEF Idle
      <3> DEFINE s == Idle
      <3> HIDE DEF s
      <3>2. s \in TaskType /\ s.awaits = {} => [s EXCEPT !.awaits = {}] = s
        BY DEF TaskType
      <3> QED BY <3>1, <3>2 DEF s
    <2> QED BY <2>1, <2>2
  <1> QED BY <1>1, <1>2, <1>3 DEF TaskType

LEMMA FlushStep ==
    ASSUME TypeInv, HandsInv, NEW k \in Keys, Flush(k)
    PROVE  TypeInv' /\ HandsInv'
  <1>1. UNCHANGED <<view, mem, cache, calls>> /\ disk' = [disk EXCEPT ![k] = view[k]]
    BY DEF Flush
  <1>2. Chatting' = Chatting
    BY FlushIs DEF Chatting
  <1>3. ChatRoom' = ChatRoom
    BY <1>1, <1>2 DEF ChatRoom
  <1>4. task' \in [Tasks -> TaskType]
    <2>1. task' = [t \in Tasks |-> task'[t]]
      BY DEF Flush
    <2> QED BY <2>1, FlushIs
  <1>5. TypeInv'
    <2>1. IsDatabase(ChatRoom, disk')
      BY <1>1 DEF TypeInv, IsDatabase
    <2>2. ASSUME NEW t \in Tasks
          PROVE  /\ {task'[t].held, task'[t].obj} \subseteq DOMAIN mem \cup {Nothing}
                 /\ task'[t].op \in {"append", "chat"} => task'[t].n <= MaxCalls
                 /\ \A r \in task'[t].records : IsRecord(ChatRoom, r[1], r[2])
      BY FlushIs DEF TypeInv
    <2> QED BY <1>1, <1>3, <1>4, <2>1, <2>2 DEF TypeInv
  <1>6. ASSUME NEW t \in Tasks PROVE Shape(task'[t]) /\ (Busy(t)' => InHand(t)')
    <2>1. Shape(task[t]) /\ (Busy(t) => InHand(t))
      BY DEF HandsInv
    <2> DEFINE s == task'[t]
    <2>2. /\ s.pc = task[t].pc /\ s.op = task[t].op /\ s.pad = task[t].pad
          /\ s.dst = task[t].dst /\ s.held = task[t].held /\ s.obj = task[t].obj
          /\ s.n = task[t].n /\ s.records = task[t].records
          /\ task[t] = Idle => s = Idle
      BY FlushIs
    <2> HIDE DEF s
    <2>3. Shape(s)
      BY <2>1, <2>2 DEF Shape
    <2>4. Busy(t)' <=> Busy(t)
      BY <2>2 DEF Busy, s
    <2>5. Target(t)' = Target(t) /\ Planned(s, view) = Planned(task[t], view)
      BY <2>2 DEF Target, Planned, s
    <2>6. (HasPad(s) <=> HasPad(task[t])) /\ (Reading(s) <=> Reading(task[t]))
      BY <2>2 DEF HasPad, Reading
    <2>7. Busy(t) => InHand(t)'
      BY <1>1, <2>1, <2>2, <2>5, <2>6 DEF InHand, s
    <2> QED BY <2>3, <2>4, <2>7 DEF s
  <1>7. TurnsTaken'
    <2>1. \A t \in Tasks : (Busy(t)' <=> Busy(t)) /\ AloneOf(t)' = AloneOf(t) /\ Uses(t)' = Uses(t)
      BY <1>1, FlushIs DEF Busy, AloneOf, Alone, Uses
    <2> QED BY <2>1 DEF HandsInv, TurnsTaken
  <1>8. Private'
    BY <1>1, FlushIs DEF HandsInv, Private
  <1>9. OneObjectPerPad'
    BY <1>1 DEF HandsInv, OneObjectPerPad
  <1>10. CacheIsStored'
    <2>1. \A p \in Pads : Rewritten(p)' <=> Rewritten(p)
      BY FlushIs DEF Rewritten
    <2> QED BY <1>1, <2>1 DEF HandsInv, CacheIsStored
  <1> QED BY <1>5, <1>6, <1>7, <1>8, <1>9, <1>10 DEF HandsInv

\* Nobody is at work.
LEMMA AllIdle ==
    ASSUME task = [t \in Tasks |-> Idle], cache = [p \in Pads |-> Nothing]
    PROVE  HandsInv /\ Chatting = {}
  <1>1. \A t \in Tasks : task[t] = Idle /\ Shape(task[t]) /\ ~Busy(t) /\ task[t].pc = "idle" /\ task[t].op = "none"
    BY IdleTyped DEF Busy
  <1>2. \A p \in Pads : cache[p] = Nothing
    OBVIOUS
  <1> QED BY <1>1, <1>2 DEF HandsInv, TurnsTaken, Private, OneObjectPerPad, CacheIsStored, Chatting

LEMMA AllIdleNext ==
    ASSUME task' = [t \in Tasks |-> Idle], cache' = [p \in Pads |-> Nothing]
    PROVE  HandsInv' /\ Chatting' = {}
  <1>1. \A t \in Tasks : task'[t] = Idle /\ Shape(task'[t]) /\ ~Busy(t)' /\ task'[t].pc = "idle"
                         /\ task'[t].op = "none"
    BY IdleTyped DEF Busy
  <1>2. \A p \in Pads : cache'[p] = Nothing
    OBVIOUS
  <1> QED BY <1>1, <1>2 DEF HandsInv, TurnsTaken, Private, OneObjectPerPad, CacheIsStored, Chatting

LEMMA CrashStep ==
    ASSUME TypeInv, HandsInv, Crash
    PROVE  TypeInv' /\ HandsInv'
  <1>1. /\ view' = disk /\ disk' = disk /\ mem' = <<>> /\ cache' = [p \in Pads |-> Nothing]
        /\ task' = [t \in Tasks |-> Idle] /\ calls' = calls
    BY DEF Crash
  <1>2. HandsInv' /\ Chatting' = {}
    BY <1>1, AllIdleNext
  <1>3. ChatRoom' \in Int /\ ChatRoom <= ChatRoom' /\ -1 <= ChatRoom' /\ ChatRoom \in Int
    <2>1. Chatting' \subseteq Chatting /\ ChatRoom \in Int /\ -1 <= ChatRoom /\ calls \in Nat
      BY <1>2, Constants DEF TypeInv
    <2> QED BY <1>1, <2>1, RoomStays
  <1>4. IsDatabase(ChatRoom', disk)
    BY <1>3, RoomGrows DEF TypeInv
  <1>5. DOMAIN mem' = {} /\ IsFiniteSet({})
    BY <1>1, FS_EmptySet
  <1>6. \A t \in Tasks : task'[t] = Idle
    BY <1>1
  <1>7. TypeInv'
    <2>1. task' \in [Tasks -> TaskType]
      BY <1>1, IdleTyped
    <2>2. cache' \in [Pads -> DOMAIN mem' \cup {Nothing}]
      BY <1>1
    <2>3. \A t \in Tasks : /\ {task'[t].held, task'[t].obj} \subseteq DOMAIN mem' \cup {Nothing}
                           /\ ~(task'[t].op \in {"append", "chat"})
                           /\ task'[t].records = {}
      BY <1>6, IdleTyped
    <2> QED BY <1>1, <1>3, <1>4, <1>5, <2>1, <2>2, <2>3 DEF TypeInv
  <1> QED BY <1>2, <1>7

\* The records of the pad that is stored initially.
LEMMA InitialRecords ==
    ASSUME Init
    PROVE  /\ DOMAIN view = Keys
           /\ PadKey(Stored) \in Keys /\ RevKey(Stored, 0) \in Keys /\ RevKey(Stored, 1) \in Keys
           /\ view[PadKey(Stored)] = [head |-> 1, chatHead |-> -1, saved |-> {}, text |-> <<0, 1>>]
           /\ view[RevKey(Stored, 0)] = Revision(0, <<0>>, <<0>>)
           /\ view[RevKey(Stored, 1)] = Revision(1, <<1>>, <<0, 1>>)
           /\ \A k \in Keys : k \notin {PadKey(Stored), RevKey(Stored, 0), RevKey(Stored, 1)} => view[k] = Nothing
           /\ <<0>> \in Texts /\ <<1>> \in Texts /\ <<0, 1>> \in Texts
  <1>1. PadKey(Stored) \in Keys /\ RevKey(Stored, 0) \in Keys /\ RevKey(Stored, 1) \in Keys
    BY KeysInside, Constants
  <1>2. PadKey(Stored) # RevKey(Stored, 0) /\ PadKey(Stored) # RevKey(Stored, 1) /\ RevKey(Stored, 0) # RevKey(Stored, 1)
    BY DEF PadKey, RevKey
  <1>3. <<0>> \in Texts /\ <<1>> \in Texts /\ <<0, 1>> \in Texts
    <2>1. 0 \in 0 .. MaxCalls /\ 1 \in 0 .. MaxCalls
      BY Constants
    <2>2. <<0>> \in Seq(0 .. MaxCalls) /\ <<1>> \in Seq(0 .. MaxCalls) /\ <<0, 1>> \in Seq(0 .. MaxCalls)
      BY <2>1
    <2> QED BY <2>2 DEF Texts
  <1>4. [NewPad EXCEPT !.head = 1, !.text = <<0, 1>>] = [head |-> 1, chatHead |-> -1, saved |-> {}, text |-> <<0, 1>>]
    <2> DEFINE text == <<0, 1>>
    <2> HIDE DEF text
    <2>1. [NewPad EXCEPT !.head = 1, !.text = text] = [head |-> 1, chatHead |-> -1, saved |-> {}, text |-> text]
      <3> DEFINE pad == NewPad
      <3>1. pad \in PadIn(-1) /\ pad.chatHead = -1 /\ pad.saved = {}
        BY BlankTyped DEF NewPad
      <3> HIDE DEF pad
      <3> DEFINE rec == [pad EXCEPT !.head = 1, !.text = text]
      <3>2. rec = [pad EXCEPT !.head = 1, !.text = text]
        OBVIOUS
      <3> HIDE DEF rec
      <3>3. rec = [head |-> 1, chatHead |-> pad.chatHead, saved |-> pad.saved, text |-> text]
        BY <3>1, <3>2 DEF PadIn
      <3> QED BY <3>1, <3>2, <3>3 DEF pad
    <2> QED BY <2>1 DEF text
  <1> QED BY <1>1, <1>2, <1>3, <1>4 DEF Init

LEMMA InitInv ==
    ASSUME Init
    PROVE  TypeInv /\ HandsInv
  <1>1. HandsInv /\ Chatting = {}
    BY AllIdle DEF Init
  <1>2. ChatRoom = -1
    <2>1. Cardinality(Chatting) = 0
      BY <1>1, FS_EmptySet
    <2> QED BY <2>1 DEF ChatRoom, Init
  <1>3. IsDatabase(-1, view)
    <2> DEFINE pad == [head |-> 1, chatHead |-> -1, saved |-> {}, text |-> <<0, 1>>]
    <2>1. pad \in PadIn(-1) /\ pad.head >= 0
      BY InitialRecords, Constants DEF PadIn
    <2>2. IsRecord(-1, PadKey(Stored), view[PadKey(Stored)])
      BY <2>1, InitialRecords, RecordKinds
    <2>3. IsRecord(-1, RevKey(Stored, 0), view[RevKey(Stored, 0)])
      <3>1. Revision(0, <<0>>, <<0>>) \in RevisionRecord(0)
        BY InitialRecords, RevisionTyped
      <3> QED BY <3>1, InitialRecords, RecordKinds
    <2>4. IsRecord(-1, RevKey(Stored, 1), view[RevKey(Stored, 1)])
      <3>1. Revision(1, <<1>>, <<0, 1>>) \in RevisionRecord(1)
        BY InitialRecords, RevisionTyped
      <3> QED BY <3>1, InitialRecords, RecordKinds
    <2>5. \A k \in Keys : IsRecord(-1, k, view[k])
      BY <2>2, <2>3, <2>4, InitialRecords DEF IsRecord
    <2> QED BY <2>5, InitialRecords DEF IsDatabase
  <1>4. disk = view /\ DOMAIN mem = {} /\ IsFiniteSet({}) /\ calls = 1
    BY FS_EmptySet DEF Init
  <1>5. task \in [Tasks -> TaskType] /\ cache \in [Pads -> DOMAIN mem \cup {Nothing}]
    BY IdleTyped DEF Init
  <1>6. \A t \in Tasks : /\ {task[t].held, task[t].obj} \subseteq DOMAIN mem \cup {Nothing}
                         /\ ~(task[t].op \in {"append", "chat"})
                         /\ task[t].records = {}
    BY IdleTyped DEF Init
  <1>7. TypeInv
    BY <1>2, <1>3, <1>4, <1>5, <1>6, Constants DEF TypeInv
  <1> QED BY <1>1, <1>7

-----------------------------------------------------------------------------
(* The invariant. *)

\* What any step of a task leaves.
LEMMA TaskSteps ==
    ASSUME TakeTurns, TypeInv, HandsInv, NEW t \in Tasks, TaskStep(t)
    PROVE  TypeInv' /\ HandsInv' /\ Footprint(t)
  <1>1. CASE Call(t)
    BY <1>1, CallStep
  <1>2. CASE getPad(t)
    BY <1>2, CachedStep, FreshStep
  <1>3. CASE init(t)
    BY <1>3, InitStep
  <1>4. CASE cachePad(t)
    BY <1>4, CachePadStep
  <1>5. CASE Open(t)
    BY <1>5, OpenStep
  <1>6. CASE AppendEdit(t)
    BY <1>6, AppendStep
  <1>7. CASE appendChatMessage(t)
    BY <1>7, ChatStep
  <1>8. CASE addSavedRevision(t)
    BY <1>8, SaveStep
  <1>9. CASE remove(t)
    BY <1>9, RemoveStep
  <1>10. CASE Written(t)
    BY <1>10, WrittenStep
  <1>11. CASE SaveSource(t)
    BY <1>11, SaveSourceStep
  <1>12. CASE removePadIfForceIsTrueAndAlreadyExist(t)
    BY <1>12, ClearStep, RefusedStep DEF removePadIfForceIsTrueAndAlreadyExist
  <1>13. CASE ReadRecords(t)
    BY <1>13, ReadRecordsStep
  <1>14. CASE copyRecord(t)
    BY <1>14, CopyRecordStep
  <1>15. CASE RecordsCopied(t)
    BY <1>15, CopiesReadStep
  <1>16. CASE Copied(t)
    BY <1>16, CopiedStep
  <1>17. CASE AppendSnapshot(t)
    BY <1>17, SnapshotStep
  <1>18. CASE LoadRevisions(t)
    BY <1>18, LoadRevisionsStep
  <1>19. CASE DeleteRevisions(t)
    BY <1>19, DeleteStep
  <1>20. CASE RewriteRecord(t)
    BY <1>20, RewriteRecordStep
  <1>21. CASE RewriteRevisions(t)
    BY <1>21, RewriteRevisionsStep
  <1>22. CASE Unload(t)
    BY <1>22, UnloadStep
  <1>23. CASE Reloaded(t)
    BY <1>23, ReloadedStep
  <1> QED BY <1>1, <1>2, <1>3, <1>4, <1>5, <1>6, <1>7, <1>8, <1>9, <1>10, <1>11, <1>12, <1>13, <1>14,
             <1>15, <1>16, <1>17, <1>18, <1>19, <1>20, <1>21, <1>22, <1>23, ReadAtOnce DEF TaskStep

LEMMA NextHands ==
    ASSUME TakeTurns, TypeInv, HandsInv, [Next]_vars
    PROVE  TypeInv' /\ HandsInv'
  <1>1. CASE UNCHANGED vars
    <2>1. UNCHANGED <<view, disk, mem, cache, task, calls>>
      BY <1>1 DEF vars
    <2>2. TypeInv'
      BY <2>1 DEF TypeInv, ChatRoom, Chatting
    <2>3. ASSUME NEW t \in Tasks PROVE Shape(task[t])' /\ (Busy(t)' => InHand(t)')
      BY <2>1 DEF HandsInv, Busy, InHand, Target
    <2>4. TurnsTaken'
      BY <2>1 DEF HandsInv, TurnsTaken, Busy, AloneOf, Alone, Uses
    <2>5. Private'
      BY <2>1 DEF HandsInv, Private
    <2>6. OneObjectPerPad' /\ CacheIsStored'
      BY <2>1 DEF HandsInv, OneObjectPerPad, CacheIsStored, Rewritten
    <2> QED BY <2>2, <2>3, <2>4, <2>5, <2>6 DEF HandsInv
  <1>2. CASE \E t \in Tasks : TaskStep(t)
    BY <1>2, TaskSteps
  <1>3. CASE \E k \in Keys : Flush(k)
    BY <1>3, FlushStep
  <1>4. CASE Crash
    BY <1>4, CrashStep
  <1> QED BY <1>1, <1>2, <1>3, <1>4 DEF Next

LEMMA AlwaysHands == TakeTurns /\ Spec => [](TypeInv /\ HandsInv)
  <1> SUFFICES ASSUME TakeTurns PROVE Spec => [](TypeInv /\ HandsInv)
    OBVIOUS
  <1>1. Init => TypeInv /\ HandsInv
    BY InitInv
  <1>2. TypeInv /\ HandsInv /\ [Next]_vars => (TypeInv /\ HandsInv)'
    BY NextHands
  <1> QED BY <1>1, <1>2, PTL DEF Spec

\* The type invariant: every record is of its kind and every reference to an object leads to one.
LEMMA TypesHold ==
    ASSUME TypeInv
    PROVE  TypeOK
  <1>1. ChatRoom \in Int /\ ChatRoom < MaxCalls
    BY RoomBounded
  <1>2. PadIn(ChatRoom) \subseteq PadRecord
    <2>1. -1 .. ChatRoom \subseteq -1 .. MaxCalls
      BY <1>1, Constants
    <2> QED BY <2>1 DEF PadIn, PadRecord
  <1>3. ASSUME NEW k \in Keys, NEW rec \in {view[k], disk[k]} \ {Nothing}
        PROVE  rec \in CASE k[1] = "pad" -> PadRecord
                         [] k[1] = "revs" -> RevisionRecord(k[3])
                         [] k[1] = "chat" -> 0 .. MaxCalls
    <2>1. IsRecord(ChatRoom, k, rec) /\ rec # Nothing
      BY <1>3 DEF TypeInv, IsDatabase
    <2>2. k[1] = "pad" => rec \in PadRecord
      BY <1>2, <2>1 DEF IsRecord
    <2>3. k[1] = "revs" => rec \in RevisionRecord(k[3])
      BY <2>1 DEF IsRecord
    <2>4. k[1] = "chat" => rec \in 0 .. MaxCalls
      BY <2>1 DEF IsRecord
    <2>5. k[1] \in {"pad", "revs", "chat"}
      BY <2>1 DEF IsRecord
    <2>6. CASE k[1] = "pad"
      BY <2>2, <2>6
    <2>7. CASE k[1] = "revs"
      BY <2>3, <2>7
    <2>8. CASE k[1] = "chat"
      BY <2>4, <2>8
    <2> QED BY <2>5, <2>6, <2>7, <2>8
  <1>4. \A o \in DOMAIN mem : mem[o] \in PadRecord
    BY <1>2 DEF TypeInv
  <1>5. \A p \in Pads : cache[p] \in DOMAIN mem \cup {Nothing}
    BY DEF TypeInv
  <1>6. \A t \in Tasks : {task[t].held, task[t].obj} \subseteq DOMAIN mem \cup {Nothing}
    BY DEF TypeInv
  <1>7. \A t \in Tasks : task[t].awaits \subseteq Keys
    BY TaskFields
  <1> HIDE DEF PadRecord
  <1> QED BY <1>3, <1>4, <1>5, <1>6, <1>7 DEF TypeOK

\* Every record is of its kind, key revisions hold a text, and no task or cache
\* refers to an object that is gone (Pad.ts, PadManager.ts).
THEOREM RecordsTyped == TakeTurns /\ Spec => []TypeOK
  BY AlwaysHands, TypesHold, PTL

\* The object in the cache is the stored pad: no call that has its pad for itself
\* writes behind the back of globalPads (PadManager.ts, getPad and unloadPad).
THEOREM CacheMatchesStored == TakeTurns /\ Spec => []CacheMatches
  <1>1. TypeInv /\ HandsInv => CacheMatches
    <2> SUFFICES ASSUME TypeInv, HandsInv, NEW p \in Pads, cache[p] # Nothing, ~BeingWritten(p)
                 PROVE  mem[cache[p]] = view[PadKey(p)]
      BY DEF CacheMatches
    <2>1. ~Rewritten(p)
      BY DEF Rewritten, BeingWritten, Compacting
    <2> QED BY <2>1 DEF HandsInv, CacheIsStored
  <1> QED BY <1>1, AlwaysHands, PTL

-----------------------------------------------------------------------------
(* A pad and its records. *)

LEMMA OtherKeys ==
    ASSUME NEW p \in Pads
    PROVE  /\ \A r \in 0 .. MaxHead : RevKey(p, r) \in KeysOf(p) \ {PadKey(p)}
           /\ \A n \in 0 .. MaxCalls : ChatKey(p, n) \in KeysOf(p) \ {PadKey(p)}
           /\ \A r, i : RevKey(p, r) = RevKey(p, i) <=> r = i
           /\ \A n, i : ChatKey(p, n) = ChatKey(p, i) <=> n = i
           /\ \A r, n : RevKey(p, r) # ChatKey(p, n)
           /\ \A r : RevKey(p, r) # PadKey(p)
           /\ \A n : ChatKey(p, n) # PadKey(p)
  <1>1. \A r, i : RevKey(p, r) = RevKey(p, i) <=> r = i
    BY DEF RevKey
  <1>2. \A n, i : ChatKey(p, n) = ChatKey(p, i) <=> n = i
    BY DEF ChatKey
  <1>3. \A r, n : RevKey(p, r) # ChatKey(p, n)
    BY DEF RevKey, ChatKey
  <1>4. (\A r : RevKey(p, r) # PadKey(p)) /\ (\A n : ChatKey(p, n) # PadKey(p))
    BY DEF RevKey, ChatKey, PadKey
  <1> QED BY <1>1, <1>2, <1>3, <1>4, KeysInside

\* The record of the pad itself is of no matter.
LEMMA WholeFrame ==
    ASSUME NEW room \in Int, room <= MaxCalls, NEW pad \in PadIn(room), NEW p \in Pads, NEW db, NEW old,
           \A k \in KeysOf(p) \ {PadKey(p)} : db[k] = old[k], Whole(old, p, pad)
    PROVE  Whole(db, p, pad)
  <1>1. pad.head \in -1 .. MaxHead /\ pad.head \in Int
    BY PadParts, Constants
  <1>2. \A r \in 0 .. MaxHead : db[RevKey(p, r)] = old[RevKey(p, r)]
    BY OtherKeys
  <1>3. \A n \in 0 .. MaxCalls : db[ChatKey(p, n)] = old[ChatKey(p, n)]
    BY OtherKeys
  <1>4. \A to \in -1 .. pad.head : Composed(db, p, to) = Composed(old, p, to)
    <2> TAKE to \in -1 .. pad.head
    <2>1. to \in Int /\ 0 .. to \subseteq 0 .. MaxHead
      BY <1>1, Constants
    <2>2. \A r \in 0 .. to : db[RevKey(p, r)].changeset = old[RevKey(p, r)].changeset
      BY <1>2, <2>1
    <2> QED BY <2>1, <2>2, ComposedSame
  <1>5. pad.head \in -1 .. pad.head /\ 0 .. pad.head \subseteq -1 .. pad.head /\ 0 .. pad.head \subseteq 0 .. MaxHead
    BY <1>1, Constants
  <1> QED BY <1>2, <1>3, <1>4, <1>5 DEF Whole

\* A pad without records is a new one.
LEMMA WholeNew ==
    ASSUME NEW db, NEW p \in Pads
    PROVE  Whole(db, p, NewPad) <=> \A k \in KeysOf(p) \ {PadKey(p)} : db[k] = Nothing
  <1>1. NewPad.head = -1 /\ NewPad.chatHead = -1 /\ NewPad.saved = {} /\ NewPad.text = <<>>
    BY DEF NewPad
  <1>2. Composed(db, p, -1) = <<>>
    <2>1. Composed(db, p, -1) = FlattenSeq([i \in 1 .. 0 |-> db[RevKey(p, i - 1)].changeset])
      BY DEF Composed
    <2>2. [i \in 1 .. 0 |-> db[RevKey(p, i - 1)].changeset] = <<>>
      OBVIOUS
    <2> QED BY <2>1, <2>2, FlattenEmpty
  <1>3. Whole(db, p, NewPad) <=> /\ \A r \in 0 .. MaxHead : db[RevKey(p, r)] = Nothing
                                 /\ \A n \in 0 .. MaxCalls : db[ChatKey(p, n)] = Nothing
    <2>1. (\A r \in 0 .. MaxHead : ~(r <= -1)) /\ (\A n \in 0 .. MaxCalls : ~(n <= -1)) /\ 0 .. -1 = {}
      OBVIOUS
    <2> QED BY <1>1, <1>2, <2>1 DEF Whole
  <1>4. \A k \in KeysOf(p) \ {PadKey(p)} :
          (\E r \in 0 .. MaxHead : k = RevKey(p, r)) \/ (\E n \in 0 .. MaxCalls : k = ChatKey(p, n))
    BY DEF KeysOf, RevKeys, ChatKeys
  <1>5. ASSUME Whole(db, p, NewPad), NEW k \in KeysOf(p) \ {PadKey(p)} PROVE db[k] = Nothing
    BY <1>3, <1>4, <1>5
  <1>6. ASSUME \A k \in KeysOf(p) \ {PadKey(p)} : db[k] = Nothing PROVE Whole(db, p, NewPad)
    <2>1. (\A r \in 0 .. MaxHead : db[RevKey(p, r)] = Nothing) /\ (\A n \in 0 .. MaxCalls : db[ChatKey(p, n)] = Nothing)
      BY <1>6, OtherKeys
    <2> QED BY <1>3, <2>1
  <1> QED BY <1>5, <1>6

\* A revision is appended.
LEMMA WholeAppend ==
    ASSUME NEW room \in Int, room <= MaxCalls, NEW pad \in PadIn(room), NEW p \in Pads,
           NEW db, NEW old, IsDatabase(room, old), IsDatabase(room, db), Whole(old, p, pad),
           pad.head < MaxHead, NEW cs \in Texts, NEW new \in PadIn(room),
           new.head = pad.head + 1, new.chatHead = pad.chatHead, new.saved = pad.saved, new.text = pad.text \o cs,
           db[RevKey(p, new.head)] = Revision(new.head, cs, new.text),
           \A k \in KeysOf(p) \ {PadKey(p), RevKey(p, new.head)} : db[k] = old[k]
    PROVE  Whole(db, p, new)
  <1>1. pad.head \in -1 .. MaxHead /\ new.head \in 0 .. MaxHead /\ pad.head \in Int /\ new.head \in Nat
    BY PadParts, Constants
  <1>2. \A r \in 0 .. MaxHead : r # new.head => db[RevKey(p, r)] = old[RevKey(p, r)]
    BY OtherKeys
  <1>3. \A n \in 0 .. MaxCalls : db[ChatKey(p, n)] = old[ChatKey(p, n)]
    BY OtherKeys
  <1>4. \A r \in 0 .. MaxHead : old[RevKey(p, r)] # Nothing <=> r <= pad.head
    BY DEF Whole
  <1>5. db[RevKey(p, new.head)] \in RevisionRecord(new.head) /\ db[RevKey(p, new.head)] # Nothing
        /\ db[RevKey(p, new.head)].changeset = cs
    <2>1. new.text \in Texts
      BY PadParts
    <2> QED BY <1>1, <2>1, RevisionTyped, PadsAreRecords
  <1>6. \A r \in 0 .. MaxHead : db[RevKey(p, r)] # Nothing <=> r <= new.head
    BY <1>1, <1>2, <1>4, <1>5
  <1>7. \A to \in -1 .. pad.head : Composed(db, p, to) = Composed(old, p, to)
    <2> TAKE to \in -1 .. pad.head
    <2>1. to \in Int /\ \A r \in 0 .. to : r \in 0 .. MaxHead /\ r # new.head
      BY <1>1, Constants
    <2>2. \A r \in 0 .. to : db[RevKey(p, r)].changeset = old[RevKey(p, r)].changeset
      BY <1>2, <2>1
    <2> QED BY <2>1, <2>2, ComposedSame
  <1>8. Composed(db, p, new.head) = new.text
    <2>1. \A r \in 0 .. new.head : db[RevKey(p, r)] # Nothing
      BY <1>1, <1>6, Constants
    <2>2. Composed(db, p, new.head) = Composed(db, p, new.head - 1) \o db[RevKey(p, new.head)].changeset
      BY <1>1, <2>1, ComposedStep
    <2>3. new.head - 1 = pad.head /\ pad.head \in -1 .. pad.head
      BY <1>1
    <2>4. pad.text = Composed(old, p, pad.head)
      BY DEF Whole
    <2> QED BY <1>5, <1>7, <2>2, <2>3, <2>4
  <1>9. \A r \in 0 .. new.head : IsKeyRevision(r) => db[RevKey(p, r)].atext = Composed(db, p, r)
    <2> SUFFICES ASSUME NEW r \in 0 .. new.head, IsKeyRevision(r)
                 PROVE  db[RevKey(p, r)].atext = Composed(db, p, r)
      OBVIOUS
    <2>1. CASE r = new.head
      <3>1. db[RevKey(p, r)].atext = new.text
        BY <2>1 DEF Revision
      <3> QED BY <1>8, <2>1, <3>1
    <2>2. CASE r # new.head
      <3>1. r \in 0 .. pad.head /\ r \in -1 .. pad.head /\ r \in 0 .. MaxHead
        BY <1>1, <2>2, Constants
      <3>2. old[RevKey(p, r)].atext = Composed(old, p, r)
        BY <3>1 DEF Whole
      <3> QED BY <1>2, <1>7, <2>2, <3>1, <3>2
    <2> QED BY <2>1, <2>2
  <1>10. new.saved \subseteq 0 .. new.head
    <2>1. pad.saved \subseteq 0 .. pad.head
      BY DEF Whole
    <2> QED BY <1>1, <2>1
  <1>11. \A n \in 0 .. MaxCalls : db[ChatKey(p, n)] # Nothing <=> n <= new.chatHead
    BY <1>3 DEF Whole
  <1> QED BY <1>6, <1>8, <1>9, <1>10, <1>11 DEF Whole

\* A message is added.
LEMMA WholeChat ==
    ASSUME NEW room \in Int, room <= MaxCalls, NEW pad \in PadIn(room), NEW p \in Pads,
           NEW db, NEW old, Whole(old, p, pad), NEW new \in PadIn(room),
           new.head = pad.head, new.chatHead = pad.chatHead + 1, new.saved = pad.saved, new.text = pad.text,
           db[ChatKey(p, new.chatHead)] # Nothing,
           \A k \in KeysOf(p) \ {PadKey(p), ChatKey(p, new.chatHead)} : db[k] = old[k]
    PROVE  Whole(db, p, new)
  <1> DEFINE n == new.chatHead
  <1>1. pad.chatHead \in -1 .. room /\ n \in 0 .. MaxCalls /\ pad.chatHead \in Int
    BY PadParts, Constants
  <1>2. \A r \in 0 .. MaxHead : db[RevKey(p, r)] = old[RevKey(p, r)]
    BY OtherKeys
  <1>3. \A i \in 0 .. MaxCalls : i # n => db[ChatKey(p, i)] = old[ChatKey(p, i)]
    BY OtherKeys
  <1>4. \A i \in 0 .. MaxCalls : old[ChatKey(p, i)] # Nothing <=> i <= pad.chatHead
    BY DEF Whole
  <1>5. \A i \in 0 .. MaxCalls : db[ChatKey(p, i)] # Nothing <=> i <= n
    BY <1>1, <1>3, <1>4
  <1>6. pad.head \in -1 .. MaxHead /\ pad.head \in Int
    BY PadParts, Constants
  <1>7. \A to \in -1 .. pad.head : Composed(db, p, to) = Composed(old, p, to)
    <2> TAKE to \in -1 .. pad.head
    <2>1. to \in Int /\ 0 .. to \subseteq 0 .. MaxHead
      BY <1>6, Constants
    <2>2. \A r \in 0 .. to : db[RevKey(p, r)].changeset = old[RevKey(p, r)].changeset
      BY <1>2, <2>1
    <2> QED BY <2>1, <2>2, ComposedSame
  <1>8. pad.head \in -1 .. pad.head /\ 0 .. pad.head \subseteq -1 .. pad.head /\ 0 .. pad.head \subseteq 0 .. MaxHead
    BY <1>6, Constants
  <1> QED BY <1>2, <1>5, <1>7, <1>8 DEF Whole

\* The head is saved.
LEMMA WholeSave ==
    ASSUME NEW room \in Int, NEW pad \in PadIn(room), pad.head >= 0, NEW p \in Pads, NEW db, Whole(db, p, pad),
           NEW new, new.head = pad.head, new.chatHead = pad.chatHead, new.saved = pad.saved \cup {pad.head},
           new.text = pad.text
    PROVE  Whole(db, p, new)
  <1>1. pad.head \in 0 .. pad.head
    BY PadParts, Constants
  <1>2. new.saved \subseteq 0 .. new.head
    BY <1>1 DEF Whole
  <1> QED BY <1>2 DEF Whole

\* The records of a pad are those up to its heads.
LEMMA WholeOutside ==
    ASSUME NEW room \in Int, room <= MaxCalls, NEW pad \in PadIn(room), NEW p \in Pads, NEW db, Whole(db, p, pad)
    PROVE  /\ \A k \in KeysOf(p) \ RecordKeys(p, pad) : db[k] = Nothing
           /\ \A k \in RecordKeys(p, pad) \ {PadKey(p)} : db[k] # Nothing
  <1>1. pad.head \in -1 .. MaxHead /\ pad.chatHead \in -1 .. room
    BY PadParts
  <1>2. ASSUME NEW k \in KeysOf(p) \ RecordKeys(p, pad)
        PROVE  db[k] = Nothing
    <2>1. k \notin {PadKey(p)} \cup RevKeys(p, pad.head) \cup ChatKeys(p, pad.chatHead)
      BY <1>2 DEF RecordKeys
    <2>2. CASE \E r \in 0 .. MaxHead : k = RevKey(p, r)
      <3>1. PICK r \in 0 .. MaxHead : k = RevKey(p, r)
        BY <2>2
      <3>2. r \notin 0 .. pad.head
        BY <2>1, <3>1 DEF RevKeys
      <3>3. ~(r <= pad.head)
        BY <1>1, <3>1, <3>2, Constants
      <3> QED BY <3>1, <3>3 DEF Whole
    <2>3. CASE \E n \in 0 .. MaxCalls : k = ChatKey(p, n)
      <3>1. PICK n \in 0 .. MaxCalls : k = ChatKey(p, n)
        BY <2>3
      <3>2. n \notin 0 .. pad.chatHead
        BY <2>1, <3>1 DEF ChatKeys
      <3>3. ~(n <= pad.chatHead)
        BY <1>1, <3>1, <3>2, Constants
      <3> QED BY <3>1, <3>3 DEF Whole
    <2> QED BY <1>2, <2>1, <2>2, <2>3 DEF KeysOf, RevKeys, ChatKeys
  <1>3. ASSUME NEW k \in RecordKeys(p, pad) \ {PadKey(p)}
        PROVE  db[k] # Nothing
    <2>1. (\E r \in 0 .. pad.head : k = RevKey(p, r)) \/ (\E n \in 0 .. pad.chatHead : k = ChatKey(p, n))
      BY <1>3 DEF RecordKeys, RevKeys, ChatKeys
    <2>2. CASE \E r \in 0 .. pad.head : k = RevKey(p, r)
      <3>1. PICK r \in 0 .. pad.head : k = RevKey(p, r)
        BY <2>2
      <3>2. r \in 0 .. MaxHead /\ r <= pad.head
        BY <1>1, <3>1, Constants
      <3> QED BY <3>1, <3>2 DEF Whole
    <2>3. CASE \E n \in 0 .. pad.chatHead : k = ChatKey(p, n)
      <3>1. PICK n \in 0 .. pad.chatHead : k = ChatKey(p, n)
        BY <2>3
      <3>2. n \in 0 .. MaxCalls /\ n <= pad.chatHead
        BY <1>1, <3>1, Constants
      <3> QED BY <3>1, <3>2 DEF Whole
    <2> QED BY <2>1, <2>2, <2>3
  <1> QED BY <1>2, <1>3

\* Everything up to the heads is removed.
LEMMA WholeRemoved ==
    ASSUME NEW room \in Int, room <= MaxCalls, NEW pad \in PadIn(room), NEW p \in Pads, NEW db, NEW old,
           Whole(old, p, pad),
           \A k \in RecordKeys(p, pad) : db[k] = Nothing,
           \A k \in KeysOf(p) \ RecordKeys(p, pad) : db[k] = old[k]
    PROVE  (\A k \in KeysOf(p) : db[k] = Nothing) /\ Exact(db, p)
  <1>1. \A k \in KeysOf(p) : db[k] = Nothing
    BY WholeOutside
  <1>2. PadOf(db, p) = NewPad
    BY <1>1, KeysInside DEF PadOf
  <1> QED BY <1>1, <1>2, WholeNew DEF Exact

\* The records of a pad under the name of another.
LEMMA WholeRenamed ==
    ASSUME NEW room \in Int, room <= MaxCalls, NEW pad \in PadIn(room), NEW p \in Pads, NEW q \in Pads,
           NEW db, NEW old, Whole(old, p, pad),
           \A r \in 0 .. MaxHead : db[RevKey(q, r)] = old[RevKey(p, r)],
           \A n \in 0 .. MaxCalls : db[ChatKey(q, n)] = old[ChatKey(p, n)]
    PROVE  Whole(db, q, pad)
  <1>1. pad.head \in -1 .. MaxHead /\ pad.head \in Int
    BY PadParts, Constants
  <1>2. \A to \in -1 .. pad.head : Composed(db, q, to) = Composed(old, p, to)
    <2> TAKE to \in -1 .. pad.head
    <2>1. to \in Int /\ 0 .. to \subseteq 0 .. MaxHead
      BY <1>1, Constants
    <2>2. \A r \in 0 .. to : db[RevKey(q, r)].changeset = old[RevKey(p, r)].changeset
      BY <2>1
    <2> QED BY <2>1, <2>2, ComposedSame
  <1>3. pad.head \in -1 .. pad.head /\ 0 .. pad.head \subseteq -1 .. pad.head /\ 0 .. pad.head \subseteq 0 .. MaxHead
    BY <1>1, Constants
  <1> QED BY <1>2, <1>3 DEF Whole

\* Revisions 0 .. until have become one, and the others follow it.
LEMMA WholeCompacted ==
    ASSUME NEW room \in Int, room <= MaxCalls, NEW pad \in PadIn(room), NEW p \in Pads,
           NEW db, IsDatabase(room, db), IsDatabase(room, view), Whole(view, p, pad),
           NEW until \in Nat, until >= 1, pad.head = until + KeepRevisions,
           \A r \in 0 .. KeepRevisions : db[RevKey(p, r)] = Recreated(p, until, r),
           \A r \in 0 .. MaxHead : r > KeepRevisions => db[RevKey(p, r)] = Nothing,
           \A n \in 0 .. MaxCalls : db[ChatKey(p, n)] = view[ChatKey(p, n)],
           NEW new, new.head = KeepRevisions, new.chatHead = pad.chatHead,
           new.saved = Renumbered(pad.saved, until), new.text = pad.text
    PROVE  Whole(db, p, new)
  <1>1. /\ KeepRevisions \in Nat /\ KeepRevisions >= 0 /\ pad.head \in 0 .. MaxHead
        /\ KeepRevisions <= MaxHead /\ MaxHead \in Nat
    BY PadParts, Constants
  <1>2. \A r \in 0 .. pad.head : view[RevKey(p, r)] # Nothing
    BY <1>1 DEF Whole
  <1>3. \A r \in 0 .. KeepRevisions : until + r \in 0 .. pad.head /\ until + r <= MaxHead /\ r \in Nat
                                        /\ until + r \in Nat
    BY <1>1
  <1>4. ASSUME NEW r \in 0 .. KeepRevisions
        PROVE  /\ db[RevKey(p, r)] # Nothing
               /\ db[RevKey(p, r)].changeset = IF r = 0 THEN Composed(view, p, until)
                                               ELSE view[RevKey(p, until + r)].changeset
               /\ IsKeyRevision(r) => db[RevKey(p, r)].atext = Composed(view, p, until + r)
    <2>1. r \in Nat /\ until + r <= MaxHead /\ until + r \in 0 .. pad.head /\ until + r \in Nat
      BY <1>3
    <2>2. \A i \in 0 .. until + r : view[RevKey(p, i)] # Nothing
      BY <1>2, <2>1, Constants
    <2>3. Recreated(p, until, r) \in RevisionRecord(r)
      BY <2>1, <2>2, RecreatedTyped
    <2>4. db[RevKey(p, r)] = Recreated(p, until, r)
      OBVIOUS
    <2>5. db[RevKey(p, r)] # Nothing
      BY <2>1, <2>3, <2>4, PadsAreRecords
    <2>6. ComposedUntil(until) = until
      BY DEF ComposedUntil
    <2> QED BY <2>4, <2>5, <2>6 DEF Recreated, Revision
  <1>5. \A r \in 0 .. MaxHead : db[RevKey(p, r)] # Nothing <=> r <= KeepRevisions
    BY <1>1, <1>4
  <1>6. \A r \in 0 .. KeepRevisions : Composed(db, p, r) = Composed(view, p, until + r)
    <2> DEFINE Bad == {r \in 0 .. KeepRevisions : Composed(db, p, r) # Composed(view, p, until + r)}
    <2>1. SUFFICES ASSUME Bad # {} PROVE FALSE
      OBVIOUS
    <2>2. PICK r \in Bad : \A i \in Bad : r <= i
      <3>1. Bad \in SUBSET Nat
        BY <1>1
      <3> QED BY <2>1, <3>1, Least
    <2>3. r \in 0 .. KeepRevisions /\ Composed(db, p, r) # Composed(view, p, until + r)
      BY <2>2
    <2>4. \A i \in 0 .. KeepRevisions : i < r => Composed(db, p, i) = Composed(view, p, until + i)
      <3> TAKE i \in 0 .. KeepRevisions
      <3>1. i < r => i \notin Bad
        BY <1>1, <2>2, <2>3
      <3> QED BY <3>1
    <2> HIDE DEF Bad
    <2>5. r \in 0 .. MaxHead /\ until + r \in 0 .. MaxHead /\ r \in Nat /\ until \in 0 .. MaxHead
      BY <1>1, <1>3, <2>3
    <2>6. /\ Composed(db, p, -1) = <<>> /\ Composed(db, p, r) = Composed(db, p, r - 1) \o db[RevKey(p, r)].changeset
      <3>1. \A i \in 0 .. r : db[RevKey(p, i)] # Nothing
        BY <1>1, <1>5, <2>3
      <3> QED BY <2>5, <3>1, ComposedStep
    <2>7. CASE r = 0
      <3>1. Composed(view, p, until) \in Texts
        <4>1. \A i \in 0 .. until : view[RevKey(p, i)] # Nothing
          BY <1>1, <1>2
        <4>2. until \in -1 .. MaxHead
          BY <2>5
        <4> QED BY <4>1, <4>2, ComposedTyped
      <3>2. Composed(db, p, 0) = <<>> \o Composed(view, p, until)
        <4>1. db[RevKey(p, 0)].changeset = Composed(view, p, until)
          BY <1>4, <2>3, <2>7
        <4>2. r - 1 = -1 /\ RevKey(p, r) = RevKey(p, 0)
          BY <2>7
        <4>3. Composed(db, p, r) = Composed(db, p, -1) \o db[RevKey(p, 0)].changeset
          BY <2>6, <4>2
        <4> QED BY <2>6, <2>7, <4>1, <4>3
      <3>3. <<>> \o Composed(view, p, until) = Composed(view, p, until)
        BY <3>1 DEF Texts
      <3> QED BY <2>3, <2>7, <3>2, <3>3
    <2>8. CASE r # 0
      <3>1. Composed(view, p, until + r) = Composed(view, p, until + r - 1) \o view[RevKey(p, until + r)].changeset
        <4> DEFINE to == until + r
        <4>1. \A i \in 0 .. to : view[RevKey(p, i)] # Nothing
          BY <1>1, <1>2, <1>3, <2>3
        <4>2. to \in 0 .. MaxHead
          BY <2>5
        <4>3. to = until + r /\ to - 1 = until + r - 1
          BY <2>5
        <4> HIDE DEF to
        <4>4. Composed(view, p, to) = Composed(view, p, to - 1) \o view[RevKey(p, to)].changeset
          BY <4>1, <4>2, ComposedStep
        <4> QED BY <4>3, <4>4
      <3>2. r - 1 \in 0 .. KeepRevisions /\ r - 1 < r /\ until + (r - 1) = until + r - 1
        BY <1>1, <2>3, <2>8
      <3>3. Composed(db, p, r - 1) = Composed(view, p, until + r - 1)
        BY <2>4, <3>2
      <3>4. db[RevKey(p, r)].changeset = view[RevKey(p, until + r)].changeset
        BY <1>4, <2>3, <2>8
      <3> QED BY <2>3, <2>6, <3>1, <3>3, <3>4
    <2> QED BY <2>7, <2>8
  <1>7. \A r \in 0 .. KeepRevisions : IsKeyRevision(r) => db[RevKey(p, r)].atext = Composed(db, p, r)
    BY <1>4, <1>6
  <1>8. new.text = Composed(db, p, KeepRevisions)
    <2>1. pad.text = Composed(view, p, pad.head)
      BY DEF Whole
    <2>2. KeepRevisions \in 0 .. KeepRevisions
      BY <1>1
    <2> QED BY <1>6, <2>1, <2>2
  <1>9. new.saved \subseteq 0 .. KeepRevisions
    <2>1. pad.saved \subseteq 0 .. pad.head
      BY DEF Whole
    <2>2. \A s \in pad.saved : s > until => s - until \in 0 .. KeepRevisions
      BY <1>1, <2>1
    <2> QED BY <2>2 DEF Renumbered
  <1>10. \A n \in 0 .. MaxCalls : db[ChatKey(p, n)] # Nothing <=> n <= new.chatHead
    BY DEF Whole
  <1> QED BY <1>5, <1>7, <1>8, <1>9, <1>10 DEF Whole

LEMMA PadOfTyped ==
    ASSUME NEW room \in Int, -1 <= room, NEW db, IsDatabase(room, db), NEW p \in Pads
    PROVE  PadOf(db, p) \in PadIn(room)
  <1>1. IsRecord(room, PadKey(p), db[PadKey(p)])
    BY KeysInside DEF IsDatabase
  <1>2. db[PadKey(p)] # Nothing => db[PadKey(p)] \in PadIn(room)
    BY <1>1, RecordKinds
  <1> QED BY <1>2, BlankTyped DEF PadOf

\* Only the records of the pad matter.
LEMMA ExactFrame ==
    ASSUME NEW room \in Int, -1 <= room, room <= MaxCalls, NEW p \in Pads, NEW db, NEW old, IsDatabase(room, old),
           \A k \in KeysOf(p) : db[k] = old[k], Exact(old, p)
    PROVE  Exact(db, p)
  <1>1. PadOf(db, p) = PadOf(old, p)
    BY KeysInside DEF PadOf
  <1>2. PadOf(old, p) \in PadIn(room)
    BY PadOfTyped
  <1>3. Whole(old, p, PadOf(old, p))
    BY DEF Exact
  <1>4. Whole(db, p, PadOf(old, p))
    BY <1>2, <1>3, WholeFrame
  <1> QED BY <1>1, <1>4 DEF Exact

\* What is to be done to a pad depends on its own records.
LEMMA AheadFrame ==
    ASSUME NEW s, NEW p \in Pads, NEW db, NEW old, \A k \in KeysOf(p) : db[k] = old[k]
    PROVE  /\ \A k \in KeysOf(p) : Planned(s, db)[k] = Planned(s, old)[k]
           /\ \A k \in KeysOf(p) : Compacted(s, db)[k] = Compacted(s, old)[k]
  <1> SUFFICES ASSUME NEW k \in KeysOf(p)
               PROVE  Planned(s, db)[k] = Planned(s, old)[k] /\ Compacted(s, db)[k] = Compacted(s, old)[k]
    OBVIOUS
  <1>1. k \in Keys /\ db[k] = old[k]
    BY KeysInside
  <1> QED BY <1>1 DEF Planned, Compacted

LEMMA PlannedTyped ==
    ASSUME TypeInv, HandsInv, NEW t \in Tasks, task[t].pc = "records"
    PROVE  IsDatabase(ChatRoom, Planned(task[t], view))
  <1>1. InHand(t)
    BY DEF HandsInv, Busy
  <1>2. \A r1, r2 \in task[t].records : r1[1] = r2[1] => r1 = r2
    BY <1>1 DEF InHand
  <1>3. \A r \in task[t].records : IsRecord(ChatRoom, r[1], r[2])
    BY DEF TypeInv
  <1>4. ASSUME NEW k \in Keys PROVE IsRecord(ChatRoom, k, Planned(task[t], view)[k])
    <2>1. CASE \E r \in task[t].records : r[1] = k
      BY <1>2, <1>3, <2>1, PlannedIs
    <2>2. CASE ~ \E r \in task[t].records : r[1] = k
      <3>1. IsRecord(ChatRoom, k, view[k])
        BY DEF TypeInv, IsDatabase
      <3> QED BY <1>2, <2>2, <3>1, PlannedIs
    <2> QED BY <2>1, <2>2
  <1>5. DOMAIN Planned(task[t], view) = Keys
    BY DEF Planned
  <1> QED BY <1>4, <1>5 DEF IsDatabase

\* The record of a pad that has been compacted.
LEMMA ShortenedIs ==
    ASSUME NEW room \in Int, NEW pad \in PadIn(room), KeepRevisions <= MaxHead, NEW until \in Nat
    PROVE  /\ Shortened(pad, until) = [head |-> KeepRevisions, chatHead |-> pad.chatHead,
                                       saved |-> Renumbered(pad.saved, until), text |-> pad.text]
           /\ Shortened(pad, until) \in PadIn(room)
  <1> DEFINE saved == Renumbered(pad.saved, until)
             rec == Shortened(pad, until)
  <1>1. rec = [pad EXCEPT !.head = KeepRevisions, !.saved = saved]
    BY DEF Shortened
  <1>2. saved \subseteq 0 .. MaxHead
    <2>1. pad.saved \subseteq 0 .. MaxHead
      BY PadParts
    <2> QED BY <2>1, Constants DEF Renumbered
  <1> HIDE DEF rec, saved
  <1>3. rec = [head |-> KeepRevisions, chatHead |-> pad.chatHead, saved |-> saved, text |-> pad.text]
    BY <1>1 DEF PadIn
  <1>4. KeepRevisions \in -1 .. MaxHead /\ pad.chatHead \in -1 .. room /\ pad.text \in Texts
    BY PadParts, Constants
  <1>5. rec \in PadIn(room)
    BY <1>2, <1>3, <1>4 DEF PadIn
  <1> QED BY <1>3, <1>5 DEF rec, saved

\* The parts of what compact will have made.
LEMMA CompactedIs ==
    ASSUME NEW s, NEW db, \A r1, r2 \in s.records : r1[1] = r2[1] => r1 = r2,
           NEW k \in Keys
    PROVE  /\ \A r \in s.records : r[1] = k => Compacted(s, db)[k] = r[2]
           /\ ~(\E r \in s.records : r[1] = k) =>
                /\ s.pc \in {"delete", "head"} /\ k = PadKey(s.pad) =>
                     Compacted(s, db)[k] = Shortened(db[k], s.n)
                /\ s.pc = "delete" /\ k \in RevKeys(s.pad, s.n + KeepRevisions) =>
                     Compacted(s, db)[k] = Nothing
                /\ s.pc = "delete" /\ k # PadKey(s.pad) /\ k \notin RevKeys(s.pad, s.n + KeepRevisions) =>
                     Compacted(s, db)[k] = db[k]
                /\ s.pc = "head" /\ k # PadKey(s.pad) => Compacted(s, db)[k] = db[k]
                /\ s.pc \notin {"delete", "head"} => Compacted(s, db)[k] = db[k]
  <1>1. ASSUME NEW r \in s.records, r[1] = k PROVE Compacted(s, db)[k] = r[2]
    <2>1. (CHOOSE x \in s.records : x[1] = k) = r
      BY <1>1
    <2> QED BY <1>1, <2>1 DEF Compacted
  <1>2. PadKey(s.pad) \notin RevKeys(s.pad, s.n + KeepRevisions)
    BY DEF RevKeys, PadKey, RevKey
  <1>3. CASE ~ \E r \in s.records : r[1] = k
    BY <1>2, <1>3 DEF Compacted
  <1> QED BY <1>1, <1>3

\* What compact will have made is a database.
LEMMA CompactionTyped ==
    ASSUME NEW room \in Int, NEW db, IsDatabase(room, db), NEW s,
           \A r1, r2 \in s.records : r1[1] = r2[1] => r1 = r2,
           \A r \in s.records : IsRecord(room, r[1], r[2]),
           s.pc \in {"delete", "head"} => db[PadKey(s.pad)] \in PadIn(room),
           KeepRevisions <= MaxHead, s.n \in Nat
    PROVE  IsDatabase(room, Compacted(s, db))
  <1> DEFINE new == Compacted(s, db)
  <1>1. ASSUME NEW k \in Keys PROVE IsRecord(room, k, new[k])
    <2>1. CASE \E r \in s.records : r[1] = k
      BY <2>1, CompactedIs
    <2>2. CASE ~(\E r \in s.records : r[1] = k) /\ s.pc \in {"delete", "head"} /\ k = PadKey(s.pad)
      <3>1. new[k] = Shortened(db[PadKey(s.pad)], s.n)
        BY <2>2, CompactedIs
      <3>2. Shortened(db[PadKey(s.pad)], s.n) \in PadIn(room)
            /\ Shortened(db[PadKey(s.pad)], s.n).head = KeepRevisions
        BY <2>2, ShortenedIs
      <3> QED BY <2>2, <3>1, <3>2, RecordKinds, Constants
    <2>3. CASE ~(\E r \in s.records : r[1] = k) /\ ~(s.pc \in {"delete", "head"} /\ k = PadKey(s.pad))
      <3>1. new[k] \in {Nothing, db[k]}
        BY <2>3 DEF Compacted
      <3>2. IsRecord(room, k, db[k]) /\ IsRecord(room, k, Nothing)
        BY DEF IsDatabase, IsRecord
      <3> QED BY <3>1, <3>2
    <2> QED BY <2>1, <2>2, <2>3
  <1>2. DOMAIN new = Keys
    BY DEF Compacted
  <1> QED BY <1>1, <1>2 DEF IsDatabase

LEMMA CompactedTyped ==
    ASSUME TakeTurns, TypeInv, HandsInv, NEW t \in Tasks, task[t].pc \in {"delete", "head", "revs"}
    PROVE  IsDatabase(ChatRoom, Compacted(task[t], view))
  <1> DEFINE s == task[t]
  <1>1. /\ InHand(t) /\ s.pad \in Pads /\ ChatRoom \in Int
        /\ s.pc \in {"delete", "head"} => view[PadKey(s.pad)] \in PadIn(ChatRoom)
    BY CompactingPad
  <1>2. \A r1, r2 \in s.records : r1[1] = r2[1] => r1 = r2
    BY <1>1 DEF InHand
  <1>3. \A r \in s.records : IsRecord(ChatRoom, r[1], r[2])
    BY DEF TypeInv
  <1>4. KeepRevisions <= MaxHead /\ s.n \in Nat
    BY <1>1, TaskFields DEF InHand
  <1>5. IsDatabase(ChatRoom, view)
    BY DEF TypeInv
  <1> HIDE DEF s
  <1>6. IsDatabase(ChatRoom, Compacted(s, view))
    BY <1>1, <1>2, <1>3, <1>4, <1>5, CompactionTyped
  <1> QED BY <1>6 DEF s

-----------------------------------------------------------------------------
(* The records that steps leave. *)

\* Other pads, and what others are about to make, stay as they are.
LEMMA RecordsKept ==
    ASSUME TakeTurns, TypeInv, TypeInv', HandsInv, NEW t \in Tasks, Footprint(t), RecordsInv,
           crashes = 0, NEW q \in Pads,
           \A p \in Pads \ {q} : \A k \in KeysOf(p) : view'[k] = view[k],
           Half(task[t]) \subseteq Half(task'[t]) \cup {q},
           (\A u \in Tasks : q \notin Half(task'[u])) => Exact(view', q),
           task'[t].pc = "records" => Exact(Planned(task'[t], view'), task'[t].dst),
           task'[t].pc \in {"delete", "head", "revs"} => Exact(Compacted(task'[t], view'), task'[t].pad)
    PROVE  RecordsInv'
  <1>0. ChatRoom \in Int /\ ChatRoom <= MaxCalls /\ -1 <= ChatRoom /\ IsDatabase(ChatRoom, view)
    BY RoomBounded, Constants DEF TypeInv
  <1>1. ASSUME NEW p \in Pads, \A u \in Tasks : p \notin Half(task'[u])
        PROVE  Exact(view', p)
    <2>1. CASE p = q
      BY <1>1, <2>1
    <2>2. CASE p # q
      <3>1. ASSUME NEW u \in Tasks PROVE p \notin Half(task[u])
        BY <1>1, <2>2 DEF Footprint
      <3>2. Exact(view, p)
        BY <3>1 DEF RecordsInv
      <3>3. \A k \in KeysOf(p) : view'[k] = view[k]
        BY <2>2
      <3> QED BY <1>0, <3>2, <3>3, ExactFrame
    <2> QED BY <2>1, <2>2
  <1>2. ASSUME NEW u \in Tasks, task'[u].pc = "records"
        PROVE  Exact(Planned(task'[u], view'), task'[u].dst)
    <2>1. CASE u = t
      BY <1>2, <2>1
    <2>2. CASE u # t
      <3>1. task'[u] = task[u]
        BY <2>2 DEF Footprint
      <3>2. task[u].pc = "records" /\ Busy(u)
        BY <1>2, <3>1 DEF Busy
      <3>3. task[u].op \in CopyOps
        BY <3>2 DEF HandsInv, Shape, CopyOps
      <3>4. task[u].dst \in AloneOf(u) /\ task[u].dst \in Pads
        BY <3>2, <3>3, AlonePads
      <3>5. \A k \in KeysOf(task[u].dst) : view'[k] = view[k]
        BY <2>2, <3>2, <3>4, OthersKeep
      <3>6. Exact(Planned(task[u], view), task[u].dst)
        BY <3>2 DEF RecordsInv
      <3>7. \A k \in KeysOf(task[u].dst) : Planned(task[u], view')[k] = Planned(task[u], view)[k]
        <4> DEFINE s == task[u]
                   p == task[u].dst
        <4>1. p \in Pads /\ \A k \in KeysOf(p) : view'[k] = view[k]
          BY <3>4, <3>5
        <4> HIDE DEF s, p
        <4>2. \A k \in KeysOf(p) : Planned(s, view')[k] = Planned(s, view)[k]
          BY <4>1, AheadFrame
        <4> QED BY <4>2 DEF s, p
      <3>8. IsDatabase(ChatRoom, Planned(task[u], view))
        BY <3>2, PlannedTyped
      <3> QED BY <1>0, <3>1, <3>4, <3>6, <3>7, <3>8, ExactFrame
    <2> QED BY <2>1, <2>2
  <1>3. ASSUME NEW u \in Tasks, task'[u].pc \in {"delete", "head", "revs"}
        PROVE  Exact(Compacted(task'[u], view'), task'[u].pad)
    <2>1. CASE u = t
      BY <1>3, <2>1
    <2>2. CASE u # t
      <3>1. task'[u] = task[u]
        BY <2>2 DEF Footprint
      <3>2. task[u].pc \in {"delete", "head", "revs"} /\ Busy(u)
        BY <1>3, <3>1 DEF Busy
      <3>3. task[u].pad \in AloneOf(u) /\ task[u].pad \in Pads
        BY <3>2, CompactingPad
      <3>4. \A k \in KeysOf(task[u].pad) : view'[k] = view[k]
        BY <2>2, <3>2, <3>3, OthersKeep
      <3>5. Exact(Compacted(task[u], view), task[u].pad)
        BY <3>2 DEF RecordsInv
      <3>6. \A k \in KeysOf(task[u].pad) : Compacted(task[u], view')[k] = Compacted(task[u], view)[k]
        <4> DEFINE s == task[u]
                   p == task[u].pad
        <4>1. p \in Pads /\ \A k \in KeysOf(p) : view'[k] = view[k]
          BY <3>3, <3>4
        <4> HIDE DEF s, p
        <4>2. \A k \in KeysOf(p) : Compacted(s, view')[k] = Compacted(s, view)[k]
          BY <4>1, AheadFrame
        <4> QED BY <4>2 DEF s, p
      <3>7. IsDatabase(ChatRoom, Compacted(task[u], view))
        BY <3>2, CompactedTyped
      <3> QED BY <1>0, <3>1, <3>3, <3>5, <3>6, <3>7, ExactFrame
    <2> QED BY <2>1, <2>2
  <1> QED BY <1>1, <1>2, <1>3 DEF RecordsInv

\* A step that writes nothing, outside of copies and compactions.
LEMMA QuietRecords ==
    ASSUME TakeTurns, TypeInv, TypeInv', HandsInv, NEW t \in Tasks, Footprint(t), RecordsInv, crashes = 0,
           \A k \in Keys : view'[k] = view[k],
           Half(task[t]) = {}, task'[t].pc \notin {"records", "delete", "head", "revs"}
    PROVE  RecordsInv'
  <1>1. Stored \in Pads /\ \A p \in Pads : \A k \in KeysOf(p) : view'[k] = view[k]
    BY Constants, KeysInside
  <1>2. (\A u \in Tasks : Stored \notin Half(task'[u])) => Exact(view', Stored)
    <2> SUFFICES ASSUME \A u \in Tasks : Stored \notin Half(task'[u]) PROVE Exact(view', Stored)
      OBVIOUS
    <2>1. \A u \in Tasks : Stored \notin Half(task[u])
      BY DEF Footprint
    <2>2. Exact(view, Stored)
      BY <1>1, <2>1 DEF RecordsInv
    <2>3. ChatRoom \in Int /\ ChatRoom <= MaxCalls /\ -1 <= ChatRoom /\ IsDatabase(ChatRoom, view)
      BY RoomBounded, Constants DEF TypeInv
    <2> QED BY <1>1, <2>2, <2>3, ExactFrame
  <1> QED BY <1>1, <1>2, RecordsKept

\* The places a step goes to.
LEMMA Places ==
    ASSUME TypeInv, NEW t \in Tasks
    PROVE  /\ \A s : Step(t, s) => task'[t] = s
           /\ \A pc, awaits : Goto(t, pc, awaits).pc = pc /\ Goto(t, pc, awaits).dst = task[t].dst
                                /\ Goto(t, pc, awaits).pad = task[t].pad /\ Goto(t, pc, awaits).n = task[t].n
                                /\ Goto(t, pc, awaits).records = task[t].records
           /\ \A o : Got(t, o).pc \in {"run", "second"}
           /\ \A m, c, keeps : Return(t, m, c, keeps) => task'[t].pc = "idle"
  <1>1. task \in [Tasks -> TaskType] /\ task[t] \in TaskType
    BY DEF TypeInv
  <1>2. \A s : Step(t, s) => task'[t] = s
    BY <1>1 DEF Step
  <1>3. ASSUME NEW pc, NEW awaits
        PROVE  Goto(t, pc, awaits).pc = pc /\ Goto(t, pc, awaits).dst = task[t].dst
                 /\ Goto(t, pc, awaits).pad = task[t].pad /\ Goto(t, pc, awaits).n = task[t].n
                 /\ Goto(t, pc, awaits).records = task[t].records
    BY <1>1 DEF Goto, TaskType
  <1>4. ASSUME NEW o PROVE Got(t, o).pc \in {"run", "second"}
    BY <1>1 DEF Got, Goto, TaskType
  <1>5. ASSUME NEW m, NEW c, NEW keeps, Return(t, m, c, keeps) PROVE task'[t].pc = "idle"
    <2>1. Step(t, Idle)
      BY <1>5 DEF Return
    <2> QED BY <1>2, <2>1, IdleTyped
  <1> QED BY <1>2, <1>3, <1>4, <1>5

\* Steps between the writes of a call.
LEMMA QuietSteps ==
    ASSUME TakeTurns, TypeInv, TypeInv', HandsInv, NEW t \in Tasks, Footprint(t), RecordsInv, crashes = 0,
           \/ Call(t) \/ getPad(t) \/ cachePad(t) \/ Open(t) \/ Written(t) \/ SaveSource(t) \/ Copied(t)
           \/ Unload(t) \/ Reloaded(t)
    PROVE  RecordsInv'
  <1> DEFINE Quiet == (\A k \in Keys : view'[k] = view[k]) /\ task[t].pc \notin {"records", "head", "revs"}
                          /\ task'[t].pc \notin {"records", "delete", "head", "revs"}
  <1>1. Quiet => RecordsInv'
    BY QuietRecords DEF Half
  <1>2. CASE Call(t)
    <2>1. task'[t].pc = "getPad"
      <3>1. PICK op \in Ops, p \in Pads, q \in Pads \cup {Nothing} :
              Step(t, [Idle EXCEPT !.pc = "getPad", !.op = op, !.pad = p, !.dst = q,
                                   !.n = IF op \in {"append", "chat"} THEN calls + 1 ELSE 0])
        BY <1>2 DEF Call
      <3> DEFINE n == IF op \in {"append", "chat"} THEN calls + 1 ELSE 0
                 s == [Idle EXCEPT !.pc = "getPad", !.op = op, !.pad = p, !.dst = q, !.n = n]
      <3>2. task'[t] = s
        BY <3>1, Places
      <3> HIDE DEF n
      <3>3. s.pc = "getPad"
        BY DEF Idle
      <3> QED BY <3>2, <3>3
    <2>2. task[t].pc = "idle" /\ view' = view
      BY <1>2 DEF Call, Busy
    <2> QED BY <1>1, <2>1, <2>2
  <1>3. CASE getPad(t)
    <2>1. task[t].pc = "getPad" /\ view' = view
      BY <1>3 DEF getPad, At
    <2>2. task'[t].pc \in {"run", "second", "init"}
      <3>1. CASE Step(t, Got(t, cache[Target(t)]))
        BY <3>1, Places
      <3>2. CASE Step(t, [Goto(t, "init", {}) EXCEPT !.obj = Fresh])
        <4> DEFINE s == Goto(t, "init", {})
        <4>1. s \in TaskType /\ s.pc = "init"
          BY GotoIs DEF Loading
        <4> HIDE DEF s
        <4>2. [s EXCEPT !.obj = Fresh].pc = "init"
          BY <4>1 DEF TaskType
        <4>3. task'[t] = [s EXCEPT !.obj = Fresh]
          BY <3>2, Places DEF s
        <4> QED BY <4>2, <4>3
      <3> QED BY <1>3, <3>1, <3>2 DEF getPad
    <2> QED BY <1>1, <2>1, <2>2
  <1>4. CASE cachePad(t)
    <2>1. task[t].pc = "padLoad" /\ view' = view /\ Step(t, Got(t, task[t].obj))
      BY <1>4 DEF cachePad, At
    <2>2. task'[t].pc \in {"run", "second"}
      BY <2>1, Places
    <2> QED BY <1>1, <2>1, <2>2
  <1>5. CASE Open(t)
    <2>1. task[t].pc = "run" /\ view' = view /\ Return(t, mem, cache, kept)
      BY <1>5 DEF Open, Running, At
    <2> QED BY <1>1, <2>1, Places
  <1>6. CASE Written(t)
    <2>1. task[t].pc = "write" /\ view' = view
      BY <1>6 DEF Written, At
    <2>2. task'[t].pc = "idle"
      BY <1>6, Places DEF Written
    <2> QED BY <1>1, <2>1, <2>2
  <1>7. CASE SaveSource(t)
    <2> DEFINE key == PadKey(task[t].pad)
    <2>1. /\ task[t].pc = "run" /\ task[t].op \in CopyOps /\ SetOne(key, mem[task[t].held])
          /\ Step(t, Goto(t, "clear", IF task[t].op \in Copies THEN {key} ELSE {}))
      BY <1>7 DEF SaveSource, At, CopyOps
    <2>2. mem[task[t].held] = view[key]
      BY <2>1, CopyingPad
    <2>3. \A k \in Keys : view'[k] = view[k]
      BY <2>1, <2>2 DEF SetOne, TypeInv, IsDatabase
    <2>4. task'[t].pc = "clear"
      BY <2>1, Places
    <2> QED BY <1>1, <2>1, <2>3, <2>4
  <1>8. CASE Copied(t)
    <2>1. task[t].pc = "second" /\ view' = view
      BY <1>8 DEF Copied, At
    <2>2. task'[t].pc \in {"idle", "run"}
      <3>1. CASE task[t].op = "copy"
        BY <1>8, <3>1, Places DEF Copied
      <3>2. CASE task[t].op # "copy"
        <4>1. Continue(t, "remove", task[t].pad, Nothing, task[t].held)
          BY <1>8, <3>2 DEF Copied
        <4> DEFINE text == IF Nothing = Nothing THEN <<>> ELSE mem'[task[t].held].text
                   s == [Idle EXCEPT !.pc = "run", !.op = "remove", !.pad = task[t].pad, !.dst = Nothing,
                                     !.held = task[t].held, !.from = text]
        <4>2. task'[t] = s
          BY <4>1, Places DEF Continue
        <4> HIDE DEF text
        <4>3. s.pc = "run"
          BY DEF Idle
        <4> QED BY <4>2, <4>3
      <3> QED BY <3>1, <3>2
    <2> QED BY <1>1, <2>1, <2>2
  <1>9. CASE Unload(t)
    <2>1. task[t].pc = "unload" /\ view' = view /\ Step(t, [Goto(t, "getPad", {}) EXCEPT !.dst = task[t].pad])
      BY <1>9 DEF Unload, At
    <2>2. task'[t].pc = "getPad"
      <3> DEFINE s == Goto(t, "getPad", {})
      <3>1. s \in TaskType /\ s.pc = "getPad"
        BY GotoIs DEF Loading
      <3> HIDE DEF s
      <3>2. [s EXCEPT !.dst = task[t].pad].pc = "getPad"
        BY <3>1 DEF TaskType
      <3>3. task'[t] = [s EXCEPT !.dst = task[t].pad]
        BY <2>1, Places DEF s
      <3> QED BY <3>2, <3>3
    <2> QED BY <1>1, <2>1, <2>2
  <1>10. CASE Reloaded(t)
    <2>1. task[t].pc = "second" /\ view' = view /\ Return(t, mem, cache, kept)
      BY <1>10 DEF Reloaded, At
    <2> QED BY <1>1, <2>1, Places
  <1> QED BY <1>2, <1>3, <1>4, <1>5, <1>6, <1>7, <1>8, <1>9, <1>10

\* A pad that a task uses, and has not written in part, is exact.
LEMMA OwnExact ==
    ASSUME TakeTurns, TypeInv, HandsInv, RecordsInv, crashes = 0, NEW t \in Tasks, Half(task[t]) = {},
           NEW p \in Uses(t)
    PROVE  p \in Pads => Exact(view, p) /\ Whole(view, p, PadOf(view, p))
  <1> SUFFICES ASSUME p \in Pads PROVE Exact(view, p)
    BY DEF Exact
  <1>1. ASSUME NEW u \in Tasks PROVE p \notin Half(task[u])
    <2>1. CASE u = t
      BY <2>1
    <2>2. CASE u # t /\ ~Busy(u)
      BY <2>2 DEF Busy, Half
    <2>3. CASE u # t /\ Busy(u)
      <3>1. AloneOf(u) \cap Uses(t) = {}
        BY <2>3, NotShared
      <3>2. task[u].pc = "records" => task[u].dst \in AloneOf(u)
        <4>1. task[u].pc = "records" => task[u].op \in CopyOps
          BY DEF HandsInv, Shape, CopyOps
        <4> QED BY <2>3, <4>1, AlonePads
      <3>3. task[u].pc \in {"head", "revs"} => task[u].pad \in AloneOf(u)
        BY CompactingPad
      <3> QED BY <3>1, <3>2, <3>3 DEF Half
    <2> QED BY <2>1, <2>2, <2>3
  <1> QED BY <1>1 DEF RecordsInv

\* What is appended to a pad is there as a whole.
LEMMA AppendExact ==
    ASSUME TypeInv, NEW p \in Pads, Exact(view, p), NEW pad, pad = PadOf(view, p), pad.head < MaxHead,
           NEW cs \in Texts, Set(revisionRecords(p, pad, cs))
    PROVE  Exact(view', p) /\ \A q \in Pads \ {p} : \A k \in KeysOf(q) : view'[k] = view[k]
  <1> DEFINE f == revisionRecords(p, pad, cs)
             new == appendRevision(pad, cs)
  <1>1. ChatRoom \in Int /\ ChatRoom <= MaxCalls /\ -1 <= ChatRoom /\ IsDatabase(ChatRoom, view)
    BY RoomBounded, Constants DEF TypeInv
  <1>2. pad \in PadIn(ChatRoom)
    BY <1>1, PadOfTyped
  <1>3. /\ DOMAIN f \subseteq KeysOf(p)
        /\ \A k \in DOMAIN f : IsRecord(ChatRoom, k, f[k])
        /\ ~HasEffect(pad, cs) => DOMAIN f = {} /\ new = pad
        /\ HasEffect(pad, cs) =>
             /\ new.head = pad.head + 1 /\ new.head \in 0 .. MaxHead
             /\ DOMAIN f = {RevKey(p, new.head), PadKey(p)}
             /\ f[PadKey(p)] = new
             /\ f[RevKey(p, new.head)] = Revision(new.head, cs, new.text)
    BY <1>1, <1>2, RevisionRecordsTyped
  <1>4. /\ new \in PadIn(ChatRoom)
        /\ HasEffect(pad, cs) => new = [head |-> pad.head + 1, chatHead |-> pad.chatHead,
                                        saved |-> pad.saved, text |-> pad.text \o cs]
    BY <1>1, <1>2, AppendTyped
  <1>5. HasEffect(pad, cs) => /\ new.chatHead = pad.chatHead /\ new.saved = pad.saved
                              /\ new.text = pad.text \o cs
    BY <1>4
  <1> HIDE DEF f, new
  <1>6. Set(f)
    BY DEF f
  <1>7. /\ IsDatabase(ChatRoom, view')
        /\ \A k \in DOMAIN f : view'[k] = f[k]
        /\ \A q \in Pads \ {p} : \A k \in KeysOf(q) : view'[k] = view[k]
        /\ \A k \in Keys \ DOMAIN f : view'[k] = view[k]
    BY <1>1, <1>3, <1>6, SetsPad
  <1>8. Whole(view, p, pad)
    BY DEF Exact
  <1>9. Exact(view', p)
    <2>1. CASE ~HasEffect(pad, cs)
      <3>1. \A k \in KeysOf(p) : view'[k] = view[k]
        BY <1>3, <1>7, <2>1, KeysInside
      <3> QED BY <1>1, <3>1, ExactFrame
    <2>2. CASE HasEffect(pad, cs)
      <3>1. view'[PadKey(p)] = new /\ view'[RevKey(p, new.head)] = Revision(new.head, cs, new.text)
        BY <1>3, <1>7, <2>2
      <3>2. \A k \in KeysOf(p) \ {PadKey(p), RevKey(p, new.head)} : view'[k] = view[k]
        BY <1>3, <1>7, <2>2, KeysInside
      <3>3. new.head = pad.head + 1
        BY <1>3, <2>2
      <3>4. Whole(view', p, new)
        <4>1. new.chatHead = pad.chatHead /\ new.saved = pad.saved /\ new.text = pad.text \o cs /\ new \in PadIn(ChatRoom)
          BY <1>4, <1>5, <2>2
        <4> DEFINE room == ChatRoom
                   db == view'
                   old == view
        <4>2. /\ room \in Int /\ room <= MaxCalls /\ pad \in PadIn(room) /\ new \in PadIn(room)
              /\ IsDatabase(room, old) /\ IsDatabase(room, db) /\ Whole(old, p, pad)
          BY <1>1, <1>2, <1>7, <1>8, <4>1
        <4>3. /\ db[RevKey(p, new.head)] = Revision(new.head, cs, new.text)
              /\ \A k \in KeysOf(p) \ {PadKey(p), RevKey(p, new.head)} : db[k] = old[k]
          BY <3>1, <3>2
        <4> HIDE DEF room, db, old
        <4>4. Whole(db, p, new)
          BY ZenonT(60), <3>3, <4>1, <4>2, <4>3, WholeAppend
        <4> QED BY <4>4 DEF db
      <3>5. PadOf(view', p) = new
        BY <1>4, <3>1, PadsAreRecords DEF PadOf
      <3> QED BY <3>4, <3>5 DEF Exact
    <2> QED BY <2>1, <2>2
  <1> QED BY <1>7, <1>9

\* A step that writes one pad, outside of copies and compactions.
LEMMA WritingRecords ==
    ASSUME TakeTurns, TypeInv, TypeInv', HandsInv, NEW t \in Tasks, Footprint(t), RecordsInv, crashes = 0,
           NEW q \in Pads, \A p \in Pads \ {q} : \A k \in KeysOf(p) : view'[k] = view[k],
           Half(task[t]) = {}, task'[t].pc \notin {"records", "delete", "head", "revs"},
           Exact(view', q)
    PROVE  RecordsInv'
  BY RecordsKept

LEMMA InitRecords ==
    ASSUME TakeTurns, TypeInv, TypeInv', HandsInv, NEW t \in Tasks, Footprint(t), RecordsInv, crashes = 0,
           init(t)
    PROVE  RecordsInv'
  <1> DEFINE p == Target(t)
             first == IF task[t].op \in Snapshots /\ task[t].held # Nothing THEN <<>> ELSE <<0>>
  <1>1. task[t].pc = "init" /\ p \in Pads /\ p \in Uses(t)
    BY LoadingPad DEF init, At
  <1>2. task'[t].pc = "padLoad"
    BY Places DEF init
  <1>3. Half(task[t]) = {}
    BY <1>1 DEF Half
  <1>4. CASE Exists(p)
    <2>1. view' = view
      BY <1>4 DEF init
    <2> QED BY <1>2, <1>3, <2>1, QuietRecords
  <1>5. CASE ~Exists(p)
    <2>1. first \in Texts
      <3>1. 0 \in 0 .. MaxCalls
        BY Constants
      <3>2. <<0>> \in Seq(0 .. MaxCalls)
        BY <3>1
      <3> QED BY <3>2, EmptyText DEF Texts
    <2>2. Set(revisionRecords(p, NewPad, first))
      BY <1>5 DEF init
    <2>3. NewPad = PadOf(view, p) /\ NewPad.head < MaxHead
      BY <1>5, Constants DEF PadOf, Exists, NewPad
    <2>4. Exact(view, p)
      BY <1>1, <1>3, OwnExact
    <2> HIDE DEF p, first
    <2>5. Exact(view', p) /\ \A q \in Pads \ {p} : \A k \in KeysOf(q) : view'[k] = view[k]
      BY <1>1, <2>1, <2>2, <2>3, <2>4, AppendExact
    <2> QED BY <1>1, <1>2, <1>3, <2>5, WritingRecords
  <1> QED BY <1>4, <1>5

LEMMA AppendRecords ==
    ASSUME TakeTurns, TypeInv, TypeInv', HandsInv, NEW t \in Tasks, Footprint(t), RecordsInv, crashes = 0,
           AppendEdit(t)
    PROVE  RecordsInv'
  <1> DEFINE p == task[t].pad
             pad == mem[task[t].held]
             cs == <<task[t].n>>
  <1>1. task[t].pc = "run" /\ task[t].op = "append" /\ pad.head < MaxHead
        /\ Set(revisionRecords(p, pad, cs)) /\ Step(t, Goto(t, "write", RevisionAwaits(p, pad, cs)))
    BY DEF AppendEdit, Running, At, Change
  <1>2. /\ p \in Pads /\ p \in Uses(t) /\ task[t].n \in 0 .. MaxCalls /\ pad = view[PadKey(p)]
        /\ pad \in PadIn(ChatRoom)
    BY <1>1, RunningPad DEF PlainOps
  <1>3. cs \in Texts
    <2>1. <<task[t].n>> \in Seq(0 .. MaxCalls)
      BY <1>2
    <2> QED BY <2>1 DEF Texts
  <1>4. task'[t].pc = "write" /\ Half(task[t]) = {}
    BY <1>1, Places DEF Half
  <1>5. pad = PadOf(view, p)
    BY <1>2, PadsAreRecords DEF PadOf
  <1>6. Exact(view, p)
    BY <1>2, <1>4, OwnExact
  <1> HIDE DEF p, pad, cs
  <1>7. Exact(view', p) /\ \A q \in Pads \ {p} : \A k \in KeysOf(q) : view'[k] = view[k]
    BY <1>1, <1>2, <1>3, <1>5, <1>6, AppendExact
  <1> QED BY <1>2, <1>4, <1>7, WritingRecords

LEMMA ChatRecords ==
    ASSUME TakeTurns, TypeInv, TypeInv', HandsInv, NEW t \in Tasks, Footprint(t), RecordsInv, crashes = 0,
           appendChatMessage(t)
    PROVE  RecordsInv'
  <1> DEFINE p == task[t].pad
             pad == mem[task[t].held]
             new == [pad EXCEPT !.chatHead = @ + 1]
             f == [k \in {ChatKey(p, new.chatHead), PadKey(p)} |-> IF k = PadKey(p) THEN new ELSE task[t].n]
  <1>1. task[t].pc = "run" /\ task[t].op = "chat" /\ Set(f) /\ Step(t, Goto(t, "write", DOMAIN f))
    BY DEF appendChatMessage, Running, At, Change
  <1>2. /\ p \in Pads /\ p \in Uses(t) /\ task[t].n \in 0 .. MaxCalls /\ pad = view[PadKey(p)]
        /\ pad \in PadIn(ChatRoom) /\ ChatRoom \in Int /\ ChatRoom < MaxCalls
    BY <1>1, RunningPad DEF PlainOps
  <1>3. task'[t].pc = "write" /\ Half(task[t]) = {}
    BY <1>1, Places DEF Half
  <1>4. /\ PadOf(view, p) = pad /\ Whole(view, p, pad)
    <2>1. PadOf(view, p) = pad
      BY <1>2, PadsAreRecords DEF PadOf
    <2> QED BY <1>2, <1>3, <2>1, OwnExact
  <1>5. new = [head |-> pad.head, chatHead |-> pad.chatHead + 1, saved |-> pad.saved, text |-> pad.text]
    BY <1>2 DEF PadIn
  <1>6. new.head = pad.head /\ new.chatHead = pad.chatHead + 1 /\ new.saved = pad.saved /\ new.text = pad.text
        /\ new.chatHead \in 0 .. MaxCalls
    <2>1. pad.chatHead \in -1 .. ChatRoom
      BY <1>2, PadParts
    <2> QED BY <1>2, <1>5, <2>1, Constants
  <1>7. PadKey(p) # ChatKey(p, new.chatHead)
    BY DEF PadKey, ChatKey
  <1>8. /\ DOMAIN f = {ChatKey(p, new.chatHead), PadKey(p)} /\ f[PadKey(p)] = new
        /\ f[ChatKey(p, new.chatHead)] = task[t].n
    BY <1>7
  <1>9. DOMAIN f \subseteq KeysOf(p) /\ DOMAIN f \subseteq Keys
    BY <1>2, <1>6, <1>8, KeysInside
  <1> HIDE DEF f, new
  <1>10. /\ view'[PadKey(p)] = new /\ view'[ChatKey(p, new.chatHead)] = task[t].n
         /\ \A k \in Keys \ {PadKey(p), ChatKey(p, new.chatHead)} : view'[k] = view[k]
    <2>1. IsDatabase(ChatRoom, view)
      BY DEF TypeInv
    <2>2. (\A k \in DOMAIN f : view'[k] = f[k]) /\ (\A k \in Keys \ DOMAIN f : view'[k] = view[k])
      BY <1>1, <1>9, <2>1, SetIs
    <2> QED BY <1>8, <2>2
  <1>11. view'[ChatKey(p, new.chatHead)] # Nothing
    BY <1>2, <1>10, Constants
  <1>12. \A q \in Pads \ {p} : \A k \in KeysOf(q) : view'[k] = view[k]
    <2> TAKE q \in Pads \ {p}
    <2> TAKE k \in KeysOf(q)
    <2>1. k \notin {PadKey(p), ChatKey(p, new.chatHead)} /\ k \in Keys
      BY <1>2, <1>8, <1>9, KeysInside, KeysApart
    <2> QED BY <1>10, <2>1
  <1>13. new \in PadIn(ChatRoom + 1) /\ pad \in PadIn(ChatRoom + 1)
    <2> DEFINE room == ChatRoom + 1
    <2>1. pad.head \in -1 .. MaxHead /\ pad.saved \in SUBSET (0 .. MaxHead) /\ pad.text \in Texts
          /\ pad.chatHead \in -1 .. ChatRoom
      BY <1>2 DEF PadIn
    <2>2. pad.chatHead + 1 \in -1 .. room
      BY <1>2, <2>1
    <2>3. new = [head |-> pad.head, chatHead |-> pad.chatHead + 1, saved |-> pad.saved, text |-> pad.text]
      BY <1>5 DEF new
    <2>4. room \in Int /\ ChatRoom <= room
      BY <1>2
    <2> HIDE DEF room
    <2>5. new \in PadIn(room)
      BY <2>1, <2>2, <2>3 DEF PadIn
    <2>6. pad \in PadIn(room)
      BY <1>2, <2>4, RoomGrows
    <2> QED BY <2>5, <2>6 DEF room
  <1>14. Whole(view', p, new)
    <2> DEFINE room == ChatRoom + 1
               db == view'
               old == view
    <2>1. /\ room \in Int /\ room <= MaxCalls /\ pad \in PadIn(room) /\ new \in PadIn(room)
          /\ Whole(old, p, pad)
      BY <1>2, <1>4, <1>13, Constants
    <2>2. /\ db[ChatKey(p, new.chatHead)] # Nothing
          /\ \A k \in KeysOf(p) \ {PadKey(p), ChatKey(p, new.chatHead)} : db[k] = old[k]
      BY <1>2, <1>10, <1>11, KeysInside
    <2> HIDE DEF room, db, old, p, pad
    <2>3. p \in Pads
      BY <1>2
    <2>4. Whole(db, p, new)
      BY <1>6, <2>1, <2>2, <2>3, WholeChat
    <2> QED BY <2>4 DEF db
  <1>15. Exact(view', p)
    <2>1. new # Nothing
      BY <1>13, PadsAreRecords
    <2> QED BY <1>10, <1>14, <2>1 DEF Exact, PadOf
  <1> QED BY <1>2, <1>3, <1>12, <1>15, WritingRecords

LEMMA SaveRecords ==
    ASSUME TakeTurns, TypeInv, TypeInv', HandsInv, NEW t \in Tasks, Footprint(t), RecordsInv, crashes = 0,
           addSavedRevision(t)
    PROVE  RecordsInv'
  <1> DEFINE p == task[t].pad
             pad == mem[task[t].held]
             new == [pad EXCEPT !.saved = @ \cup {pad.head}]
             f == [k \in {PadKey(p)} |-> new]
  <1>1. task[t].pc = "run" /\ task[t].op = "save" /\ Half(task[t]) = {}
    BY DEF addSavedRevision, Running, At, Half
  <1>2. CASE pad.head \in pad.saved
    <2>1. Step(t, Goto(t, "write", {})) /\ view' = view
      BY <1>2 DEF addSavedRevision
    <2>2. task'[t].pc = "write"
      BY <2>1, Places
    <2> QED BY <1>1, <2>1, <2>2, QuietRecords
  <1>3. CASE pad.head \notin pad.saved
    <2>1. Set(f) /\ Step(t, Goto(t, "write", {PadKey(p)}))
      BY <1>3 DEF addSavedRevision, Change
    <2>2. task'[t].pc = "write"
      BY <2>1, Places
    <2>3. /\ p \in Pads /\ p \in Uses(t) /\ pad = view[PadKey(p)] /\ pad.head \in 0 .. MaxHead
          /\ pad \in PadIn(ChatRoom) /\ ChatRoom \in Int
      BY <1>1, RunningPad DEF PlainOps
    <2>4. PadOf(view, p) = pad /\ Whole(view, p, pad)
      <3>1. PadOf(view, p) = pad
        BY <2>3, PadsAreRecords DEF PadOf
      <3> QED BY <1>1, <2>3, <3>1, OwnExact
    <2>5. new = [head |-> pad.head, chatHead |-> pad.chatHead, saved |-> pad.saved \cup {pad.head},
                 text |-> pad.text]
      BY SMTT(30), <2>3 DEF PadIn
    <2>6. new \in PadIn(ChatRoom)
      BY <2>3, <2>5, PadParts DEF PadIn
    <2>7. DOMAIN f = {PadKey(p)} /\ f[PadKey(p)] = new
      OBVIOUS
    <2>8. new.head = pad.head /\ new.chatHead = pad.chatHead /\ new.saved = pad.saved \cup {pad.head}
          /\ new.text = pad.text /\ pad.head >= 0
      BY <2>3, <2>5
    <2> HIDE DEF f, new
    <2>9. view'[PadKey(p)] = new /\ \A k \in Keys \ {PadKey(p)} : view'[k] = view[k]
      <3>1. IsDatabase(ChatRoom, view) /\ DOMAIN f \subseteq Keys
        BY <2>3, <2>7, KeysInside DEF TypeInv
      <3> QED BY <2>1, <2>7, <3>1, SetIs
    <2>10. \A q \in Pads \ {p} : \A k \in KeysOf(q) : view'[k] = view[k]
      BY <2>3, <2>9, KeysInside
    <2>11. Whole(view', p, new)
      <3> DEFINE room == ChatRoom
                 db == view'
                 old == view
      <3>1. room \in Int /\ room <= MaxCalls /\ new \in PadIn(room) /\ p \in Pads
            /\ \A k \in KeysOf(p) \ {PadKey(p)} : db[k] = old[k]
        BY <2>3, <2>6, <2>9, KeysInside, RoomBounded, Constants
      <3>2. Whole(old, p, new)
        BY <2>3, <2>4, <2>8, WholeSave
      <3> HIDE DEF room, db, old, p
      <3>3. Whole(db, p, new)
        BY <3>1, <3>2, WholeFrame
      <3> QED BY <3>3 DEF db
    <2>12. Exact(view', p)
      <3>1. new # Nothing
        BY <2>6, PadsAreRecords
      <3> QED BY <2>9, <2>11, <3>1 DEF Exact, PadOf
    <2> QED BY <1>1, <2>2, <2>3, <2>10, <2>12, WritingRecords
  <1> QED BY <1>2, <1>3

\* Nothing is left of a pad that is removed.
LEMMA RemovedExact ==
    ASSUME TypeInv, NEW p \in Pads, Exact(view, p), NEW pad, pad = PadOf(view, p), Set(Removed(p, pad))
    PROVE  Exact(view', p) /\ \A q \in Pads \ {p} : \A k \in KeysOf(q) : view'[k] = view[k]
  <1> DEFINE f == Removed(p, pad)
  <1>1. ChatRoom \in Int /\ ChatRoom <= MaxCalls /\ -1 <= ChatRoom /\ IsDatabase(ChatRoom, view)
    BY RoomBounded, Constants DEF TypeInv
  <1>2. pad \in PadIn(ChatRoom) /\ Whole(view, p, pad)
    BY <1>1, PadOfTyped DEF Exact
  <1>3. /\ RecordKeys(p, pad) \subseteq KeysOf(p) /\ DOMAIN f = RecordKeys(p, pad)
        /\ \A k \in RecordKeys(p, pad) : f[k] = Nothing
    BY <1>1, <1>2, RemovedTyped
  <1> HIDE DEF f
  <1>4. /\ \A k \in RecordKeys(p, pad) : view'[k] = Nothing
        /\ \A q \in Pads \ {p} : \A k \in KeysOf(q) : view'[k] = view[k]
        /\ \A k \in Keys \ RecordKeys(p, pad) : view'[k] = view[k]
    <2>1. \A k \in DOMAIN f : IsRecord(ChatRoom, k, f[k])
      BY <1>3 DEF IsRecord
    <2>2. Set(f)
      BY DEF f
    <2>3. /\ \A k \in DOMAIN f : view'[k] = f[k]
          /\ \A q \in Pads \ {p} : \A k \in KeysOf(q) : view'[k] = view[k]
          /\ \A k \in Keys \ DOMAIN f : view'[k] = view[k]
      BY <1>1, <1>3, <2>1, <2>2, SetsPad
    <2> QED BY <1>3, <2>3
  <1>5. \A k \in KeysOf(p) \ RecordKeys(p, pad) : view'[k] = view[k]
    BY <1>4, KeysInside
  <1>6. Exact(view', p)
    <2> DEFINE room == ChatRoom
               db == view'
               old == view
    <2>1. /\ room \in Int /\ room <= MaxCalls /\ pad \in PadIn(room) /\ Whole(old, p, pad)
          /\ \A k \in RecordKeys(p, pad) : db[k] = Nothing
          /\ \A k \in KeysOf(p) \ RecordKeys(p, pad) : db[k] = old[k]
      BY <1>1, <1>2, <1>4, <1>5
    <2> HIDE DEF room, db, old
    <2>2. Exact(db, p)
      BY <2>1, WholeRemoved
    <2> QED BY <2>2 DEF db
  <1> QED BY <1>4, <1>6

LEMMA RemoveRecords ==
    ASSUME TakeTurns, TypeInv, TypeInv', HandsInv, NEW t \in Tasks, Footprint(t), RecordsInv, crashes = 0,
           remove(t)
    PROVE  RecordsInv'
  <1> DEFINE p == task[t].pad
             pad == mem[task[t].held]
  <1>1. /\ task[t].pc = "run" /\ task[t].op = "remove" /\ Set(Removed(p, pad))
        /\ Step(t, Goto(t, "write", DOMAIN Removed(p, pad)))
    BY DEF remove, Running, At
  <1>2. p \in Pads /\ p \in Uses(t) /\ pad = view[PadKey(p)] /\ pad \in PadIn(ChatRoom)
    BY <1>1, RunningPad DEF PlainOps
  <1>3. task'[t].pc = "write" /\ Half(task[t]) = {}
    BY <1>1, Places DEF Half
  <1>4. pad = PadOf(view, p) /\ Exact(view, p)
    BY <1>2, <1>3, OwnExact, PadsAreRecords DEF PadOf
  <1> HIDE DEF p, pad
  <1>5. Exact(view', p) /\ \A q \in Pads \ {p} : \A k \in KeysOf(q) : view'[k] = view[k]
    BY <1>1, <1>2, <1>4, RemovedExact
  <1> QED BY <1>2, <1>3, <1>5, WritingRecords

LEMMA ClearRecords ==
    ASSUME TakeTurns, TypeInv, TypeInv', HandsInv, NEW t \in Tasks, Footprint(t), RecordsInv, crashes = 0,
           removePadIfForceIsTrueAndAlreadyExist(t)
    PROVE  RecordsInv'
  <1> DEFINE q == task[t].dst
             pc == IF task[t].op \in Copies THEN "read" ELSE "getPad"
  <1>1. task[t].pc = "clear" /\ Half(task[t]) = {}
    BY DEF removePadIfForceIsTrueAndAlreadyExist, At, Half
  <1>2. CASE Return(t, mem, cache, kept) /\ view' = view
    <2>1. task'[t].pc = "idle"
      BY <1>2, Places
    <2> QED BY <1>1, <1>2, <2>1, QuietRecords
  <1>3. CASE Set(Cleared(q)) /\ Step(t, Goto(t, pc, DOMAIN Cleared(q)))
    <2>1. q \in Pads /\ q \in Uses(t) /\ ~Rewritten(q)
      <3>1. task[t].op \in CopyOps
        BY <1>1 DEF HandsInv, Shape
      <3> QED BY <1>1, <3>1, CopyingPad
    <2>2. task'[t].pc \notin {"records", "delete", "head", "revs"}
      BY <1>3, Places
    <2>3. CASE Exists(q)
      <3>1. Current(q) = PadOf(view, q) /\ Exact(view, q)
        BY <1>1, <2>1, <2>3, CurrentTyped, OwnExact DEF PadOf, Exists
      <3>2. Set(Removed(q, Current(q)))
        BY <1>3, <2>3 DEF Cleared
      <3> HIDE DEF q
      <3>3. Exact(view', q) /\ \A p \in Pads \ {q} : \A k \in KeysOf(p) : view'[k] = view[k]
        BY <2>1, <3>1, <3>2, RemovedExact
      <3> QED BY <1>1, <2>1, <2>2, <3>3, WritingRecords
    <2>4. CASE ~Exists(q)
      <3>1. Cleared(q) = <<>> /\ DOMAIN <<>> = {}
        BY <2>4 DEF Cleared
      <3>2. \A k \in Keys : view'[k] = view[k]
        BY <1>3, <3>1 DEF Set
      <3> QED BY <1>1, <2>2, <3>2, QuietRecords
    <2> QED BY <2>3, <2>4
  <1> QED BY <1>2, <1>3 DEF removePadIfForceIsTrueAndAlreadyExist

LEMMA SnapshotRecords ==
    ASSUME TakeTurns, TypeInv, TypeInv', HandsInv, NEW t \in Tasks, Footprint(t), RecordsInv, crashes = 0,
           AppendSnapshot(t)
    PROVE  RecordsInv'
  <1> DEFINE q == task[t].dst
             cs == mem[task[t].held].text
  <1>1. /\ task[t].pc = "second" /\ q \in Pads /\ q \in Uses(t) /\ view[PadKey(q)] = Blank /\ mem[task[t].obj] = Blank
        /\ cs \in Texts
    BY SnapshotParts
  <1>2. Half(task[t]) = {}
    BY <1>1 DEF Half
  <1>3. Blank = PadOf(view, q) /\ Blank.head < MaxHead
    <2>1. Blank \in PadIn(-1) /\ Blank.head = 0
      BY BlankTyped DEF Blank
    <2> QED BY <1>1, <2>1, PadsAreRecords, Constants DEF PadOf
  <1>4. Set(revisionRecords(q, Blank, cs))
    BY <1>1 DEF AppendSnapshot
  <1>5. Exact(view, q)
    BY <1>1, <1>2, OwnExact
  <1>6. task'[t].pc \in {"idle", "run"}
    <2>1. CASE task[t].op = "snapshot"
      BY <2>1, Places DEF AppendSnapshot
    <2>2. ASSUME NEW op, NEW p, NEW r, NEW o, Continue(t, op, p, r, o) PROVE task'[t].pc = "run"
      <3> DEFINE text == IF r = Nothing THEN <<>> ELSE mem'[o].text
                 s == [Idle EXCEPT !.pc = "run", !.op = op, !.pad = p, !.dst = r, !.held = o, !.from = text]
      <3>1. task'[t] = s
        BY <2>2, Places DEF Continue
      <3> HIDE DEF text
      <3>2. s.pc = "run"
        BY DEF Idle
      <3> QED BY <3>1, <3>2
    <2>3. CASE task[t].op # "snapshot"
      BY <2>2, <2>3 DEF AppendSnapshot
    <2> QED BY <2>1, <2>3
  <1> HIDE DEF q, cs
  <1>7. Exact(view', q) /\ \A p \in Pads \ {q} : \A k \in KeysOf(p) : view'[k] = view[k]
    BY <1>1, <1>3, <1>4, <1>5, AppendExact
  <1> QED BY <1>1, <1>2, <1>6, <1>7, WritingRecords

\* What has been read makes a pad like its source.
LEMMA ReadRecordsRecords ==
    ASSUME TakeTurns, TypeInv, TypeInv', HandsInv, NEW t \in Tasks, Footprint(t), RecordsInv, crashes = 0,
           ReadRecords(t)
    PROVE  RecordsInv'
  <1> DEFINE p == task[t].pad
             q == task[t].dst
             pad == mem[task[t].held]
             records == {<<Renamed(k, q), view[k]>> : k \in RecordKeys(p, pad)}
             s == [Goto(t, "records", {}) EXCEPT !.records = records]
  <1>1. task[t].pc = "read" /\ view' = view /\ Step(t, s) /\ Half(task[t]) = {}
    BY ReadAtOnce DEF At, Half
  <1>2. /\ p \in Pads /\ q \in Pads /\ p \in Uses(t) /\ q \in Uses(t) /\ InHand(t)
        /\ pad = view[PadKey(p)] /\ pad \in PadIn(ChatRoom)
    <2>1. task[t].op \in CopyOps
      BY <1>1 DEF HandsInv, Shape, CopyOps
    <2> QED BY <1>1, <2>1, CopyingPad
  <1>3. ChatRoom \in Int /\ ChatRoom <= MaxCalls /\ -1 <= ChatRoom
    BY RoomBounded, Constants
  <1>4. Whole(view, p, pad)
    <2>1. PadOf(view, p) = pad
      BY <1>2, PadsAreRecords DEF PadOf
    <2> QED BY <1>1, <1>2, <2>1, OwnExact
  <1>5. \A k \in KeysOf(q) : view[k] = Nothing
    <2>1. view[PadKey(q)] = Nothing
      BY <1>1, <1>2 DEF InHand
    <2>2. Whole(view, q, NewPad)
      BY <1>1, <1>2, <2>1, OwnExact DEF PadOf
    <2> QED BY <1>2, <2>1, <2>2, WholeNew
  <1>6. task'[t].pc = "records" /\ task'[t].dst = q /\ task'[t].records = records
    <2> DEFINE g == Goto(t, "records", {})
    <2>1. g \in TaskType /\ g.pc = "records" /\ g.dst = q
      BY GotoIs
    <2> HIDE DEF g, records
    <2>2. task'[t] = [g EXCEPT !.records = records]
      BY <1>1, Places DEF g
    <2> QED BY <2>1, <2>2 DEF TaskType
  <1>7. RecordKeys(p, pad) \subseteq KeysOf(p) /\ PadKey(p) \in RecordKeys(p, pad)
    BY <1>2, <1>3, RemovedTyped
  <1>8. \A k \in KeysOf(p) \ RecordKeys(p, pad) : view[k] = Nothing
    BY <1>2, <1>3, <1>4, WholeOutside
  <1> DEFINE db == Planned(task'[t], view)
  <1>9. ASSUME NEW k \in KeysOf(p)
        PROVE  db[Renamed(k, q)] = view[k]
    <2> DEFINE read == RecordKeys(p, pad)
               new == task'[t]
    <2>1. Renamed(k, q) \in KeysOf(q) /\ Renamed(k, q) \in Keys
          /\ \A j \in read : Renamed(j, q) = Renamed(k, q) => j = k
      BY <1>2, <1>7, RenamedIs, KeysInside
    <2>2. \A r1, r2 \in records : r1[1] = r2[1] => r1 = r2
      <3>1. \A i, j \in read : Renamed(i, q) = Renamed(j, q) => i = j
        BY <1>2, <1>7, RenamedIs
      <3> HIDE DEF read
      <3> QED BY <3>1 DEF read
    <2>3. k \in read => <<Renamed(k, q), view[k]>> \in records
      OBVIOUS
    <2>4. k \notin read => ~ \E r \in records : r[1] = Renamed(k, q)
      BY <2>1
    <2> HIDE DEF records, read, new
    <2>5. new.records = records
      BY <1>6 DEF new
    <2>6. k \in read => Planned(new, view)[Renamed(k, q)] = view[k]
      BY <2>1, <2>2, <2>3, <2>5, PlannedIs
    <2>7. k \notin read => Planned(new, view)[Renamed(k, q)] = view[Renamed(k, q)]
      BY <2>1, <2>2, <2>4, <2>5, PlannedIs
    <2>8. k \notin read => view[k] = Nothing /\ view[Renamed(k, q)] = Nothing
      BY <1>5, <1>8, <2>1 DEF read
    <2> QED BY <2>6, <2>7, <2>8 DEF new
  <1> HIDE DEF db, p, q, pad
  <1>10. db[PadKey(q)] = pad
    BY <1>2, <1>9, RenamedIs, KeysInside
  <1>11. /\ \A r \in 0 .. MaxHead : db[RevKey(q, r)] = view[RevKey(p, r)]
         /\ \A n \in 0 .. MaxCalls : db[ChatKey(q, n)] = view[ChatKey(p, n)]
    BY <1>2, <1>9, RenamedIs, KeysInside
  <1>12. Whole(db, q, pad)
    BY <1>2, <1>3, <1>4, <1>11, WholeRenamed
  <1>13. Exact(db, q)
    BY <1>2, <1>10, <1>12, PadsAreRecords DEF Exact, PadOf
  <1>14. q \in Half(task'[t])
    BY <1>6 DEF Half
  <1>15. Exact(Planned(task'[t], view'), task'[t].dst)
    BY <1>1, <1>6, <1>13 DEF db
  <1>16. \A r \in Pads \ {q} : \A k \in KeysOf(r) : view'[k] = view[k]
    BY <1>1
  <1> QED BY <1>1, <1>2, <1>6, <1>14, <1>15, <1>16, RecordsKept

LEMMA CopyRecordRecords ==
    ASSUME TakeTurns, TypeInv, TypeInv', HandsInv, NEW t \in Tasks, Footprint(t), RecordsInv, crashes = 0,
           copyRecord(t)
    PROVE  RecordsInv'
  <1> DEFINE q == task[t].dst
  <1>1. PICK r \in task[t].records :
          /\ SetOne(r[1], r[2])
          /\ Step(t, [task[t] EXCEPT !.records = @ \ {r}, !.awaits = @ \cup {r[1]}])
    BY DEF copyRecord
  <1>2. task[t].pc = "records" /\ InHand(t) /\ q \in Pads
    <2>1. task[t].pc = "records"
      BY ReadAtOnce
    <2>2. task[t].op \in CopyOps
      BY <2>1 DEF HandsInv, Shape, CopyOps
    <2> QED BY <2>1, <2>2, CopyingPad
  <1>3. /\ r[1] \in KeysOf(q) /\ r[1] \in Keys /\ IsRecord(ChatRoom, r[1], r[2])
        /\ \A r1, r2 \in task[t].records : r1[1] = r2[1] => r1 = r2
    BY <1>2, KeysInside DEF InHand, TypeInv
  <1>4. task'[t].pc = "records" /\ task'[t].dst = q /\ task'[t].records = task[t].records \ {r}
    <2> DEFINE s == task[t]
               new == [s EXCEPT !.records = @ \ {r}, !.awaits = @ \cup {r[1]}]
    <2>1. task'[t] = new
      BY <1>1, Places
    <2>2. s \in TaskType
      BY TaskFields
    <2> HIDE DEF s
    <2>3. new.pc = s.pc /\ new.dst = s.dst /\ new.records = s.records \ {r}
      BY <2>2 DEF TaskType
    <2> QED BY <1>2, <2>1, <2>3 DEF s
  <1>5. /\ view'[r[1]] = r[2]
        /\ \A p \in Pads \ {q} : \A k \in KeysOf(p) : view'[k] = view[k]
        /\ \A k \in Keys \ {r[1]} : view'[k] = view[k]
    <2> DEFINE key == r[1]
               rec == r[2]
    <2> HIDE DEF key, rec, q
    <2>1. key \in KeysOf(q) /\ SetOne(key, rec) /\ IsRecord(ChatRoom, key, rec)
      BY <1>1, <1>3 DEF key, rec
    <2>2. IsDatabase(ChatRoom, view)
      BY DEF TypeInv
    <2>3. /\ view'[key] = rec
          /\ \A p \in Pads \ {q} : \A k \in KeysOf(p) : view'[k] = view[k]
          /\ \A k \in Keys \ {key} : view'[k] = view[k]
      BY <1>2, <2>1, <2>2, SetsPadOne
    <2> QED BY <2>3 DEF key, rec
  <1>6. Planned(task'[t], view') = Planned(task[t], view)
    <2>1. DOMAIN view = Keys
      BY DEF TypeInv, IsDatabase
    <2> QED BY <1>3, <1>4, <1>5, <2>1, PlannedStep
  <1>7. Exact(Planned(task[t], view), q)
    BY <1>2 DEF RecordsInv
  <1>8. Half(task[t]) = {q} /\ Half(task'[t]) = {q}
    BY <1>2, <1>4 DEF Half
  <1> QED BY <1>2, <1>4, <1>5, <1>6, <1>7, <1>8, RecordsKept

\* When no record is left to write, what is written is the copy.
LEMMA RecordsCopiedRecords ==
    ASSUME TakeTurns, TypeInv, TypeInv', HandsInv, NEW t \in Tasks, Footprint(t), RecordsInv, crashes = 0,
           RecordsCopied(t)
    PROVE  RecordsInv'
  <1> DEFINE q == task[t].dst
             s == task[t]
  <1>1. s.pc = "records" /\ s.records = {} /\ view' = view /\ Step(t, Goto(t, "getPad", {}))
    BY DEF RecordsCopied, At
  <1>2. q \in Pads
    <2>1. task[t].op \in CopyOps
      BY <1>1 DEF HandsInv, Shape, CopyOps
    <2> QED BY <1>1, <2>1, CopyingPad
  <1>3. task'[t].pc = "getPad" /\ Half(s) = {q}
    BY <1>1, Places DEF Half
  <1>4. \A k \in KeysOf(q) : view[k] = Planned(s, view)[k]
    <2>1. \A k \in KeysOf(q) : k \in Keys
      BY <1>2, KeysInside
    <2>2. ~ \E r \in s.records : TRUE
      BY <1>1
    <2> HIDE DEF s
    <2> QED BY <2>1, <2>2 DEF Planned
  <1>5. Exact(view, q)
    <2>1. Exact(Planned(s, view), q)
      BY <1>1 DEF RecordsInv
    <2>2. ChatRoom \in Int /\ ChatRoom <= MaxCalls /\ -1 <= ChatRoom /\ IsDatabase(ChatRoom, Planned(s, view))
      BY <1>1, RoomBounded, Constants, PlannedTyped
    <2> QED BY <1>2, <1>4, <2>1, <2>2, ExactFrame
  <1> QED BY <1>1, <1>2, <1>3, <1>5, RecordsKept

\* What deleteRevisions sets out to make is a whole pad.
LEMMA LoadedExact ==
    ASSUME NEW room \in Int, -1 <= room, room <= MaxCalls, IsDatabase(room, view), NEW p \in Pads,
           Exact(view, p), NEW pad \in PadIn(room), pad = view[PadKey(p)],
           NEW until \in Nat, until >= 1, pad.head = until + KeepRevisions,
           NEW s, s.pc = "delete", s.pad = p, s.n = until,
           s.records = {<<RevKey(p, r), Recreated(p, until, r)>> : r \in 0 .. KeepRevisions}
    PROVE  Exact(Compacted(s, view), p)
  <1> DEFINE db == Compacted(s, view)
             new == Shortened(pad, until)
  <1>1. /\ KeepRevisions \in Nat /\ KeepRevisions >= 0 /\ pad.head \in 0 .. MaxHead
        /\ KeepRevisions <= MaxHead /\ MaxHead \in Nat
    BY PadParts, Constants
  <1>2. Whole(view, p, pad)
    BY PadsAreRecords DEF Exact, PadOf
  <1>3. \A r1, r2 \in s.records : r1[1] = r2[1] => r1 = r2
    <2>1. \A i, j : RevKey(p, i) = RevKey(p, j) => i = j
      BY DEF RevKey
    <2> QED BY <2>1
  <1>4. \A r \in s.records : IsRecord(room, r[1], r[2])
    <2> SUFFICES ASSUME NEW r \in 0 .. KeepRevisions
                 PROVE  IsRecord(room, RevKey(p, r), Recreated(p, until, r))
      OBVIOUS
    <2>1. r \in Nat /\ until + r <= MaxHead /\ until + r <= pad.head
      BY <1>1
    <2>2. \A i \in 0 .. until + r : view[RevKey(p, i)] # Nothing
      BY <1>1, <1>2, <2>1 DEF Whole
    <2>3. Recreated(p, until, r) \in RevisionRecord(r)
      BY <2>1, <2>2, RecreatedTyped
    <2> QED BY <2>3, RecordKinds
  <1>5. IsDatabase(room, db)
    BY <1>1, <1>3, <1>4, CompactionTyped
  <1>6. \A r \in 0 .. KeepRevisions : db[RevKey(p, r)] = Recreated(p, until, r)
    <2> TAKE r \in 0 .. KeepRevisions
    <2>1. RevKey(p, r) \in Keys
      BY <1>1, KeysInside
    <2> DEFINE x == <<RevKey(p, r), Recreated(p, until, r)>>
    <2>2. x \in s.records /\ x[1] = RevKey(p, r) /\ x[2] = Recreated(p, until, r)
      OBVIOUS
    <2> HIDE DEF x
    <2> QED BY <1>3, <2>1, <2>2, CompactedIs
  <1>7. \A k \in Keys : (\A r \in 0 .. KeepRevisions : k # RevKey(p, r)) => ~ \E r \in s.records : r[1] = k
    <2>1. \A x \in s.records : \E r \in 0 .. KeepRevisions : x[1] = RevKey(p, r)
      OBVIOUS
    <2> QED BY <2>1
  <1>8. \A r \in 0 .. MaxHead : r > KeepRevisions => db[RevKey(p, r)] = Nothing
    <2> SUFFICES ASSUME NEW r \in 0 .. MaxHead, r > KeepRevisions PROVE db[RevKey(p, r)] = Nothing
      OBVIOUS
    <2>1. RevKey(p, r) \in Keys /\ RevKey(p, r) # PadKey(p)
      BY KeysInside DEF RevKey, PadKey
    <2>2. ~ \E x \in s.records : x[1] = RevKey(p, r)
      <3>1. \A i \in 0 .. KeepRevisions : RevKey(p, r) # RevKey(p, i)
        BY <1>1 DEF RevKey
      <3> QED BY <1>7, <2>1, <3>1
    <2>3. CASE r <= pad.head
      <3>1. RevKey(p, r) \in RevKeys(p, until + KeepRevisions)
        BY <1>1, <2>3 DEF RevKeys
      <3> QED BY <1>3, <2>1, <2>2, <3>1, CompactedIs
    <2>4. CASE ~(r <= pad.head)
      <3>1. RevKey(p, r) \notin RevKeys(p, until + KeepRevisions)
        BY <1>1, <2>4 DEF RevKeys, RevKey
      <3>2. db[RevKey(p, r)] = view[RevKey(p, r)]
        BY <1>3, <2>1, <2>2, <3>1, CompactedIs
      <3> QED BY <1>2, <2>4, <3>2 DEF Whole
    <2> QED BY <2>3, <2>4
  <1>9. \A n \in 0 .. MaxCalls : db[ChatKey(p, n)] = view[ChatKey(p, n)]
    <2> TAKE n \in 0 .. MaxCalls
    <2>1. ChatKey(p, n) \in Keys /\ ChatKey(p, n) # PadKey(p) /\ ChatKey(p, n) \notin RevKeys(p, until + KeepRevisions)
      BY KeysInside DEF ChatKey, PadKey, RevKeys, RevKey
    <2>2. \A r \in 0 .. KeepRevisions : ChatKey(p, n) # RevKey(p, r)
      BY DEF ChatKey, RevKey
    <2> QED BY <1>3, <1>7, <2>1, <2>2, CompactedIs
  <1>10. db[PadKey(p)] = new
    <2>1. PadKey(p) \in Keys /\ \A r \in 0 .. KeepRevisions : PadKey(p) # RevKey(p, r)
      BY KeysInside DEF PadKey, RevKey
    <2> QED BY <1>3, <1>7, <2>1, CompactedIs
  <1>11. /\ new = [head |-> KeepRevisions, chatHead |-> pad.chatHead,
                   saved |-> Renumbered(pad.saved, until), text |-> pad.text]
         /\ new \in PadIn(room)
    BY <1>1, ShortenedIs
  <1> HIDE DEF db, new
  <1>12. /\ new.head = KeepRevisions /\ new.chatHead = pad.chatHead
         /\ new.saved = Renumbered(pad.saved, until) /\ new.text = pad.text
    BY <1>11
  <1>13. Whole(db, p, new)
    BY <1>2, <1>5, <1>6, <1>8, <1>9, <1>12, WholeCompacted
  <1>14. PadOf(db, p) = new
    BY <1>10, <1>11, PadsAreRecords DEF PadOf
  <1> QED BY <1>13, <1>14 DEF Exact, db

LEMMA LoadRevisionsRecords ==
    ASSUME TakeTurns, TypeInv, TypeInv', HandsInv, NEW t \in Tasks, Footprint(t), RecordsInv, crashes = 0,
           LoadRevisions(t)
    PROVE  RecordsInv'
  <1> DEFINE p == task[t].pad
             pad == mem[task[t].held]
             until == pad.head - KeepRevisions
             records == {<<RevKey(p, r), Recreated(p, until, r)>> : r \in 0 .. KeepRevisions}
  <1>1. /\ Busy(t) /\ task[t].pc = "run" /\ task[t].op = "compact" /\ Shape(task[t]) /\ InHand(t)
        /\ view' = view
    BY DEF LoadRevisions, Running, At, Busy, HandsInv
  <1>2. task[t].held # Nothing /\ task[t].dst = Nothing /\ p \in Pads /\ p \in Uses(t)
    <2>1. p # Nothing
      BY <1>1, Constants DEF Shape
    <2> QED BY <1>1, <2>1 DEF Shape, Loading, Uses
  <1>3. HasPad(task[t]) /\ Half(task[t]) = {}
    BY <1>1, <1>2 DEF HasPad, Half
  <1>4. ~Rewritten(p)
    BY <1>1, AloneInUses, NotRewritten
  <1>5. pad \in PadIn(ChatRoom) /\ pad = view[PadKey(p)]
    BY <1>1, <1>3, <1>4, CachedPad
  <1>6. Exact(view, p)
    BY <1>2, <1>3, OwnExact
  <1>7. CASE ~check(view, p, pad) \/ until <= 0
    <2>1. task'[t].pc = "write"
      BY <1>7, Places DEF LoadRevisions
    <2> QED BY <1>1, <1>3, <2>1, QuietRecords
  <1>8. CASE ~(~check(view, p, pad) \/ until <= 0)
    <2> DEFINE g == Goto(t, "delete", {})
               s == [g EXCEPT !.n = until, !.records = records]
    <2>1. task'[t] = s
      BY <1>8, Places DEF LoadRevisions
    <2>2. g \in TaskType /\ g.pc = "delete" /\ g.pad = p /\ g.dst = task[t].dst
      BY GotoIs
    <2>3. /\ pad.head \in Int /\ until \in Nat /\ until >= 1 /\ pad.head = until + KeepRevisions
      BY <1>5, <1>8, RoomBounded, PadParts, Constants
    <2> HIDE DEF g, records, until
    <2>4. s.pc = "delete" /\ s.pad = p /\ s.n = until /\ s.records = records
      BY <2>2 DEF TaskType
    <2>5. ChatRoom \in Int /\ ChatRoom <= MaxCalls /\ -1 <= ChatRoom /\ IsDatabase(ChatRoom, view)
      BY RoomBounded, Constants DEF TypeInv
    <2> HIDE DEF s
    <2>6. Exact(Compacted(s, view), p)
      <3> HIDE DEF p, pad
      <3>1. s.records = {<<RevKey(p, r), Recreated(p, until, r)>> : r \in 0 .. KeepRevisions}
        BY <2>4 DEF records
      <3> QED BY <1>2, <1>5, <1>6, <2>3, <2>4, <2>5, <3>1, LoadedExact
    <2>7. Half(s) = {}
      BY <2>4 DEF Half
    <2>8. \A q \in Pads \ {p} : \A k \in KeysOf(q) : view'[k] = view[k]
      BY <1>1
    <2> QED BY <1>1, <1>2, <1>3, <1>6, <2>1, <2>4, <2>6, <2>7, <2>8, RecordsKept
  <1> QED BY <1>7, <1>8

\* While a compaction writes what it has set out to, this is what it will have made.
LEMMA CompactingRecords ==
    ASSUME TakeTurns, TypeInv, TypeInv', HandsInv, NEW t \in Tasks, Footprint(t), RecordsInv, crashes = 0,
           task[t].pc \in {"delete", "head", "revs"},
           \A q \in Pads \ {task[t].pad} : \A k \in KeysOf(q) : view'[k] = view[k],
           \/ /\ task'[t].pc \in {"head", "revs"} /\ task'[t].pad = task[t].pad
              /\ \A k \in KeysOf(task[t].pad) : Compacted(task'[t], view')[k] = Compacted(task[t], view)[k]
           \/ /\ task'[t].pc = "unload"
              /\ \A k \in KeysOf(task[t].pad) : view'[k] = Compacted(task[t], view)[k]
    PROVE  RecordsInv'
  <1> DEFINE p == task[t].pad
             old == Compacted(task[t], view)
  <1>1. p \in Pads /\ Half(task[t]) \subseteq {p}
    BY CompactingPad DEF Half
  <1>2. /\ ChatRoom \in Int /\ ChatRoom <= MaxCalls /\ -1 <= ChatRoom
        /\ IsDatabase(ChatRoom, old) /\ Exact(old, p)
    BY RoomBounded, Constants, CompactedTyped DEF RecordsInv, TypeInv
  <1>3. CASE task'[t].pc = "unload"
    <2>1. \A k \in KeysOf(p) : view'[k] = old[k]
      BY <1>3
    <2> HIDE DEF p, old
    <2>2. Exact(view', p)
      BY <1>1, <1>2, <2>1, ExactFrame
    <2> QED BY <1>1, <1>3, <2>2, RecordsKept DEF p
  <1>4. CASE task'[t].pc \in {"head", "revs"} /\ task'[t].pad = p
    <2> DEFINE db == Compacted(task'[t], view')
    <2>1. \A k \in KeysOf(p) : db[k] = old[k]
      BY <1>4
    <2>2. Exact(db, p)
      <3> HIDE DEF p, old, db
      <3> QED BY <1>1, <1>2, <2>1, ExactFrame
    <2>3. ~ \A u \in Tasks : p \notin Half(task'[u])
      BY <1>4 DEF Half
    <2> QED BY <1>1, <1>4, <2>2, <2>3, RecordsKept
  <1> QED BY <1>3, <1>4

\* What compact plans stays the same while it carries it out.
LEMMA DeleteParts ==
    ASSUME TakeTurns, TypeInv, HandsInv, NEW t \in Tasks, DeleteRevisions(t)
    PROVE  LET p == task[t].pad
               keys == RevKeys(p, task[t].n + KeepRevisions)
           IN  /\ task[t].pc = "delete" /\ task[t].awaits = {} /\ UNCHANGED <<disk, kept, forgone>>
               /\ task'[t] = Goto(t, "head", keys) /\ task'[t].pc = "head" /\ task'[t].pad = p
               /\ task'[t].n = task[t].n /\ task'[t].records = task[t].records
               /\ keys \subseteq KeysOf(p) \ {PadKey(p)}
               /\ \A q \in Pads \ {p} : \A k \in KeysOf(q) : view'[k] = view[k]
               /\ \A k \in Keys \ keys : view'[k] = view[k]
               /\ \A k \in KeysOf(p) : Compacted(task'[t], view')[k] = Compacted(task[t], view)[k]
  <1> DEFINE p == task[t].pad
             pad == mem[task[t].held]
             keys == RevKeys(p, pad.head)
             f == [k \in keys |-> Nothing]
             old == Compacted(task[t], view)
             new == Compacted(task'[t], view')
  <1>1. task[t].pc = "delete" /\ Set(f) /\ Step(t, Goto(t, "head", keys))
    BY DEF DeleteRevisions, At
  <1>2. /\ p \in Pads /\ InHand(t) /\ pad \in PadIn(ChatRoom) /\ ChatRoom \in Int
    BY <1>1, CompactingPad
  <1>3. /\ pad.head = task[t].n + KeepRevisions
        /\ \A r1, r2 \in task[t].records : r1[1] = r2[1] => r1 = r2
    BY <1>1, <1>2 DEF InHand
  <1>4. task'[t].pc = "head" /\ task'[t].pad = p /\ task'[t].n = task[t].n /\ task'[t].records = task[t].records
    BY <1>1, Places
  <1>5. keys \subseteq KeysOf(p) /\ PadKey(p) \notin keys /\ DOMAIN f = keys /\ \A k \in keys : f[k] = Nothing
    <2>1. 0 .. pad.head \subseteq 0 .. MaxHead
      BY <1>2, PadParts, Constants
    <2>2. keys \subseteq KeysOf(p)
      BY <1>2, <2>1, KeysInside DEF RevKeys
    <2>3. PadKey(p) \notin keys
      BY DEF RevKeys, PadKey, RevKey
    <2> QED BY <2>2, <2>3
  <1>6. keys = RevKeys(p, task[t].n + KeepRevisions)
    BY <1>3
  <1> HIDE DEF keys, f
  <1>7. /\ \A q \in Pads \ {p} : \A k \in KeysOf(q) : view'[k] = view[k]
        /\ \A k \in DOMAIN f : view'[k] = f[k]
        /\ \A k \in Keys \ DOMAIN f : view'[k] = view[k]
    <2>1. \A k \in DOMAIN f : IsRecord(ChatRoom, k, f[k])
      BY <1>5 DEF IsRecord
    <2>2. IsDatabase(ChatRoom, view)
      BY DEF TypeInv
    <2> HIDE DEF p
    <2> QED BY <1>1, <1>2, <1>5, <2>1, <2>2, SetsPad
  <1>8. ASSUME NEW k \in KeysOf(p) PROVE new[k] = old[k]
    <2> DEFINE s == task[t]
               z == task'[t]
    <2>1. k \in Keys
      BY <1>2, KeysInside
    <2>2. /\ s.pc = "delete" /\ z.pc = "head" /\ z.pad = s.pad /\ z.n = s.n /\ z.records = s.records
          /\ \A r1, r2 \in s.records : r1[1] = r2[1] => r1 = r2
          /\ s.pad = p /\ keys = RevKeys(p, s.n + KeepRevisions)
      BY <1>1, <1>3, <1>4, <1>6
    <2>3. new = Compacted(z, view') /\ old = Compacted(s, view)
      OBVIOUS
    <2> HIDE DEF s, z, new, old, p
    <2>4. CASE \E r \in s.records : r[1] = k
      BY <2>1, <2>2, <2>3, <2>4, CompactedIs
    <2>5. CASE ~(\E r \in s.records : r[1] = k) /\ k = PadKey(p)
      <3>1. view'[k] = view[k]
        BY <1>5, <1>7, <2>1, <2>5
      <3> QED BY <2>1, <2>2, <2>3, <2>5, <3>1, CompactedIs
    <2>6. CASE ~(\E r \in s.records : r[1] = k) /\ k # PadKey(p)
      <3>1. new[k] = view'[k]
        BY <2>1, <2>2, <2>3, <2>6, CompactedIs
      <3>2. k \in keys => old[k] = Nothing /\ view'[k] = Nothing
        BY <1>5, <1>7, <2>1, <2>2, <2>3, <2>6, CompactedIs
      <3>3. k \notin keys => old[k] = view[k] /\ view'[k] = view[k]
        BY <1>5, <1>7, <2>1, <2>2, <2>3, <2>6, CompactedIs
      <3> QED BY <3>1, <3>2, <3>3
    <2> QED BY <2>4, <2>5, <2>6
  <1>9. task[t].awaits = {} /\ UNCHANGED <<disk, kept, forgone>> /\ task'[t] = Goto(t, "head", keys)
    BY <1>1, Places DEF DeleteRevisions, At, keys
  <1> HIDE DEF pad, old, new
  <1> QED BY <1>1, <1>4, <1>5, <1>6, <1>7, <1>8, <1>9 DEF old, new

LEMMA DeleteRecords ==
    ASSUME TakeTurns, TypeInv, TypeInv', HandsInv, NEW t \in Tasks, Footprint(t), RecordsInv, crashes = 0,
           DeleteRevisions(t)
    PROVE  RecordsInv'
  BY DeleteParts, CompactingRecords

LEMMA RewriteRecordParts ==
    ASSUME TakeTurns, TypeInv, HandsInv, NEW t \in Tasks, RewriteRecord(t)
    PROVE  LET p == task[t].pad
               key == PadKey(p)
           IN  /\ task[t].pc = "head" /\ task[t].awaits = {} /\ UNCHANGED <<disk, kept, forgone>>
               /\ task'[t] = Goto(t, "revs", {key}) /\ task'[t].pc = "revs" /\ task'[t].pad = p
               /\ task'[t].records = task[t].records
               /\ key \in KeysOf(p) /\ view[key] \in PadIn(ChatRoom)
               /\ view'[key] = Shortened(view[key], task[t].n) /\ view'[key] \in PadIn(ChatRoom)
               /\ \A q \in Pads \ {p} : \A k \in KeysOf(q) : view'[k] = view[k]
               /\ \A k \in Keys \ {key} : view'[k] = view[k]
               /\ \A k \in KeysOf(p) : Compacted(task'[t], view')[k] = Compacted(task[t], view)[k]
  <1> DEFINE p == task[t].pad
             key == PadKey(p)
             rec == [view[key] EXCEPT !.head = KeepRevisions, !.saved = Renumbered(@, task[t].n)]
             old == Compacted(task[t], view)
             new == Compacted(task'[t], view')
  <1>1. task[t].pc = "head" /\ SetOne(key, rec) /\ Step(t, Goto(t, "revs", {key}))
    BY DEF RewriteRecord, At
  <1>2. /\ p \in Pads /\ InHand(t) /\ view[key] \in PadIn(ChatRoom) /\ ChatRoom \in Int
        /\ key \in KeysOf(p) /\ key \in Keys
    BY <1>1, CompactingPad
  <1>3. /\ \A r1, r2 \in task[t].records : r1[1] = r2[1] => r1 = r2
        /\ KeepRevisions <= MaxHead /\ task[t].n \in Nat
        /\ \A r \in task[t].records : r[1] \in RevKeys(p, KeepRevisions)
    BY <1>1, <1>2, TaskFields DEF InHand
  <1>4. task'[t].pc = "revs" /\ task'[t].pad = p /\ task'[t].n = task[t].n /\ task'[t].records = task[t].records
    BY <1>1, Places
  <1>5. rec = Shortened(view[key], task[t].n)
    BY DEF Shortened
  <1> HIDE DEF rec
  <1>6. IsRecord(ChatRoom, key, rec) /\ rec \in PadIn(ChatRoom)
    <2>1. rec \in PadIn(ChatRoom) /\ rec.head = KeepRevisions
      <3> HIDE DEF key
      <3> QED BY <1>2, <1>3, <1>5, ShortenedIs
    <2> QED BY <2>1, RecordKinds, Constants
  <1>7. /\ view'[key] = rec
        /\ \A q \in Pads \ {p} : \A k \in KeysOf(q) : view'[k] = view[k]
        /\ \A k \in Keys \ {key} : view'[k] = view[k]
    <2>1. IsDatabase(ChatRoom, view)
      BY DEF TypeInv
    <2> HIDE DEF key, p
    <2> QED BY <1>1, <1>2, <1>6, <2>1, SetsPadOne
  <1>8. ASSUME NEW k \in KeysOf(p) PROVE new[k] = old[k]
    <2> DEFINE s == task[t]
               z == task'[t]
    <2>1. k \in Keys
      BY <1>2, KeysInside
    <2>2. /\ s.pc = "head" /\ z.pc = "revs" /\ z.records = s.records
          /\ \A r1, r2 \in s.records : r1[1] = r2[1] => r1 = r2
          /\ key = PadKey(s.pad) /\ rec = Shortened(view[key], s.n)
      BY <1>1, <1>3, <1>4, <1>5
    <2>3. new = Compacted(z, view') /\ old = Compacted(s, view)
      OBVIOUS
    <2>4. ~ \E r \in s.records : r[1] = key
      BY <1>3 DEF RevKeys, RevKey, PadKey
    <2> HIDE DEF s, z, new, old, p, key
    <2>5. CASE \E r \in s.records : r[1] = k
      BY <2>1, <2>2, <2>3, <2>5, CompactedIs
    <2>6. CASE k = key
      BY <1>7, <2>1, <2>2, <2>3, <2>4, <2>6, CompactedIs
    <2>7. CASE ~(\E r \in s.records : r[1] = k) /\ k # key
      BY <1>7, <2>1, <2>2, <2>3, <2>7, CompactedIs
    <2> QED BY <2>5, <2>6, <2>7
  <1>9. task[t].awaits = {} /\ UNCHANGED <<disk, kept, forgone>> /\ task'[t] = Goto(t, "revs", {key})
    BY <1>1, Places DEF RewriteRecord, At
  <1> HIDE DEF old, new
  <1> QED BY <1>1, <1>2, <1>4, <1>5, <1>6, <1>7, <1>8, <1>9 DEF old, new

LEMMA RewriteRecordRecords ==
    ASSUME TakeTurns, TypeInv, TypeInv', HandsInv, NEW t \in Tasks, Footprint(t), RecordsInv, crashes = 0,
           RewriteRecord(t)
    PROVE  RecordsInv'
  BY RewriteRecordParts, CompactingRecords

LEMMA RewriteRevisionsParts ==
    ASSUME TakeTurns, TypeInv, HandsInv, NEW t \in Tasks, RewriteRevisions(t)
    PROVE  LET p == task[t].pad
               keys == {r[1] : r \in task[t].records}
           IN  /\ task[t].pc = "revs" /\ task[t].awaits = {} /\ UNCHANGED <<disk, kept, forgone>>
               /\ task'[t].pc = "unload" /\ task'[t].pad = p /\ task'[t].awaits = keys /\ task'[t].records = {}
               /\ task'[t].dst = task[t].dst
               /\ keys \subseteq KeysOf(p) \ {PadKey(p)}
               /\ \A q \in Pads \ {p} : \A k \in KeysOf(q) : view'[k] = view[k]
               /\ \A k \in Keys \ keys : view'[k] = view[k]
               /\ \A k \in KeysOf(p) : view'[k] = Compacted(task[t], view)[k]
  <1> DEFINE p == task[t].pad
             records == task[t].records
             keys == {r[1] : r \in records}
             f == [k \in keys |-> (CHOOSE r \in records : r[1] = k)[2]]
             old == Compacted(task[t], view)
  <1>1. task[t].pc = "revs" /\ Set(f) /\ Step(t, [Goto(t, "unload", keys) EXCEPT !.records = {}])
    BY DEF RewriteRevisions, At
  <1>2. p \in Pads /\ InHand(t)
    BY <1>1, CompactingPad
  <1>3. /\ \A r1, r2 \in records : r1[1] = r2[1] => r1 = r2
        /\ KeepRevisions <= MaxHead
        /\ keys \subseteq RevKeys(p, KeepRevisions)
    BY <1>1, <1>2 DEF InHand
  <1>4. /\ task'[t].pc = "unload" /\ task'[t].pad = p /\ task'[t].awaits = keys /\ task'[t].records = {}
        /\ task'[t].dst = task[t].dst
    <2> DEFINE g == Goto(t, "unload", keys)
    <2>1. g \in TaskType /\ g.pc = "unload" /\ g.pad = p /\ g.awaits = keys /\ g.dst = task[t].dst
      <3>1. keys \subseteq Keys
        <4>1. records \subseteq Keys \X AnyRecord
          BY TaskFields DEF TaskType
        <4> QED BY <4>1
      <3> QED BY <3>1, GotoIs
    <2>2. task'[t] = [g EXCEPT !.records = {}]
      BY <1>1, Places
    <2> HIDE DEF g, keys
    <2> QED BY <2>1, <2>2 DEF TaskType
  <1>5. keys \subseteq KeysOf(p)
    <2>1. 0 .. KeepRevisions \subseteq 0 .. MaxHead
      BY <1>3, Constants
    <2>2. RevKeys(p, KeepRevisions) \subseteq KeysOf(p)
      BY <1>2, <2>1, KeysInside DEF RevKeys
    <2> QED BY <1>3, <2>2
  <1>6. DOMAIN f = keys /\ \A r \in records : f[r[1]] = r[2]
    <2> SUFFICES ASSUME NEW r \in records PROVE f[r[1]] = r[2]
      OBVIOUS
    <2>1. (CHOOSE x \in records : x[1] = r[1]) = r
      BY <1>3
    <2> QED BY <2>1
  <1> HIDE DEF f
  <1>7. \A k \in DOMAIN f : IsRecord(ChatRoom, k, f[k])
    BY <1>6 DEF TypeInv
  <1>8. /\ \A q \in Pads \ {p} : \A k \in KeysOf(q) : view'[k] = view[k]
        /\ \A k \in DOMAIN f : view'[k] = f[k]
        /\ \A k \in Keys \ DOMAIN f : view'[k] = view[k]
    <2>1. IsDatabase(ChatRoom, view) /\ DOMAIN f \subseteq KeysOf(p)
      BY <1>5, <1>6 DEF TypeInv
    <2> HIDE DEF p
    <2> QED BY <1>1, <1>2, <1>7, <2>1, SetsPad
  <1>9. ASSUME NEW k \in KeysOf(p) PROVE view'[k] = old[k]
    <2> DEFINE s == task[t]
    <2>1. k \in Keys
      BY <1>2, KeysInside
    <2>2. s.pc = "revs" /\ s.records = records /\ old = Compacted(s, view)
      BY <1>1
    <2> HIDE DEF s, records, old
    <2>3. CASE \E r \in records : r[1] = k
      BY <1>3, <1>6, <1>8, <2>1, <2>2, <2>3, CompactedIs
    <2>4. CASE ~ \E r \in records : r[1] = k
      <3>1. k \notin DOMAIN f
        BY <1>6, <2>4
      <3> QED BY <1>3, <1>8, <2>1, <2>2, <2>4, <3>1, CompactedIs
    <2> QED BY <2>3, <2>4
  <1>10. task[t].awaits = {} /\ UNCHANGED <<disk, kept, forgone>>
    BY DEF RewriteRevisions, At
  <1>11. PadKey(p) \notin keys
    BY <1>3 DEF RevKeys, RevKey, PadKey
  <1> HIDE DEF old
  <1> QED BY <1>1, <1>4, <1>5, <1>6, <1>8, <1>9, <1>10, <1>11 DEF old

LEMMA RewriteRevisionsRecords ==
    ASSUME TakeTurns, TypeInv, TypeInv', HandsInv, NEW t \in Tasks, Footprint(t), RecordsInv, crashes = 0,
           RewriteRevisions(t)
    PROVE  RecordsInv'
  BY RewriteRevisionsParts, CompactingRecords

-----------------------------------------------------------------------------
(* The records at all times. *)

\* Only a crash counts as one.
LEMMA NoCrash ==
    ASSUME NEW t \in Tasks, TaskStep(t)
    PROVE  crashes' = crashes
  <1>1. CASE Call(t) \/ getPad(t) \/ init(t) \/ cachePad(t) \/ Open(t)
    BY <1>1 DEF Call, getPad, init, cachePad, Open
  <1>2. CASE AppendEdit(t) \/ appendChatMessage(t) \/ addSavedRevision(t) \/ remove(t) \/ Written(t)
    BY SMTT(30), <1>2 DEF AppendEdit, appendChatMessage, addSavedRevision, remove, Written, Change
  <1>3. CASE SaveSource(t) \/ removePadIfForceIsTrueAndAlreadyExist(t) \/ ReadRecords(t) \/ ReadMessages(t)
               \/ copyRecord(t) \/ RecordsCopied(t) \/ Copied(t) \/ AppendSnapshot(t)
    BY Zenon, <1>3 DEF SaveSource, removePadIfForceIsTrueAndAlreadyExist, ReadRecords, ReadMessages, copyRecord,
                RecordsCopied, Copied, AppendSnapshot
  <1>4. CASE LoadRevisions(t) \/ DeleteRevisions(t) \/ RewriteRecord(t) \/ RewriteRevisions(t) \/ Unload(t)
               \/ Reloaded(t)
    BY <1>4 DEF LoadRevisions, DeleteRevisions, RewriteRecord, RewriteRevisions, Unload, Reloaded
  <1> QED BY <1>1, <1>2, <1>3, <1>4 DEF TaskStep

LEMMA TaskRecords ==
    ASSUME TakeTurns, TypeInv, HandsInv, NEW t \in Tasks, TaskStep(t), RecordsInv
    PROVE  RecordsInv'
  <1>1. CASE crashes # 0
    BY <1>1, NoCrash DEF RecordsInv
  <1>2. CASE crashes = 0
    <2>1. TypeInv' /\ Footprint(t)
      BY TaskSteps
    <2>2. CASE \/ Call(t) \/ getPad(t) \/ cachePad(t) \/ Open(t) \/ Written(t) \/ SaveSource(t) \/ Copied(t)
               \/ Unload(t) \/ Reloaded(t)
      BY <1>2, <2>1, <2>2, QuietSteps
    <2>3. CASE init(t)
      BY <1>2, <2>1, <2>3, InitRecords
    <2>4. CASE AppendEdit(t)
      BY <1>2, <2>1, <2>4, AppendRecords
    <2>5. CASE appendChatMessage(t)
      BY <1>2, <2>1, <2>5, ChatRecords
    <2>6. CASE addSavedRevision(t)
      BY <1>2, <2>1, <2>6, SaveRecords
    <2>7. CASE remove(t)
      BY <1>2, <2>1, <2>7, RemoveRecords
    <2>8. CASE removePadIfForceIsTrueAndAlreadyExist(t)
      BY <1>2, <2>1, <2>8, ClearRecords
    <2>9. CASE ReadRecords(t)
      BY <1>2, <2>1, <2>9, ReadRecordsRecords
    <2>10. CASE copyRecord(t)
      BY <1>2, <2>1, <2>10, CopyRecordRecords
    <2>11. CASE RecordsCopied(t)
      BY <1>2, <2>1, <2>11, RecordsCopiedRecords
    <2>12. CASE AppendSnapshot(t)
      BY <1>2, <2>1, <2>12, SnapshotRecords
    <2>13. CASE LoadRevisions(t)
      BY <1>2, <2>1, <2>13, LoadRevisionsRecords
    <2>14. CASE DeleteRevisions(t)
      BY <1>2, <2>1, <2>14, DeleteRecords
    <2>15. CASE RewriteRecord(t)
      BY <1>2, <2>1, <2>15, RewriteRecordRecords
    <2>16. CASE RewriteRevisions(t)
      BY <1>2, <2>1, <2>16, RewriteRevisionsRecords
    <2> QED BY <2>2, <2>3, <2>4, <2>5, <2>6, <2>7, <2>8, <2>9, <2>10, <2>11, <2>12, <2>13, <2>14, <2>15, <2>16,
               ReadAtOnce DEF TaskStep
  <1> QED BY <1>1, <1>2

\* A task whose awaits alone change has as much before it.
LEMMA FlushRecords ==
    ASSUME TypeInv, NEW k \in Keys, Flush(k), RecordsInv
    PROVE  RecordsInv'
  <1>1. view' = view /\ crashes' = crashes
    BY DEF Flush
  <1>2. ASSUME NEW t \in Tasks
        PROVE  /\ task'[t].pc = task[t].pc /\ Half(task'[t]) = Half(task[t])
               /\ task'[t].pad = task[t].pad /\ task'[t].dst = task[t].dst
               /\ Planned(task'[t], view) = Planned(task[t], view)
               /\ Compacted(task'[t], view) = Compacted(task[t], view)
    <2> DEFINE s == task[t]
               new == task'[t]
    <2>1. /\ new.pc = s.pc /\ new.pad = s.pad /\ new.dst = s.dst /\ new.n = s.n /\ new.records = s.records
      BY FlushIs
    <2> HIDE DEF s, new
    <2>2. Half(new) = Half(s) /\ Planned(new, view) = Planned(s, view) /\ Compacted(new, view) = Compacted(s, view)
      BY <2>1 DEF Half, Planned, Compacted
    <2> QED BY <2>1, <2>2 DEF s, new
  <1> QED BY <1>1, <1>2 DEF RecordsInv

LEMMA CrashRecords ==
    ASSUME crashes \in Nat, Crash
    PROVE  RecordsInv' /\ crashes' \in Nat
  <1>1. crashes' = crashes + 1
    BY DEF Crash
  <1>2. crashes' # 0 /\ crashes' \in Nat
    BY <1>1
  <1> QED BY <1>2 DEF RecordsInv

LEMMA InitialExact ==
    ASSUME Init
    PROVE  RecordsInv /\ crashes \in Nat
  <1>1. /\ DOMAIN view = Keys
        /\ view[PadKey(Stored)] = [head |-> 1, chatHead |-> -1, saved |-> {}, text |-> <<0, 1>>]
        /\ view[RevKey(Stored, 0)] = Revision(0, <<0>>, <<0>>)
        /\ view[RevKey(Stored, 1)] = Revision(1, <<1>>, <<0, 1>>)
        /\ \A k \in Keys : k \notin {PadKey(Stored), RevKey(Stored, 0), RevKey(Stored, 1)} => view[k] = Nothing
    BY InitialRecords
  <1>2. IsDatabase(ChatRoom, view) /\ ChatRoom \in Int
    BY InitInv, RoomBounded DEF TypeInv
  <1>3. \A t \in Tasks : Half(task[t]) = {} /\ task[t].pc = "idle"
    BY IdleTyped DEF Init, Half
  <1>4. ASSUME NEW p \in Pads, p # Stored PROVE Exact(view, p)
    <2>1. \A k \in KeysOf(p) : view[k] = Nothing
      <3> TAKE k \in KeysOf(p)
      <3>1. k \in Keys /\ k[2] = p
        BY KeysInside
      <3>2. k \notin {PadKey(Stored), RevKey(Stored, 0), RevKey(Stored, 1)}
        BY <1>4, <3>1 DEF PadKey, RevKey
      <3> QED BY <1>1, <3>1, <3>2
    <2>2. PadOf(view, p) = NewPad
      BY <2>1, KeysInside DEF PadOf
    <2> QED BY <2>1, <2>2, WholeNew DEF Exact
  <1>5. Exact(view, Stored)
    <2> DEFINE pad == [head |-> 1, chatHead |-> -1, saved |-> {}, text |-> <<0, 1>>]
    <2>1. Stored \in Pads /\ 1 \in 0 .. MaxHead /\ 0 \in 0 .. MaxHead
      BY Constants
    <2>2. <<0>> \in Texts /\ <<1>> \in Texts /\ <<0, 1>> \in Texts
      BY InitialRecords
    <2>3. \A r \in 0 .. 1 : r = 0 \/ r = 1
      OBVIOUS
    <2>4. /\ view[RevKey(Stored, 0)] # Nothing /\ view[RevKey(Stored, 1)] # Nothing
          /\ view[RevKey(Stored, 0)].changeset = <<0>> /\ view[RevKey(Stored, 1)].changeset = <<1>>
          /\ IsKeyRevision(0) => view[RevKey(Stored, 0)].atext = <<0>>
          /\ IsKeyRevision(1) => view[RevKey(Stored, 1)].atext = <<0, 1>>
      <3>1. Revision(0, <<0>>, <<0>>) \in RevisionRecord(0) /\ Revision(1, <<1>>, <<0, 1>>) \in RevisionRecord(1)
        BY <2>2, RevisionTyped
      <3>2. Nothing \notin RevisionRecord(0) /\ Nothing \notin RevisionRecord(1)
        BY PadsAreRecords
      <3> QED BY <1>1, <3>1, <3>2 DEF Revision
    <2>5. \A r \in 0 .. 1 : view[RevKey(Stored, r)] # Nothing
      BY <2>3, <2>4
    <2>6. Composed(view, Stored, 0) = <<0>>
      <3>1. \A r \in 0 .. 0 : view[RevKey(Stored, r)] # Nothing
        BY <2>4
      <3>2. Composed(view, Stored, -1) = <<>>
            /\ Composed(view, Stored, 0) = Composed(view, Stored, -1) \o view[RevKey(Stored, 0)].changeset
        <4>1. 0 - 1 = -1
          OBVIOUS
        <4> QED BY <1>2, <2>1, <3>1, <4>1, ComposedStep
      <3>3. <<>> \o <<0>> = <<0>>
        OBVIOUS
      <3> QED BY <2>4, <3>2, <3>3
    <2>7. Composed(view, Stored, 1) = <<0, 1>>
      <3>1. Composed(view, Stored, 1) = Composed(view, Stored, 0) \o view[RevKey(Stored, 1)].changeset
        <4>1. 1 - 1 = 0
          OBVIOUS
        <4> QED BY <1>2, <2>1, <2>5, <4>1, ComposedStep
      <3>2. <<0>> \o <<1>> = <<0, 1>>
        <4> DEFINE a == <<0>>
                   b == <<1>>
                   ab == <<0, 1>>
        <4>1. /\ a \in Seq(Nat) /\ Len(a) = 1 /\ a[1] = 0
              /\ b \in Seq(Nat) /\ Len(b) = 1 /\ b[1] = 1
              /\ ab \in Seq(Nat) /\ Len(ab) = 2 /\ ab[1] = 0 /\ ab[2] = 1
          OBVIOUS
        <4> HIDE DEF a, b, ab
        <4>2. a \o b \in Seq(Nat) /\ Len(a \o b) = 2
          BY SMTT(30), <4>1, ConcatProperties
        <4>3. (a \o b)[1] = 0 /\ (a \o b)[2] = 1
          <5>1. \A i \in 1 .. Len(a) + Len(b) : (a \o b)[i] = IF i <= Len(a) THEN a[i] ELSE b[i - Len(a)]
            BY <4>1, ConcatProperties
          <5>2. (a \o b)[1] = a[1]
            BY <4>1, <5>1
          <5>3. (a \o b)[2] = b[2 - 1]
            BY <4>1, <5>1
          <5>4. 2 - 1 = 1
            OBVIOUS
          <5> QED BY <4>1, <5>2, <5>3, <5>4
        <4>4. \A i \in 1 .. 2 : (a \o b)[i] = ab[i]
          <5>1. \A i \in 1 .. 2 : i = 1 \/ i = 2
            OBVIOUS
          <5> QED BY <4>1, <4>3, <5>1
        <4>5. a \o b = ab
          BY <4>1, <4>2, <4>4
        <4> QED BY <4>5 DEF a, b, ab
      <3> QED BY <2>4, <2>6, <3>1, <3>2
    <2>8. \A r \in 0 .. MaxHead : view[RevKey(Stored, r)] # Nothing <=> r <= 1
      <3> TAKE r \in 0 .. MaxHead
      <3>1. CASE r <= 1
        BY <2>5, <3>1, Constants
      <3>2. CASE ~(r <= 1)
        <4>1. RevKey(Stored, r) \in Keys
          BY <2>1, KeysInside
        <4>2. RevKey(Stored, r) \notin {PadKey(Stored), RevKey(Stored, 0), RevKey(Stored, 1)}
          BY <3>2 DEF RevKey, PadKey
        <4> QED BY <1>1, <3>2, <4>1, <4>2
      <3> QED BY <3>1, <3>2
    <2>9. \A n \in 0 .. MaxCalls : view[ChatKey(Stored, n)] # Nothing <=> n <= -1
      <3> TAKE n \in 0 .. MaxCalls
      <3>1. ChatKey(Stored, n) \in Keys /\ ~(n <= -1)
        BY <2>1, KeysInside, Constants
      <3>2. ChatKey(Stored, n) \notin {PadKey(Stored), RevKey(Stored, 0), RevKey(Stored, 1)}
        BY DEF ChatKey, RevKey, PadKey
      <3> QED BY <1>1, <3>1, <3>2
    <2>10. \A r \in 0 .. 1 : IsKeyRevision(r) => view[RevKey(Stored, r)].atext = Composed(view, Stored, r)
      BY <2>3, <2>4, <2>6, <2>7
    <2>11. Whole(view, Stored, pad)
      BY <2>7, <2>8, <2>9, <2>10 DEF Whole
    <2>12. pad \in PadIn(-1)
      BY <2>1, <2>2, Constants DEF PadIn
    <2>13. PadOf(view, Stored) = pad
      <3> HIDE DEF pad
      <3>1. view[PadKey(Stored)] = pad
        BY <1>1 DEF pad
      <3> QED BY <2>12, <3>1, PadsAreRecords DEF PadOf
    <2> QED BY <2>11, <2>13 DEF Exact
  <1>6. crashes \in Nat
    BY DEF Init
  <1> QED BY <1>3, <1>4, <1>5, <1>6 DEF RecordsInv

LEMMA AlwaysRecords == TakeTurns /\ Spec => [](TypeInv /\ HandsInv /\ RecordsInv)
  <1> SUFFICES ASSUME TakeTurns PROVE Spec => [](TypeInv /\ HandsInv /\ RecordsInv)
    OBVIOUS
  <1> DEFINE IInv == TypeInv /\ HandsInv /\ RecordsInv /\ crashes \in Nat
  <1>1. Init => IInv
    BY InitInv, InitialExact
  <1>2. IInv /\ [Next]_vars => IInv'
    <2> SUFFICES ASSUME TypeInv, HandsInv, RecordsInv, crashes \in Nat, [Next]_vars
                 PROVE  RecordsInv' /\ crashes' \in Nat
      BY NextHands
    <2>1. CASE UNCHANGED vars
      BY <2>1 DEF vars, RecordsInv
    <2>2. CASE \E t \in Tasks : TaskStep(t)
      BY <2>2, TaskRecords, NoCrash
    <2>3. CASE \E k \in Keys : Flush(k)
      BY <2>3, FlushRecords DEF Flush
    <2>4. CASE Crash
      BY <2>4, CrashRecords
    <2> QED BY <2>1, <2>2, <2>3, <2>4 DEF Next
  <1>3. IInv => TypeInv /\ HandsInv /\ RecordsInv
    OBVIOUS
  <1> HIDE DEF IInv
  <1> QED BY <1>1, <1>2, <1>3, PTL DEF Spec

\* A pad that nobody is in the midst of writing is exact.
LEMMA ExactPads ==
    ASSUME TypeInv, HandsInv, RecordsInv, crashes = 0, NEW p \in Pads, ~BeingWritten(p)
    PROVE  Exact(view, p)
  <1>1. ASSUME NEW t \in Tasks PROVE p \notin Half(task[t])
    <2>1. Shape(task[t])
      BY DEF HandsInv
    <2> QED BY <2>1 DEF Half, Shape, BeingWritten, Compacting
  <1> QED BY <1>1 DEF RecordsInv

\* However calls interleave, a pad that nobody is in the midst of copying to or
\* compacting passes its own check: an edit, a message, a copy or a compaction is
\* never half there for a reader (Pad.ts, check).
THEOREM PadPassesCheck == TakeTurns /\ Spec => []CheckPasses
  <1>1. TypeInv /\ HandsInv /\ RecordsInv => CheckPasses
    <2> SUFFICES ASSUME TypeInv, HandsInv, RecordsInv, crashes = 0, NEW p \in Pads,
                        Current(p) # Nothing, ~BeingWritten(p)
                 PROVE  check(view, p, Current(p))
      BY DEF CheckPasses
    <2>1. Exact(view, p)
      BY ExactPads
    <2>2. Current(p) = view[PadKey(p)]
      <3>1. ~Rewritten(p)
        BY DEF Rewritten, BeingWritten, Compacting
      <3> QED BY <3>1 DEF Current, HandsInv, CacheIsStored
    <2> DEFINE pad == PadOf(view, p)
    <2>3. Whole(view, p, pad) /\ Current(p) = pad
      BY <2>1, <2>2 DEF Exact, PadOf
    <2>4. pad \in PadIn(ChatRoom) /\ ChatRoom \in Int /\ ChatRoom < MaxCalls
      BY RoomBounded, PadOfTyped DEF TypeInv
    <2> HIDE DEF pad
    <2>5. 0 .. pad.head \subseteq 0 .. MaxHead /\ 0 .. pad.chatHead \subseteq 0 .. MaxCalls
      BY <2>4, PadParts, Constants
    <2>6. \A r \in 0 .. pad.head : view[RevKey(p, r)] # Nothing
      BY <2>3, <2>4, <2>5, PadParts DEF Whole
    <2>7. \A n \in 0 .. pad.chatHead : view[ChatKey(p, n)] # Nothing
      BY <2>3, <2>4, <2>5, PadParts DEF Whole
    <2>8. check(view, p, pad)
      BY <2>3, <2>6, <2>7 DEF Whole, check
    <2> QED BY <2>3, <2>8
  <1> QED BY <1>1, AlwaysRecords, PTL

\* NothingLeftBehind with no exception for messages.
NothingAtAll ==
    \A p \in Pads : crashes = 0 /\ ~Exists(p) /\ ~BeingWritten(p) => \A k \in KeysOf(p) : view[k] = Nothing

\* A pad that does not exist has no record, so that one made anew under its name, by
\* an edit, a copy or a snapshot, finds nothing of it (Pad.ts, remove): of pads no
\* longer than a batch, or if no message arrives while a copy is being read.
THEOREM NothingIsLeft == TakeTurns /\ Spec => [](NothingAtAll /\ NothingLeftBehind)
  <1>1. TypeInv /\ HandsInv /\ RecordsInv => NothingAtAll
    <2> SUFFICES ASSUME TypeInv, HandsInv, RecordsInv, crashes = 0, NEW p \in Pads, ~Exists(p),
                        ~BeingWritten(p)
                 PROVE  \A k \in KeysOf(p) : view[k] = Nothing
      BY DEF NothingAtAll
    <2>1. Exact(view, p)
      BY ExactPads
    <2>2. PadOf(view, p) = NewPad /\ view[PadKey(p)] = Nothing
      BY DEF PadOf, Exists
    <2>3. \A k \in KeysOf(p) \ {PadKey(p)} : view[k] = Nothing
      BY <2>1, <2>2, WholeNew DEF Exact
    <2> QED BY <2>2, <2>3
  <1>2. NothingAtAll => NothingLeftBehind
    BY DEF NothingAtAll, NothingLeftBehind
  <1> QED BY <1>1, <1>2, AlwaysRecords, PTL
=============================================================================

------------------------------ MODULE Changeset ------------------------------
(***************************************************************************)
(* The changeset algebra (static/js/Changeset.ts and its assemblers).      *)
(*                                                                         *)
(* An op keeps, removes or inserts a run of characters that have the same  *)
(* attributes; an attribute run is an op that inserts.  Of the attributes  *)
(* only one that can be set and removed is kept, and of the line counts    *)
(* those that can be read off the inserted text.                           *)
(*                                                                         *)
(* A definition right before the one it varies (followInsert_merged before *)
(* followInsert) is a mistake the properties must notice.                  *)
(***************************************************************************)
EXTENDS Naturals, Integers, Sequences, SequencesExt, Functions

Newline == "nl"

\* An attribute is not mentioned, set, or removed.
Bolds == {"none", "off", "true"}

NoOp          == [opcode |-> "", n |-> 0, text |-> <<>>, bold |-> "none"]
keep(n, b)    == [opcode |-> "=", n |-> n, text |-> <<>>, bold |-> b]
remove(n)     == [opcode |-> "-", n |-> n, text |-> <<>>, bold |-> "none"]
insert(t, b)  == [opcode |-> "+", n |-> Len(t), text |-> t, bold |-> b]

\* An op up to its k-th character, and from there.
UpTo(op, k) == [op EXCEPT !.n = k, !.text = SubSeq(@, 1, IF @ = <<>> THEN 0 ELSE k)]
From(op, k) == IF op.n <= k THEN NoOp
               ELSE [op EXCEPT !.n = @ - k, !.text = SubSeq(@, k + 1, Len(@))]

-----------------------------------------------------------------------------
(* SmartOpAssembler: removals before insertions, runs merged, no final keep *)

\* Where the insertions start that end ops.
FinalInserts(ops) ==
    CHOOSE k \in 0 .. Len(ops) :
        /\ \A i \in k + 1 .. Len(ops) : ops[i].opcode = "+"
        /\ k > 0 => ops[k].opcode # "+"

Reordered(ops, op) ==
    IF op.n = 0 THEN ops
    ELSE IF op.opcode = "-" THEN InsertAt(ops, FinalInserts(ops) + 1, op)
    ELSE Append(ops, op)

Reorder(ops) ==
    LET done[i \in Nat] == IF i = 0 THEN <<>> ELSE Reordered(done[i - 1], ops[i])
    IN  done[Len(ops)]

Merged(ops, op) ==
    IF ops # <<>> /\ Last(ops).opcode = op.opcode /\ Last(ops).bold = op.bold
    THEN Append(Front(ops), [op EXCEPT !.n = Last(ops).n + op.n,
                                       !.text = Last(ops).text \o op.text])
    ELSE Append(ops, op)

Merge(ops) ==
    LET done[i \in Nat] == IF i = 0 THEN <<>> ELSE Merged(done[i - 1], ops[i])
    IN  done[Len(ops)]

\* A run of inserted text is written in two ops, up to its last newline and
\* from there.
LastNewline(t) == CHOOSE k \in 0 .. Len(t) :
                      /\ k > 0 => t[k] = Newline
                      /\ \A i \in k + 1 .. Len(t) : t[i] # Newline

Written(op) ==
    IF op.opcode # "+" \/ LastNewline(op.text) \in {0, op.n} THEN <<op>>
    ELSE <<UpTo(op, LastNewline(op.text)), From(op, LastNewline(op.text))>>

Assemble(ops) ==
    LET merged == Merge(Reorder(ops))
        kept   == IF merged # <<>> /\ Last(merged).opcode = "=" /\ Last(merged).bold = "none"
                  THEN Front(merged) ELSE merged
    IN  FlattenSeq([i \in DOMAIN kept |-> Written(kept[i])])

-----------------------------------------------------------------------------
(* applyZip: func takes the next op of each list (NoOp behind the end) and  *)
(* answers what comes out and what is left of either.                       *)

Length(ops) ==
    LET sum[i \in Nat] == IF i = 0 THEN 0 ELSE sum[i - 1] + ops[i].n
    IN  sum[Len(ops)]

NextOp(op, in) == IF op = NoOp /\ in # <<>> THEN Head(in) ELSE op
RestOf(op, in) == IF op = NoOp /\ in # <<>> THEN Tail(in) ELSE in

ZipStart(in1, in2) == [op1 |-> NoOp, in1 |-> in1, op2 |-> NoOp, in2 |-> in2, out |-> <<>>]

\* The state after func has answered res.
Zipped(s, res) ==
    [op1 |-> res.op1, in1 |-> RestOf(s.op1, s.in1),
     op2 |-> res.op2, in2 |-> RestOf(s.op2, s.in2),
     out |-> Append(s.out, res.out)]

applyZip(in1, in2, func(_, _)) ==
    LET zip[i \in Nat] ==
            IF i = 0 THEN ZipStart(in1, in2)
            ELSE LET s   == zip[i - 1]
                     op1 == NextOp(s.op1, s.in1)
                     op2 == NextOp(s.op2, s.in2)
                 IN  IF op1 = NoOp /\ op2 = NoOp THEN s ELSE Zipped(s, func(op1, op2))
    IN  Assemble(zip[Length(in1) + Length(in2)].out)

Result(out, op1, op2) == [out |-> out, op1 |-> op1, op2 |-> op2]

Shorter(op1, op2) == IF op1.n <= op2.n THEN op1.n ELSE op2.n

-----------------------------------------------------------------------------
(* Applying and composing. *)

composeAttributes(att1, att2, resultIsMutation) ==
    IF att2 = "none" THEN att1
    ELSE IF att2 = "off" /\ ~resultIsMutation THEN "none" ELSE att2

slicerZipperFunc(attOp, csOp) ==
    LET k == Shorter(attOp, csOp) IN
    IF attOp.opcode = ""       THEN Result(csOp, NoOp, NoOp)
    ELSE IF csOp.opcode = ""   THEN Result(attOp, NoOp, NoOp)
    ELSE IF attOp.opcode = "-" THEN Result(attOp, NoOp, csOp)
    ELSE IF csOp.opcode = "+"  THEN Result(csOp, attOp, NoOp)
    ELSE   Result(IF csOp.opcode = "-"
                  THEN IF attOp.opcode = "+" THEN NoOp ELSE remove(k)
                  ELSE [UpTo(attOp, k) EXCEPT !.bold =
                           composeAttributes(@, csOp.bold, attOp.opcode = "=")],
                  From(attOp, k), From(csOp, k))

\* A changeset, of a text of oldLen characters.
pack(oldLen, ops) == [oldLen |-> oldLen, ops |-> ops]
Growth(op) == CASE op.opcode = "+" -> op.n
                [] op.opcode = "-" -> -op.n
                [] OTHER -> 0
newLen(cs) ==
    LET len[i \in Nat] == IF i = 0 THEN cs.oldLen ELSE len[i - 1] + Growth(cs.ops[i])
    IN  len[Len(cs.ops)]

identity(n)    == pack(n, <<>>)
isIdentity(cs) == cs.ops = <<>>

\* checkRep: whether cs is in canonical form.
Canonical(cs) == Assemble(cs.ops) = cs.ops

\* A text is written as the runs it consists of.
applyToAText(cs, atext) == applyZip(atext, cs.ops, slicerZipperFunc)

compose(cs1, cs2) == pack(cs1.oldLen, applyZip(cs1.ops, cs2.ops, slicerZipperFunc))

\* What Builder makes of a keep, a removal and an insertion.
splice(oldLen, start, ndel, ins, b) ==
    pack(oldLen, Assemble(<<keep(start, "none"), remove(ndel), insert(ins, b)>>))

setAttribute(oldLen, start, n, b) ==
    pack(oldLen, Assemble(<<keep(start, "none"), keep(n, b)>>))

-----------------------------------------------------------------------------
(* follow: cs2 as it is after cs1. *)

\* The earlier of two values for the same key is taken.
followAttributes(att1, att2) ==
    IF att1 = "none" \/ (att1 = "true" /\ att2 = "off") THEN att2 ELSE "none"

\* Of two insertions at one place, whether the first comes first.
InsertsFirst(op1, op2, reverseInsertOrder) ==
    LET starts(op) == op.text[1] = Newline IN
    IF starts(op1) # starts(op2) THEN starts(op2) ELSE ~reverseInsertOrder

\* Two insertions of the same text are not one.
followInsert_merged(op1, op2, reverseInsertOrder) ==
    IF op1 = op2 THEN Result(keep(op1.n, "none"), NoOp, NoOp)
    ELSE IF op2.opcode # "+" \/ (op1.opcode = "+" /\ InsertsFirst(op1, op2, reverseInsertOrder))
    THEN Result(keep(op1.n, "none"), NoOp, op2)
    ELSE Result(op2, op1, NoOp)
followInsert(op1, op2, reverseInsertOrder) ==
    IF op2.opcode # "+" \/ (op1.opcode = "+" /\ InsertsFirst(op1, op2, reverseInsertOrder))
    THEN Result(keep(op1.n, "none"), NoOp, op2)
    ELSE Result(op2, op1, NoOp)

followOps(op1, op2, reverseInsertOrder) ==
    LET k == Shorter(op1, op2) IN
    IF op1.opcode = "+" \/ op2.opcode = "+" THEN followInsert(op1, op2, reverseInsertOrder)
    ELSE IF op1.opcode = "" THEN Result(op2, NoOp, NoOp)
    ELSE IF op2.opcode = "" THEN Result(NoOp, NoOp, NoOp)
    ELSE IF op1.opcode = "-" THEN Result(NoOp, From(op1, k), From(op2, k))
    ELSE IF op2.opcode = "-" THEN Result(UpTo(op2, k), From(op1, k), From(op2, k))
    ELSE   Result(keep(k, followAttributes(op1.bold, op2.bold)), From(op1, k), From(op2, k))

follow(cs1, cs2, reverseInsertOrder) ==
    pack(newLen(cs1),
         applyZip(cs1.ops, cs2.ops,
                  LAMBDA op1, op2 : followOps(op1, op2, reverseInsertOrder)))
=============================================================================

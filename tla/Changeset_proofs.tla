--------------------------- MODULE Changeset_proofs ---------------------------
(***************************************************************************)
(* What the changeset algebra does to texts, for every changeset.          *)
(***************************************************************************)
EXTENDS Changeset, SequenceTheorems, WellFoundedInduction, TLAPS

-----------------------------------------------------------------------------
(* What an op does to a text: it takes characters from `in' and puts some  *)
(* out; an op that needs more than is left gets stuck.                     *)

Take(t, n) == SubSeq(t, 1, n)
Drop(t, n) == SubSeq(t, n + 1, Len(t))

\* One character with its attributes, as an op leaves it; a run of text.
StyledCell(c, b) == [char |-> c.char, bold |-> composeAttributes(c.bold, b, FALSE)]
Styled(t, b)     == [i \in 1 .. Len(t) |-> StyledCell(t[i], b)]
CellsOf(text, b) == [i \in 1 .. Len(text) |-> [char |-> text[i], bold |-> b]]

State(o, i) == [out |-> o, in |-> i, ok |-> TRUE]
Stuck       == [out |-> <<>>, in |-> <<>>, ok |-> FALSE]

Act(op, x) ==
    IF op.n = 0 \/ ~x.ok THEN x
    ELSE IF op.opcode = "+" THEN State(x.out \o CellsOf(op.text, op.bold), x.in)
    ELSE IF op.n > Len(x.in) THEN Stuck
    ELSE IF op.opcode = "-" THEN State(x.out, Drop(x.in, op.n))
    ELSE State(x.out \o Styled(Take(x.in, op.n), op.bold), Drop(x.in, op.n))

\* One step of applyZip, for apply and compose and for follow.
Sliced(s) ==
    LET op1 == NextOp(s.op1, s.in1)
        op2 == NextOp(s.op2, s.in2)
    IN  IF op1 = NoOp /\ op2 = NoOp THEN s ELSE Zipped(s, slicerZipperFunc(op1, op2))
Followed(s, reverse) ==
    LET op1 == NextOp(s.op1, s.in1)
        op2 == NextOp(s.op2, s.in2)
    IN  IF op1 = NoOp /\ op2 = NoOp THEN s ELSE Zipped(s, followOps(op1, op2, reverse))

-----------------------------------------------------------------------------
(* Induction, by least counterexample. *)

LEMMA LeastNumber ==
    ASSUME NEW S \in SUBSET Nat, S # {}
    PROVE  \E m \in S : \A n \in S : m <= n
  <1> DEFINE R == OpToRel(<, Nat)
  <1>1. \A x, y \in Nat : <<x, y>> \in R <=> x < y
    BY DEF OpToRel
  <1>2. IsWellFoundedOn(R, Nat)
    BY NatLessThanWellFounded
  <1> HIDE DEF R
  <1>3. PICK m \in S : \A y \in S : <<y, m>> \notin R
    BY <1>2, WFMin
  <1>4. \A y \in S : ~(y < m)
    BY <1>1, <1>3
  <1> QED BY <1>4

LEMMA NumberInduction ==
    ASSUME NEW P, 0 \in P, \A n \in Nat : n \in P => n + 1 \in P
    PROVE  Nat \subseteq P
  <1> DEFINE Bad == {n \in Nat : n \notin P}
  <1>1. SUFFICES ASSUME Bad # {} PROVE FALSE
    OBVIOUS
  <1>2. PICK n \in Bad : \A m \in Bad : n <= m
    <2>1. Bad \in SUBSET Nat
      OBVIOUS
    <2> QED BY <1>1, <2>1, LeastNumber
  <1>3. n # 0 /\ n - 1 \in Nat /\ n - 1 \notin Bad
    BY <1>2
  <1>4. n - 1 \in P /\ (n - 1) + 1 = n
    BY <1>3
  <1>5. n \in P
    BY <1>3, <1>4
  <1> QED BY <1>5

LEMMA SeqInduction ==
    ASSUME NEW S, NEW P, <<>> \in P, \A s \in Seq(S), e \in S : s \in P => Append(s, e) \in P
    PROVE  Seq(S) \subseteq P
  <1> DEFINE N == {n \in Nat : \A s \in Seq(S) : Len(s) = n => s \in P}
  <1>1. 0 \in N
    OBVIOUS
  <1>2. \A n \in Nat : n \in N => n + 1 \in N
    <2> SUFFICES ASSUME NEW n \in Nat, n \in N, NEW s \in Seq(S), Len(s) = n + 1 PROVE s \in P
      OBVIOUS
    <2>1. s # <<>>
      OBVIOUS
    <2>2. PICK t \in Seq(S), e \in S : s = Append(t, e)
      BY <2>1, SequenceEmptyOrAppend
    <2>3. Len(t) = n
      BY <2>2
    <2> QED BY <2>2, <2>3
  <1>3. Nat \subseteq N
    <2> HIDE DEF N
    <2> QED BY <1>1, <1>2, NumberInduction
  <1> QED BY <1>3, LenProperties

-----------------------------------------------------------------------------
(* Recursion. *)

\* A changeset as the list of its ops, a text as the list of its runs, and what
\* is made of either op by op: one step of each recursion, from x to x with e.
Through(kind, e, x) ==
    CASE kind = "reorder"   -> Reordered(x, e)
      [] kind = "merge"     -> Merged(x, e)
      [] kind = "length"    -> x + e.n
      [] kind = "newLen"    -> x + Growth(e)
      [] kind = "concat"    -> x \o e
      [] kind = "typed"     -> x \o e.text
      [] kind = "act"       -> Act(e, x)
      [] kind = "slice"     -> Sliced(x)
      [] kind = "follow"    -> Followed(x, FALSE)
      [] kind = "reverse"   -> Followed(x, TRUE)
      [] kind = "text"      -> applyToAText(e, x)
      [] kind = "changeset" -> follow(e, x, FALSE)

\* f[i] is x after the revisions b + 1 .. i, for i in S.
Carries(f, S, kind, revs, x, b) ==
    f = [i \in S |-> IF i <= b THEN x ELSE Through(kind, revs[i], f[i - 1])]

LEMMA CarriesAt ==
    ASSUME NEW f, NEW S, NEW kind, NEW revs, NEW x, NEW b, Carries(f, S, kind, revs, x, b),
           NEW i \in S
    PROVE  f[i] = IF i <= b THEN x ELSE Through(kind, revs[i], f[i - 1])
  <1> DEFINE h == [j \in S |-> IF j <= b THEN x ELSE Through(kind, revs[j], f[j - 1])]
  <1>1. h[i] = IF i <= b THEN x ELSE Through(kind, revs[i], f[i - 1])
    OBVIOUS
  <1>2. f = h
    BY DEF Carries
  <1> HIDE DEF h
  <1> QED BY <1>1, <1>2

\* Revisions that agree from b + 1 to n carry alike.
LEMMA CarryAlike ==
    ASSUME NEW f, NEW g, NEW S, NEW T, NEW kind, NEW rs, NEW ss, NEW x, NEW b \in Nat, NEW n \in Nat,
           Carries(f, S, kind, rs, x, b), Carries(g, T, kind, ss, x, b),
           0 .. n \subseteq S, 0 .. n \subseteq T, \A i \in b + 1 .. n : rs[i] = ss[i]
    PROVE  f[n] = g[n]
  <1> DEFINE Bad == {i \in 0 .. n : f[i] # g[i]}
  <1>1. SUFFICES ASSUME Bad # {} PROVE FALSE
    OBVIOUS
  <1>2. Bad \in SUBSET Nat
    OBVIOUS
  <1>3. PICK i \in Bad : \A j \in Bad : i <= j
    BY <1>1, <1>2, LeastNumber
  <1>4. i \in 0 .. n /\ i \in S /\ i \in T /\ f[i] # g[i]
    BY <1>3
  <1>5. /\ f[i] = IF i <= b THEN x ELSE Through(kind, rs[i], f[i - 1])
        /\ g[i] = IF i <= b THEN x ELSE Through(kind, ss[i], g[i - 1])
    BY <1>4, CarriesAt
  <1>6. ~(i <= b)
    BY <1>4, <1>5
  <1>7. i - 1 \in 0 .. n /\ i - 1 \notin Bad /\ rs[i] = ss[i]
    BY <1>3, <1>4, <1>6
  <1>8. f[i - 1] = g[i - 1]
    BY <1>7
  <1> QED BY <1>4, <1>5, <1>6, <1>7, <1>8

LEMMA CarryUpTo ==
    ASSUME NEW kind, NEW revs, NEW x, NEW b \in Nat, NEW n \in Nat
    PROVE  \E f : Carries(f, 0 .. n, kind, revs, x, b)
  <1> DEFINE Bad == {i \in Nat : ~ \E f : Carries(f, 0 .. i, kind, revs, x, b)}
  <1>1. SUFFICES ASSUME Bad # {} PROVE FALSE
    OBVIOUS
  <1>2. Bad \in SUBSET Nat
    OBVIOUS
  <1>3. PICK i \in Bad : \A j \in Bad : i <= j
    BY <1>1, <1>2, LeastNumber
  <1>4. i \in Nat /\ ~ \E f : Carries(f, 0 .. i, kind, revs, x, b)
    BY <1>3
  <1>5. i # 0
    <2> DEFINE f == [j \in 0 .. 0 |-> x]
    <2>1. f = [j \in 0 .. 0 |-> IF j <= b THEN x ELSE Through(kind, revs[j], f[j - 1])]
      OBVIOUS
    <2> HIDE DEF f
    <2>2. Carries(f, 0 .. 0, kind, revs, x, b)
      BY <2>1 DEF Carries
    <2> QED BY <1>4, <2>2
  <1>6. PICK f : Carries(f, 0 .. i - 1, kind, revs, x, b)
    <2>1. i - 1 \in Nat /\ i - 1 \notin Bad
      BY <1>3, <1>4, <1>5
    <2> QED BY <2>1
  <1> DEFINE h == [j \in 0 .. i |-> IF j = i THEN IF i <= b THEN x ELSE Through(kind, revs[i], f[i - 1])
                                    ELSE f[j]]
  <1>7. \A j \in 0 .. i : h[j] = IF j <= b THEN x ELSE Through(kind, revs[j], h[j - 1])
    <2> TAKE j \in 0 .. i
    <2>1. CASE j = i
      <3>1. h[i - 1] = f[i - 1]
        BY <1>4, <1>5
      <3>2. h[i] = IF i <= b THEN x ELSE Through(kind, revs[i], f[i - 1])
        BY <1>4
      <3> HIDE DEF h
      <3> QED BY <2>1, <3>1, <3>2
    <2>2. CASE j # i
      <3>1. j \in 0 .. i - 1 /\ h[j] = f[j] /\ (j # 0 => h[j - 1] = f[j - 1]) /\ (j = 0 => j <= b)
        BY <1>4, <2>2
      <3>2. f[j] = IF j <= b THEN x ELSE Through(kind, revs[j], f[j - 1])
        <4> DEFINE S == 0 .. i - 1
        <4> HIDE DEF h
        <4>1. j \in S
          BY <3>1
        <4>2. Carries(f, S, kind, revs, x, b)
          BY <1>6
        <4> HIDE DEF S
        <4> QED BY <4>1, <4>2, CarriesAt
      <3> HIDE DEF h
      <3> QED BY <3>1, <3>2
    <2> QED BY <2>1, <2>2
  <1>8. h = [j \in 0 .. i |-> h[j]]
    OBVIOUS
  <1> HIDE DEF h
  <1>9. Carries(h, 0 .. i, kind, revs, x, b)
    BY <1>7, <1>8 DEF Carries
  <1> QED BY <1>4, <1>9

LEMMA CarryExists ==
    ASSUME NEW kind, NEW revs, NEW x, NEW b \in Nat
    PROVE  \E f : Carries(f, Nat, kind, revs, x, b)
  <1> DEFINE g(n) == CHOOSE f : Carries(f, 0 .. n, kind, revs, x, b)
             h == [n \in Nat |-> g(n)[n]]
  <1>1. \A n \in Nat : Carries(g(n), 0 .. n, kind, revs, x, b)
    BY CarryUpTo
  <1>2. \A n \in Nat : h[n] = g(n)[n]
    OBVIOUS
  <1>3. h = [n \in Nat |-> h[n]]
    OBVIOUS
  <1> HIDE DEF g, h
  <1>4. \A n \in Nat : h[n] = IF n <= b THEN x ELSE Through(kind, revs[n], h[n - 1])
    <2> TAKE n \in Nat
    <2>1. n \in 0 .. n
      OBVIOUS
    <2>2. g(n)[n] = IF n <= b THEN x ELSE Through(kind, revs[n], g(n)[n - 1])
      BY <1>1, <2>1, CarriesAt
    <2>3. ~(n <= b) => g(n)[n - 1] = g(n - 1)[n - 1] /\ n - 1 \in Nat
      <3> SUFFICES ASSUME ~(n <= b) PROVE g(n)[n - 1] = g(n - 1)[n - 1] /\ n - 1 \in Nat
        OBVIOUS
      <3>1. n - 1 \in Nat /\ 0 .. n - 1 \subseteq 0 .. n
        OBVIOUS
      <3>2. Carries(g(n), 0 .. n, kind, revs, x, b) /\ Carries(g(n - 1), 0 .. n - 1, kind, revs, x, b)
        BY <1>1, <3>1
      <3> QED BY <3>1, <3>2, CarryAlike
    <2> QED BY <1>2, <2>2, <2>3
  <1>5. Carries(h, Nat, kind, revs, x, b)
    BY <1>3, <1>4 DEF Carries
  <1> QED BY <1>5
\* The ops of s taken one after the other.
FoldTo(kind, s, x, n) ==
    LET f[i \in Nat] == IF i = 0 THEN x ELSE Through(kind, s[i], f[i - 1]) IN f[n]
Fold(kind, s, x) == FoldTo(kind, s, x, Len(s))

LEMMA FoldCarries ==
    ASSUME NEW kind, NEW s, NEW x
    PROVE  \E f : Carries(f, Nat, kind, s, x, 0) /\ \A n : FoldTo(kind, s, x, n) = f[n]
  <1> DEFINE P(f) == f = [i \in Nat |-> IF i = 0 THEN x ELSE Through(kind, s[i], f[i - 1])]
             g == CHOOSE f : P(f)
  <1>1. \A n : FoldTo(kind, s, x, n) = g[n]
    BY DEF FoldTo
  <1>2. \A f : P(f) <=> Carries(f, Nat, kind, s, x, 0)
    <2> TAKE f
    <2>1. [i \in Nat |-> IF i = 0 THEN x ELSE Through(kind, s[i], f[i - 1])]
          = [i \in Nat |-> IF i <= 0 THEN x ELSE Through(kind, s[i], f[i - 1])]
      OBVIOUS
    <2> QED BY <2>1 DEF Carries
  <1> HIDE DEF P
  <1>3. P(g)
    BY <1>2, CarryExists
  <1> HIDE DEF g
  <1> QED BY <1>1, <1>2, <1>3

LEMMA FoldToFirst ==
    ASSUME NEW kind, NEW s, NEW x
    PROVE  FoldTo(kind, s, x, 0) = x
  <1>1. PICK f : Carries(f, Nat, kind, s, x, 0) /\ \A n : FoldTo(kind, s, x, n) = f[n]
    BY FoldCarries
  <1> QED BY <1>1, CarriesAt

LEMMA FoldToNext ==
    ASSUME NEW kind, NEW s, NEW x, NEW m \in Nat, NEW n, n = m + 1
    PROVE  FoldTo(kind, s, x, n) = Through(kind, s[n], FoldTo(kind, s, x, m))
  <1>1. PICK f : Carries(f, Nat, kind, s, x, 0) /\ \A i : FoldTo(kind, s, x, i) = f[i]
    BY FoldCarries
  <1>2. n \in Nat /\ ~(n <= 0) /\ n - 1 = m
    OBVIOUS
  <1>3. f[n] = Through(kind, s[n], f[n - 1])
    BY <1>1, <1>2, CarriesAt
  <1> QED BY <1>1, <1>2, <1>3

LEMMA FoldToAlike ==
    ASSUME NEW kind, NEW s, NEW t, NEW x, NEW n \in Nat, \A i \in 1 .. n : s[i] = t[i]
    PROVE  FoldTo(kind, s, x, n) = FoldTo(kind, t, x, n)
  <1>1. PICK f : Carries(f, Nat, kind, s, x, 0) /\ \A i : FoldTo(kind, s, x, i) = f[i]
    BY FoldCarries
  <1>2. PICK g : Carries(g, Nat, kind, t, x, 0) /\ \A i : FoldTo(kind, t, x, i) = g[i]
    BY FoldCarries
  <1>3. 0 .. n \subseteq Nat /\ 0 \in Nat /\ \A i \in 0 + 1 .. n : s[i] = t[i]
    OBVIOUS
  <1>4. f[n] = g[n]
    BY <1>1, <1>2, <1>3, CarryAlike
  <1> QED BY <1>1, <1>2, <1>4

LEMMA FoldEmpty ==
    ASSUME NEW kind, NEW x
    PROVE  Fold(kind, <<>>, x) = x
  BY FoldToFirst DEF Fold

LEMMA FoldAppend ==
    ASSUME NEW kind, NEW x, NEW S, NEW s \in Seq(S), NEW e \in S
    PROVE  Fold(kind, Append(s, e), x) = Through(kind, e, Fold(kind, s, x))
  <1> DEFINE t == Append(s, e)
             m == Len(s)
             n == Len(t)
  <1>1. m \in Nat /\ n = m + 1 /\ t[n] = e /\ \A i \in 1 .. m : t[i] = s[i]
    BY AppendProperties
  <1>2. FoldTo(kind, t, x, n) = Through(kind, t[n], FoldTo(kind, t, x, m))
    <2> HIDE DEF t, m, n
    <2> QED BY <1>1, FoldToNext
  <1>3. FoldTo(kind, t, x, m) = FoldTo(kind, s, x, m)
    <2> HIDE DEF t, m, n
    <2> QED BY <1>1, FoldToAlike
  <1> HIDE DEF t, m, n
  <1>4. Fold(kind, t, x) = Through(kind, e, Fold(kind, s, x))
    BY <1>1, <1>2, <1>3 DEF Fold, m, n
  <1> QED BY <1>4 DEF t

LEMMA FoldConcat ==
    ASSUME NEW kind, NEW x, NEW S, NEW s \in Seq(S)
    PROVE  \A t \in Seq(S) : Fold(kind, s \o t, x) = Fold(kind, t, Fold(kind, s, x))
  <1> DEFINE P == {t \in Seq(S) : Fold(kind, s \o t, x) = Fold(kind, t, Fold(kind, s, x))}
  <1>1. <<>> \in P
    <2>1. s \o <<>> = s /\ <<>> \in Seq(S)
      BY ConcatEmptySeq
    <2> QED BY <2>1, FoldEmpty
  <1>2. \A t \in Seq(S), e \in S : t \in P => Append(t, e) \in P
    <2> SUFFICES ASSUME NEW t \in Seq(S), NEW e \in S, t \in P PROVE Append(t, e) \in P
      OBVIOUS
    <2>1. s \o t \in Seq(S) /\ Append(t, e) \in Seq(S)
      BY ConcatProperties, AppendProperties
    <2>2. s \o Append(t, e) = Append(s \o t, e)
      OBVIOUS
    <2>3. Fold(kind, Append(s \o t, e), x) = Through(kind, e, Fold(kind, s \o t, x))
      BY <2>1, FoldAppend
    <2>4. Fold(kind, Append(t, e), Fold(kind, s, x)) = Through(kind, e, Fold(kind, t, Fold(kind, s, x)))
      BY FoldAppend
    <2> QED BY <2>1, <2>2, <2>3, <2>4
  <1> HIDE DEF P
  <1>3. Seq(S) \subseteq P
    BY <1>1, <1>2, SeqInduction
  <1> QED BY <1>3 DEF P

LEMMA FoldOne ==
    ASSUME NEW kind, NEW x, NEW e
    PROVE  Fold(kind, <<e>>, x) = Through(kind, e, x)
  <1> DEFINE S == {e}
             none == <<>>
  <1>1. Append(none, e) = <<e>> /\ none \in Seq(S) /\ e \in S
    OBVIOUS
  <1>2. Fold(kind, none, x) = x
    BY FoldEmpty
  <1> HIDE DEF S, none
  <1>3. Fold(kind, Append(none, e), x) = Through(kind, e, Fold(kind, none, x))
    BY <1>1, FoldAppend
  <1> QED BY <1>1, <1>2, <1>3

LEMMA FoldCons ==
    ASSUME NEW kind, NEW x, NEW S, NEW e \in S, NEW t \in Seq(S)
    PROVE  Fold(kind, <<e>> \o t, x) = Fold(kind, t, Through(kind, e, x))
  <1> DEFINE s == <<e>>
  <1>1. s \in Seq(S)
    OBVIOUS
  <1>2. Fold(kind, s, x) = Through(kind, e, x)
    BY FoldOne
  <1> HIDE DEF s
  <1>3. Fold(kind, s \o t, x) = Fold(kind, t, Fold(kind, s, x))
    BY <1>1, FoldConcat
  <1> QED BY <1>2, <1>3 DEF s

-----------------------------------------------------------------------------
(* Cutting texts. *)

LEMMA TakeDrop ==
    ASSUME NEW S, NEW t \in Seq(S), NEW n \in 0 .. Len(t)
    PROVE  /\ Take(t, n) \in Seq(S) /\ Len(Take(t, n)) = n
           /\ \A i \in 1 .. n : Take(t, n)[i] = t[i]
           /\ Drop(t, n) \in Seq(S) /\ Len(Drop(t, n)) = Len(t) - n
           /\ \A i \in 1 .. Len(t) - n : Drop(t, n)[i] = t[n + i]
           /\ Take(t, n) \o Drop(t, n) = t
  <1>1. \A i \in 1 .. Len(t) : t[i] \in S
    OBVIOUS
  <1>2. /\ Take(t, n) \in Seq(S) /\ Len(Take(t, n)) = n
        /\ \A i \in 1 .. n : Take(t, n)[i] = t[i]
    <2>1. \A i \in 1 .. n : t[i] \in S
      BY <1>1
    <2> QED BY <2>1, SubSeqProperties DEF Take
  <1>3. /\ Drop(t, n) \in Seq(S) /\ Len(Drop(t, n)) = Len(t) - n
        /\ \A i \in 1 .. Len(t) - n : Drop(t, n)[i] = t[n + i]
    <2> DEFINE m == n + 1
               l == Len(t)
    <2>1. m \in Int /\ l \in Int /\ (\A i \in m .. l : t[i] \in S) /\ (m <= l => l - m + 1 = l - n) /\ (~(m <= l) => l - n = 0)
      BY <1>1
    <2> HIDE DEF m, l
    <2>2. /\ SubSeq(t, m, l) \in Seq(S) /\ Len(SubSeq(t, m, l)) = IF m <= l THEN l - m + 1 ELSE 0
          /\ \A i \in 1 .. l - m + 1 : SubSeq(t, m, l)[i] = t[m + i - 1]
      BY <2>1, SubSeqProperties
    <2> QED BY <2>1, <2>2 DEF Drop, m, l
  <1>4. Take(t, n) \o Drop(t, n) = t
    <2> DEFINE p == Take(t, n)
               q == Drop(t, n)
    <2>1. p \in Seq(S) /\ q \in Seq(S) /\ Len(p) = n /\ Len(q) = Len(t) - n
      BY <1>2, <1>3
    <2>2. /\ p \o q \in Seq(S) /\ Len(p \o q) = Len(t)
          /\ \A i \in 1 .. Len(t) : (p \o q)[i] = IF i <= n THEN p[i] ELSE q[i - n]
      <3> HIDE DEF p, q
      <3> QED BY <2>1, ConcatProperties
    <2>3. \A i \in 1 .. Len(t) : (p \o q)[i] = t[i]
      <3> TAKE i \in 1 .. Len(t)
      <3>1. CASE i <= n
        BY <1>2, <2>2, <3>1
      <3>2. CASE ~(i <= n)
        <4>1. i - n \in 1 .. Len(t) - n /\ n + (i - n) = i
          BY <3>2
        <4> QED BY <1>3, <2>2, <3>2, <4>1
      <3> QED BY <3>1, <3>2
    <2> HIDE DEF p, q
    <2>4. p \o q = t
      BY <2>2, <2>3, SeqEqual
    <2> QED BY <2>4 DEF p, q
  <1> QED BY <1>2, <1>3, <1>4

\* Cutting after what has been put before, and inside it.
LEMMA CutConcat ==
    ASSUME NEW S, NEW p \in Seq(S), NEW q \in Seq(S), NEW n \in 0 .. Len(p)
    PROVE  /\ Take(p \o q, n) = Take(p, n) /\ Drop(p \o q, n) = Drop(p, n) \o q
           /\ n = Len(p) => Take(p \o q, n) = p /\ Drop(p \o q, n) = q
  <1> DEFINE t == p \o q
  <1>1. /\ t \in Seq(S) /\ Len(t) = Len(p) + Len(q)
        /\ \A i \in 1 .. Len(p) + Len(q) : t[i] = IF i <= Len(p) THEN p[i] ELSE q[i - Len(p)]
    BY ConcatProperties
  <1>2. n \in 0 .. Len(t) /\ Len(p) \in Nat /\ Len(q) \in Nat
    BY <1>1
  <1> HIDE DEF t
  <1>3. /\ Take(t, n) \in Seq(S) /\ Len(Take(t, n)) = n /\ \A i \in 1 .. n : Take(t, n)[i] = t[i]
        /\ Drop(t, n) \in Seq(S) /\ Len(Drop(t, n)) = Len(t) - n
        /\ \A i \in 1 .. Len(t) - n : Drop(t, n)[i] = t[n + i]
    BY <1>1, <1>2, TakeDrop
  <1>4. /\ Take(p, n) \in Seq(S) /\ Len(Take(p, n)) = n /\ \A i \in 1 .. n : Take(p, n)[i] = p[i]
        /\ Drop(p, n) \in Seq(S) /\ Len(Drop(p, n)) = Len(p) - n
        /\ \A i \in 1 .. Len(p) - n : Drop(p, n)[i] = p[n + i]
        /\ Take(p, n) \o Drop(p, n) = p
    BY TakeDrop
  <1>5. Take(t, n) = Take(p, n)
    <2>1. \A i \in 1 .. n : Take(t, n)[i] = Take(p, n)[i]
      BY <1>1, <1>2, <1>3, <1>4
    <2> QED BY <1>3, <1>4, <2>1, SeqEqual
  <1>6. Drop(t, n) = Drop(p, n) \o q
    <2> DEFINE d == Drop(p, n)
    <2>1. /\ d \o q \in Seq(S) /\ Len(d \o q) = Len(t) - n
          /\ \A i \in 1 .. Len(t) - n : (d \o q)[i] = IF i <= Len(p) - n THEN d[i] ELSE q[i - (Len(p) - n)]
      <3>1. d \in Seq(S) /\ Len(d) = Len(p) - n
        BY <1>4
      <3> HIDE DEF d
      <3>2. /\ d \o q \in Seq(S) /\ Len(d \o q) = Len(d) + Len(q)
            /\ \A i \in 1 .. Len(d) + Len(q) : (d \o q)[i] = IF i <= Len(d) THEN d[i] ELSE q[i - Len(d)]
        BY <3>1, ConcatProperties
      <3>3. Len(d) + Len(q) = Len(t) - n
        BY <1>1, <1>2, <3>1
      <3> QED BY <3>1, <3>2, <3>3
    <2>2. \A i \in 1 .. Len(t) - n : Drop(t, n)[i] = (d \o q)[i]
      <3> TAKE i \in 1 .. Len(t) - n
      <3>1. Drop(t, n)[i] = t[n + i] /\ n + i \in 1 .. Len(p) + Len(q)
        BY <1>1, <1>2, <1>3
      <3>2. CASE i <= Len(p) - n
        <4>1. d[i] = p[n + i]
          BY <1>2, <1>4, <3>2
        <4> QED BY <1>1, <1>2, <2>1, <3>1, <3>2, <4>1
      <3>3. CASE ~(i <= Len(p) - n)
        <4>1. ~(n + i <= Len(p)) /\ (n + i) - Len(p) = i - (Len(p) - n)
          BY <1>2, <3>3
        <4> QED BY <1>1, <1>2, <2>1, <3>1, <3>3, <4>1
      <3> QED BY <3>2, <3>3
    <2> HIDE DEF d
    <2>3. Drop(t, n) = d \o q
      BY <1>3, <2>1, <2>2, SeqEqual
    <2> QED BY <2>3 DEF d
  <1>7. n = Len(p) => Take(p, n) = p /\ Drop(p, n) \o q = q
    <2> SUFFICES ASSUME n = Len(p) PROVE Take(p, n) = p /\ Drop(p, n) \o q = q
      OBVIOUS
    <2>1. Drop(p, n) = <<>>
      BY <1>4
    <2>2. Take(p, n) = p
      BY <1>4, <2>1, ConcatEmptySeq
    <2> QED BY <2>1, <2>2, ConcatEmptySeq
  <1> QED BY <1>5, <1>6, <1>7 DEF t

-----------------------------------------------------------------------------
(* Styles. *)

Cells(C) == [char : C, bold : Bolds]

\* A style set on what is set to a style, and on what has a style.
BothStyles(a, b) == composeAttributes(a, b, TRUE)
SetStyle(a, b)   == composeAttributes(a, b, FALSE)

LEMMA StyledCellLaws ==
    ASSUME NEW C, NEW c \in Cells(C), NEW a \in Bolds, NEW b \in Bolds
    PROVE  /\ StyledCell(c, a) \in Cells(C)
           /\ StyledCell(c, "none") = c
           /\ StyledCell(StyledCell(c, a), b) = StyledCell(c, BothStyles(a, b))
           /\ BothStyles(a, b) \in Bolds /\ SetStyle(a, b) \in Bolds
           /\ followAttributes(a, b) \in Bolds
           /\ StyledCell(StyledCell(c, a), followAttributes(a, b)) \in {StyledCell(c, a), StyledCell(c, b)}
           /\ StyledCell(StyledCell(c, a), followAttributes(a, b))
                = StyledCell(StyledCell(c, b), followAttributes(b, a))
  BY DEF StyledCell, Cells, Bolds, BothStyles, SetStyle, composeAttributes, followAttributes

LEMMA CellsConcat ==
    ASSUME NEW C, NEW p \in Seq(Cells(C)), NEW q \in Seq(Cells(C))
    PROVE  p \o q \in Seq(Cells(C)) /\ Len(p \o q) = Len(p) + Len(q)
  <1> DEFINE S == Cells(C)
  <1>1. p \in Seq(S) /\ q \in Seq(S)
    OBVIOUS
  <1> HIDE DEF S
  <1>2. p \o q \in Seq(S) /\ Len(p \o q) = Len(p) + Len(q)
    BY <1>1, ConcatProperties
  <1> QED BY <1>2 DEF S

LEMMA StyledSeq ==
    ASSUME NEW C, NEW t \in Seq(Cells(C)), NEW b \in Bolds
    PROVE  /\ Styled(t, b) \in Seq(Cells(C)) /\ Len(Styled(t, b)) = Len(t)
           /\ \A i \in 1 .. Len(t) : Styled(t, b)[i] = StyledCell(t[i], b)
  <1>1. \A i \in 1 .. Len(t) : t[i] \in Cells(C)
    OBVIOUS
  <1>2. \A i \in 1 .. Len(t) : StyledCell(t[i], b) \in Cells(C)
    BY <1>1, StyledCellLaws
  <1>3. Len(t) \in Nat
    OBVIOUS
  <1> QED BY <1>2, <1>3 DEF Styled

LEMMA StyledNot ==
    ASSUME NEW C, NEW t \in Seq(Cells(C))
    PROVE  Styled(t, "none") = t
  <1> DEFINE u == Styled(t, "none")
  <1>1. "none" \in Bolds
    BY DEF Bolds
  <1>2. u \in Seq(Cells(C)) /\ Len(u) = Len(t) /\ \A i \in 1 .. Len(t) : u[i] = StyledCell(t[i], "none")
    BY <1>1, StyledSeq
  <1> HIDE DEF u
  <1>3. \A i \in 1 .. Len(u) : u[i] = t[i]
    <2> TAKE i \in 1 .. Len(u)
    <2>1. t[i] \in Cells(C) /\ i \in 1 .. Len(t)
      BY <1>2
    <2> QED BY <1>1, <1>2, <2>1, StyledCellLaws
  <1>4. u = t
    BY <1>2, <1>3, SeqEqual
  <1> QED BY <1>4 DEF u

LEMMA StyledConcat ==
    ASSUME NEW C, NEW p \in Seq(Cells(C)), NEW q \in Seq(Cells(C)), NEW b \in Bolds
    PROVE  Styled(p \o q, b) = Styled(p, b) \o Styled(q, b)
  <1> DEFINE t == p \o q
             u == Styled(t, b)
             v == Styled(p, b)
             w == Styled(q, b)
  <1>1. /\ t \in Seq(Cells(C)) /\ Len(t) = Len(p) + Len(q)
        /\ \A i \in 1 .. Len(p) + Len(q) : t[i] = IF i <= Len(p) THEN p[i] ELSE q[i - Len(p)]
    BY ConcatProperties
  <1> HIDE DEF t
  <1>2. /\ u \in Seq(Cells(C)) /\ Len(u) = Len(t) /\ \A i \in 1 .. Len(t) : u[i] = StyledCell(t[i], b)
        /\ v \in Seq(Cells(C)) /\ Len(v) = Len(p) /\ \A i \in 1 .. Len(p) : v[i] = StyledCell(p[i], b)
        /\ w \in Seq(Cells(C)) /\ Len(w) = Len(q) /\ \A i \in 1 .. Len(q) : w[i] = StyledCell(q[i], b)
    BY <1>1, StyledSeq
  <1> HIDE DEF u, v, w
  <1>3. /\ v \o w \in Seq(Cells(C)) /\ Len(v \o w) = Len(v) + Len(w)
        /\ \A i \in 1 .. Len(v) + Len(w) : (v \o w)[i] = IF i <= Len(v) THEN v[i] ELSE w[i - Len(v)]
    <2>1. v \in Seq(Cells(C)) /\ w \in Seq(Cells(C))
      BY <1>2
    <2> QED BY <2>1, ConcatProperties
  <1>4. Len(p) \in Nat /\ Len(q) \in Nat
    OBVIOUS
  <1>5. \A i \in 1 .. Len(u) : u[i] = (v \o w)[i]
    <2> TAKE i \in 1 .. Len(u)
    <2>1. CASE i <= Len(p)
      BY <1>1, <1>2, <1>3, <1>4, <2>1
    <2>2. CASE ~(i <= Len(p))
      <3>1. i - Len(p) \in 1 .. Len(q)
        BY <1>1, <1>2, <1>4, <2>2
      <3> QED BY <1>1, <1>2, <1>3, <1>4, <2>2, <3>1
    <2> QED BY <2>1, <2>2
  <1>6. u \in Seq(Cells(C)) /\ v \o w \in Seq(Cells(C)) /\ Len(u) = Len(v \o w)
    BY <1>1, <1>2, <1>3
  <1>7. u = v \o w
    BY <1>5, <1>6, SeqEqual
  <1> QED BY <1>7 DEF t, u, v, w

LEMMA StyledTwice ==
    ASSUME NEW C, NEW t \in Seq(Cells(C)), NEW a \in Bolds, NEW b \in Bolds
    PROVE  Styled(Styled(t, a), b) = Styled(t, BothStyles(a, b))
  <1> DEFINE u == Styled(t, a)
             c == BothStyles(a, b)
  <1>1. c \in Bolds
    BY DEF Bolds, BothStyles, composeAttributes
  <1>2. u \in Seq(Cells(C)) /\ Len(u) = Len(t) /\ \A i \in 1 .. Len(t) : u[i] = StyledCell(t[i], a)
    BY StyledSeq
  <1>3. \A i \in 1 .. Len(t) : StyledCell(StyledCell(t[i], a), b) = StyledCell(t[i], c)
    <2> TAKE i \in 1 .. Len(t)
    <2> DEFINE x == t[i]
    <2>1. x \in Cells(C)
      OBVIOUS
    <2> HIDE DEF x
    <2>2. StyledCell(StyledCell(x, a), b) = StyledCell(x, BothStyles(a, b))
      BY <2>1, StyledCellLaws
    <2> QED BY <2>2 DEF x
  <1> HIDE DEF u, c
  <1>4. [i \in 1 .. Len(u) |-> StyledCell(u[i], b)] = [i \in 1 .. Len(t) |-> StyledCell(t[i], c)]
    BY <1>2, <1>3
  <1>5. Styled(u, b) = Styled(t, c)
    BY <1>4 DEF Styled
  <1> QED BY <1>5 DEF u, c

\* The attribute law of follow: two styles set at once merge to one of the two,
\* the same in either order.
LEMMA StyledMerges ==
    ASSUME NEW C, NEW G \in SUBSET Cells(C), NEW t \in Seq(G), NEW a \in Bolds, NEW b \in Bolds,
           Styled(t, a) \in Seq(G), Styled(t, b) \in Seq(G)
    PROVE  /\ Styled(Styled(t, a), followAttributes(a, b)) \in Seq(G)
           /\ Styled(Styled(t, a), followAttributes(a, b)) = Styled(Styled(t, b), followAttributes(b, a))
  <1> DEFINE u == Styled(t, a)
             v == Styled(t, b)
             f == followAttributes(a, b)
             g == followAttributes(b, a)
  <1>1. f \in Bolds /\ g \in Bolds
    BY DEF Bolds, followAttributes
  <1>2. t \in Seq(Cells(C))
    BY SeqMonotonic
  <1>3. /\ u \in Seq(Cells(C)) /\ Len(u) = Len(t) /\ \A i \in 1 .. Len(t) : u[i] = StyledCell(t[i], a)
        /\ v \in Seq(Cells(C)) /\ Len(v) = Len(t) /\ \A i \in 1 .. Len(t) : v[i] = StyledCell(t[i], b)
    BY <1>2, StyledSeq
  <1>4. \A i \in 1 .. Len(t) : /\ StyledCell(StyledCell(t[i], a), f) = StyledCell(StyledCell(t[i], b), g)
                               /\ StyledCell(StyledCell(t[i], a), f) \in {StyledCell(t[i], a), StyledCell(t[i], b)}
    <2> TAKE i \in 1 .. Len(t)
    <2> DEFINE x == t[i]
    <2>1. x \in Cells(C)
      BY <1>2
    <2> HIDE DEF x
    <2>2. /\ StyledCell(StyledCell(x, a), followAttributes(a, b)) \in {StyledCell(x, a), StyledCell(x, b)}
          /\ StyledCell(StyledCell(x, a), followAttributes(a, b))
               = StyledCell(StyledCell(x, b), followAttributes(b, a))
      BY <2>1, StyledCellLaws
    <2> QED BY <2>2 DEF x
  <1>5. u \in Seq(G) /\ v \in Seq(G)
    OBVIOUS
  <1> HIDE DEF u, v, f, g
  <1>6. [i \in 1 .. Len(u) |-> StyledCell(u[i], f)] = [i \in 1 .. Len(v) |-> StyledCell(v[i], g)]
    BY <1>3, <1>4
  <1>7. \A i \in 1 .. Len(u) : StyledCell(u[i], f) \in G
    <2> TAKE i \in 1 .. Len(u)
    <2>1. u[i] \in G /\ v[i] \in G /\ i \in 1 .. Len(t)
      BY <1>3, <1>5
    <2> QED BY <1>3, <1>4, <2>1
  <1>8. Len(u) \in Nat
    BY <1>3
  <1>9. Styled(u, f) \in Seq(G)
    BY <1>7, <1>8 DEF Styled
  <1>10. Styled(u, f) = Styled(v, g)
    BY <1>6 DEF Styled
  <1> QED BY <1>9, <1>10 DEF u, v, f, g

\* Inserted text.
LEMMA CellsOfSeq ==
    ASSUME NEW C, NEW t \in Seq(C), NEW b \in Bolds
    PROVE  /\ CellsOf(t, b) \in Seq(Cells(C)) /\ Len(CellsOf(t, b)) = Len(t)
           /\ \A i \in 1 .. Len(t) : CellsOf(t, b)[i] = [char |-> t[i], bold |-> b]
  <1>1. \A i \in 1 .. Len(t) : [char |-> t[i], bold |-> b] \in Cells(C)
    BY DEF Cells
  <1>2. Len(t) \in Nat
    OBVIOUS
  <1> QED BY <1>1, <1>2 DEF CellsOf

LEMMA CellsOfConcat ==
    ASSUME NEW C, NEW p \in Seq(C), NEW q \in Seq(C), NEW b \in Bolds
    PROVE  CellsOf(p \o q, b) = CellsOf(p, b) \o CellsOf(q, b)
  <1> DEFINE t == p \o q
             u == CellsOf(t, b)
             v == CellsOf(p, b)
             w == CellsOf(q, b)
  <1>1. /\ t \in Seq(C) /\ Len(t) = Len(p) + Len(q)
        /\ \A i \in 1 .. Len(p) + Len(q) : t[i] = IF i <= Len(p) THEN p[i] ELSE q[i - Len(p)]
    BY ConcatProperties
  <1> HIDE DEF t
  <1>2. /\ u \in Seq(Cells(C)) /\ Len(u) = Len(t) /\ \A i \in 1 .. Len(t) : u[i] = [char |-> t[i], bold |-> b]
        /\ v \in Seq(Cells(C)) /\ Len(v) = Len(p) /\ \A i \in 1 .. Len(p) : v[i] = [char |-> p[i], bold |-> b]
        /\ w \in Seq(Cells(C)) /\ Len(w) = Len(q) /\ \A i \in 1 .. Len(q) : w[i] = [char |-> q[i], bold |-> b]
    BY <1>1, CellsOfSeq
  <1> HIDE DEF u, v, w
  <1>3. /\ v \o w \in Seq(Cells(C)) /\ Len(v \o w) = Len(v) + Len(w)
        /\ \A i \in 1 .. Len(v) + Len(w) : (v \o w)[i] = IF i <= Len(v) THEN v[i] ELSE w[i - Len(v)]
    <2>1. v \in Seq(Cells(C)) /\ w \in Seq(Cells(C))
      BY <1>2
    <2> QED BY <2>1, ConcatProperties
  <1>4. Len(p) \in Nat /\ Len(q) \in Nat
    OBVIOUS
  <1>5. \A i \in 1 .. Len(u) : u[i] = (v \o w)[i]
    <2> TAKE i \in 1 .. Len(u)
    <2>1. CASE i <= Len(p)
      BY <1>1, <1>2, <1>3, <1>4, <2>1
    <2>2. CASE ~(i <= Len(p))
      <3>1. i - Len(p) \in 1 .. Len(q)
        BY <1>1, <1>2, <1>4, <2>2
      <3> QED BY <1>1, <1>2, <1>3, <1>4, <2>2, <3>1
    <2> QED BY <2>1, <2>2
  <1>6. u \in Seq(Cells(C)) /\ v \o w \in Seq(Cells(C)) /\ Len(u) = Len(v \o w)
    BY <1>1, <1>2, <1>3
  <1>7. u = v \o w
    BY <1>5, <1>6, SeqEqual
  <1> QED BY <1>7 DEF t, u, v, w

LEMMA CellsOfStyled ==
    ASSUME NEW C, NEW t \in Seq(C), NEW a \in Bolds, NEW b \in Bolds
    PROVE  Styled(CellsOf(t, a), b) = CellsOf(t, SetStyle(a, b))
  <1> DEFINE u == CellsOf(t, a)
  <1>1. Len(u) = Len(t) /\ \A i \in 1 .. Len(t) : u[i] = [char |-> t[i], bold |-> a]
    BY CellsOfSeq
  <1> HIDE DEF u
  <1>2. \A i \in 1 .. Len(t) : StyledCell(u[i], b) = [char |-> t[i], bold |-> SetStyle(a, b)]
    <2> TAKE i \in 1 .. Len(t)
    <2>1. u[i] = [char |-> t[i], bold |-> a]
      BY <1>1
    <2>2. u[i].char = t[i] /\ u[i].bold = a
      BY <2>1
    <2> QED BY <2>2 DEF StyledCell, SetStyle
  <1>3. Styled(u, b) = CellsOf(t, SetStyle(a, b))
    BY <1>1, <1>2 DEF Styled, CellsOf
  <1> QED BY <1>3 DEF u

-----------------------------------------------------------------------------
(* Ops, and what one of them does. *)

Ops(C) ==
    {op \in [opcode : {"+", "-", "="}, n : Nat \ {0}, text : Seq(C), bold : Bolds] :
        /\ IF op.opcode = "+" THEN Len(op.text) = op.n ELSE op.text = <<>>
        /\ op.opcode = "-" => op.bold = "none"}

\* Assemblers are also given ops of no characters.
Loose(C) == Ops(C) \cup [opcode : {"", "+", "-", "="}, n : {0}, text : {<<>>}, bold : Bolds]

States(C) == {x \in [out : Seq(Cells(C)), in : Seq(Cells(C)), ok : BOOLEAN] : x.ok \/ x = Stuck}

\* x with o put out before, and r left behind what is left.
Extended(o, x, r) == IF x.ok THEN State(o \o x.out, x.in \o r) ELSE Stuck

LEMMA OpFields ==
    ASSUME NEW C, NEW op \in Ops(C)
    PROVE  /\ op.opcode \in {"+", "-", "="} /\ op.n \in Nat /\ op.n # 0 /\ op.n >= 1
           /\ op.text \in Seq(C) /\ op.bold \in Bolds
           /\ op.opcode = "+" => Len(op.text) = op.n
           /\ op.opcode # "+" => op.text = <<>>
           /\ op.opcode = "-" => op.bold = "none"
           /\ op = [opcode |-> op.opcode, n |-> op.n, text |-> op.text, bold |-> op.bold]
           /\ op # NoOp
           /\ op \in Loose(C)
  <1>1. op \in [opcode : {"+", "-", "="}, n : Nat \ {0}, text : Seq(C), bold : Bolds]
    BY DEF Ops
  <1>2. /\ op.opcode \in {"+", "-", "="} /\ op.n \in Nat /\ op.n # 0 /\ op.n >= 1
        /\ op.text \in Seq(C) /\ op.bold \in Bolds
        /\ op = [opcode |-> op.opcode, n |-> op.n, text |-> op.text, bold |-> op.bold]
    BY <1>1
  <1>3. op # NoOp
    <2>1. NoOp.n = 0
      BY DEF NoOp
    <2> QED BY <1>2, <2>1
  <1>4. /\ op.opcode = "+" => Len(op.text) = op.n
        /\ op.opcode # "+" => op.text = <<>>
        /\ op.opcode = "-" => op.bold = "none"
    BY DEF Ops
  <1>5. op \in Loose(C)
    BY DEF Loose
  <1> QED BY <1>2, <1>3, <1>4, <1>5

LEMMA LooseFields ==
    ASSUME NEW C, NEW op \in Loose(C)
    PROVE  /\ op.n \in Nat /\ op.text \in Seq(C) /\ op.bold \in Bolds
           /\ op.n = 0 => op.text = <<>>
           /\ op.n # 0 => op \in Ops(C)
  <1>1. CASE op \in Ops(C)
    BY <1>1, OpFields
  <1>2. CASE op \in [opcode : {"", "+", "-", "="}, n : {0}, text : {<<>>}, bold : Bolds]
    <2>1. op.n = 0 /\ op.text = <<>> /\ op.bold \in Bolds
      BY <1>2
    <2> QED BY <2>1
  <1> QED BY <1>1, <1>2 DEF Loose

LEMMA StateFields ==
    \A o, i : State(o, i).out = o /\ State(o, i).in = i /\ State(o, i).ok = TRUE
  BY DEF State

LEMMA StuckFields == Stuck.ok = FALSE /\ Stuck.out = <<>> /\ Stuck.in = <<>>
  BY DEF Stuck

LEMMA StateTyped ==
    ASSUME NEW C, NEW o \in Seq(Cells(C)), NEW i \in Seq(Cells(C))
    PROVE  State(o, i) \in States(C)
  BY DEF State, States

LEMMA StateIs ==
    ASSUME NEW C, NEW x \in States(C)
    PROVE  /\ x.ok => x = State(x.out, x.in)
           /\ ~x.ok => x = Stuck
           /\ x.out \in Seq(Cells(C)) /\ x.in \in Seq(Cells(C)) /\ x.ok \in BOOLEAN
  BY DEF State, States

LEMMA ActNothing ==
    ASSUME NEW op, NEW x, op.n = 0 \/ ~x.ok
    PROVE  Act(op, x) = x
  BY DEF Act

LEMMA ActInsert ==
    ASSUME NEW C, NEW op \in Ops(C), op.opcode = "+", NEW o, NEW i
    PROVE  Act(op, State(o, i)) = State(o \o CellsOf(op.text, op.bold), i)
  <1> DEFINE x == State(o, i)
  <1>1. op.n # 0
    BY OpFields
  <1>2. x.ok = TRUE /\ x.out = o /\ x.in = i
    BY StateFields
  <1> HIDE DEF x
  <1>3. Act(op, x) = State(x.out \o CellsOf(op.text, op.bold), x.in)
    BY <1>1, <1>2 DEF Act
  <1> QED BY <1>2, <1>3 DEF x

LEMMA ActRemove ==
    ASSUME NEW C, NEW op \in Ops(C), op.opcode = "-", NEW o, NEW i
    PROVE  Act(op, State(o, i)) = IF op.n > Len(i) THEN Stuck ELSE State(o, Drop(i, op.n))
  <1> DEFINE x == State(o, i)
  <1>1. op.n # 0
    BY OpFields
  <1>2. x.ok = TRUE /\ x.out = o /\ x.in = i
    BY StateFields
  <1> HIDE DEF x
  <1>3. Act(op, x) = IF op.n > Len(x.in) THEN Stuck ELSE State(x.out, Drop(x.in, op.n))
    BY <1>1, <1>2 DEF Act
  <1> QED BY <1>2, <1>3 DEF x

LEMMA ActKeep ==
    ASSUME NEW C, NEW op \in Ops(C), op.opcode = "=", NEW o, NEW i
    PROVE  Act(op, State(o, i)) = IF op.n > Len(i) THEN Stuck
                                  ELSE State(o \o Styled(Take(i, op.n), op.bold), Drop(i, op.n))
  <1> DEFINE x == State(o, i)
  <1>1. op.n # 0
    BY OpFields
  <1>2. x.ok = TRUE /\ x.out = o /\ x.in = i
    BY StateFields
  <1> HIDE DEF x
  <1>3. Act(op, x) = IF op.n > Len(x.in) THEN Stuck
                         ELSE State(x.out \o Styled(Take(x.in, op.n), op.bold), Drop(x.in, op.n))
    BY <1>1, <1>2 DEF Act
  <1> QED BY <1>2, <1>3 DEF x

LEMMA ActTyped ==
    ASSUME NEW C, NEW op \in Loose(C), NEW x \in States(C)
    PROVE  Act(op, x) \in States(C)
  <1> DEFINE o == x.out
             i == x.in
  <1>1. SUFFICES ASSUME op.n # 0, x.ok PROVE Act(op, x) \in States(C)
    BY ActNothing
  <1>2. op \in Ops(C) /\ x = State(o, i) /\ o \in Seq(Cells(C)) /\ i \in Seq(Cells(C))
    BY <1>1, LooseFields, StateIs
  <1> HIDE DEF o, i
  <1>3. op.opcode \in {"+", "-", "="} /\ op.n \in Nat /\ op.text \in Seq(C) /\ op.bold \in Bolds
    BY <1>2, OpFields
  <1>4. CASE op.opcode = "+"
    <2>1. CellsOf(op.text, op.bold) \in Seq(Cells(C))
      BY <1>3, CellsOfSeq
    <2>2. o \o CellsOf(op.text, op.bold) \in Seq(Cells(C))
      BY <1>2, <2>1, CellsConcat
    <2>3. Act(op, x) = State(o \o CellsOf(op.text, op.bold), i)
      BY <1>2, <1>4, ActInsert
    <2> QED BY <1>2, <2>2, <2>3, StateTyped
  <1>5. CASE op.opcode \in {"-", "="} /\ ~(op.n > Len(i))
    <2>1. op.n \in 0 .. Len(i)
      BY <1>2, <1>3, <1>5
    <2>2. Take(i, op.n) \in Seq(Cells(C)) /\ Drop(i, op.n) \in Seq(Cells(C))
      BY <1>2, <2>1, TakeDrop
    <2>3. Styled(Take(i, op.n), op.bold) \in Seq(Cells(C))
      BY <1>3, <2>2, StyledSeq
    <2>4. o \o Styled(Take(i, op.n), op.bold) \in Seq(Cells(C))
      BY <1>2, <2>3, CellsConcat
    <2>5. CASE op.opcode = "-"
      <3>1. Act(op, x) = State(o, Drop(i, op.n))
        BY <1>2, <1>5, <2>5, ActRemove
      <3> QED BY <1>2, <2>2, <3>1, StateTyped
    <2>6. CASE op.opcode = "="
      <3>1. Act(op, x) = State(o \o Styled(Take(i, op.n), op.bold), Drop(i, op.n))
        BY <1>2, <1>5, <2>6, ActKeep
      <3> QED BY <2>2, <2>4, <3>1, StateTyped
    <2> QED BY <1>5, <2>5, <2>6
  <1>6. CASE op.opcode \in {"-", "="} /\ op.n > Len(i)
    <2>1. Act(op, x) = Stuck
      BY <1>2, <1>6, ActRemove, ActKeep
    <2> QED BY <2>1 DEF Stuck, States
  <1> QED BY <1>3, <1>4, <1>5, <1>6

\* Once stuck, an op does nothing.
LEMMA ActOk ==
    ASSUME NEW op, NEW x, Act(op, x).ok
    PROVE  x.ok
  BY DEF Act

\* The facts about sequences, for texts.
LEMMA CellsAssoc ==
    ASSUME NEW C, NEW p \in Seq(Cells(C)), NEW q \in Seq(Cells(C)), NEW r \in Seq(Cells(C))
    PROVE  (p \o q) \o r = p \o (q \o r) /\ <<>> \in Seq(Cells(C)) /\ p \o <<>> = p /\ <<>> \o p = p
  <1> DEFINE S == Cells(C)
  <1>1. p \in Seq(S) /\ q \in Seq(S) /\ r \in Seq(S)
    OBVIOUS
  <1> HIDE DEF S
  <1>2. (p \o q) \o r = p \o (q \o r)
    BY <1>1, ConcatAssociative
  <1>3. p \o <<>> = p /\ <<>> \o p = p
    BY <1>1, ConcatEmptySeq
  <1> QED BY <1>2, <1>3

\* The same without what texts are made of, which the provers need not know.
Texts(C)  == Seq(Cells(C))
Nil       == <<>>
Cat(p, q) == p \o q

LEMMA CatLaws ==
    ASSUME NEW C, NEW p \in Texts(C), NEW q \in Texts(C), NEW r \in Texts(C)
    PROVE  /\ Cat(p, q) \in Texts(C) /\ Cat(Cat(p, q), r) = Cat(p, Cat(q, r))
           /\ Cat(Nil, p) = p /\ Cat(p, Nil) = p
  BY CellsConcat, CellsAssoc DEF Texts, Cat, Nil

LEMMA StyledCat ==
    ASSUME NEW C, NEW p \in Texts(C), NEW q \in Texts(C), NEW b \in Bolds
    PROVE  Styled(Cat(p, q), b) = Cat(Styled(p, b), Styled(q, b))
  BY StyledConcat DEF Texts, Cat

LEMMA CellsOfCat ==
    ASSUME NEW C, NEW p \in Seq(C), NEW q \in Seq(C), NEW b \in Bolds
    PROVE  CellsOf(Cat(p, q), b) = Cat(CellsOf(p, b), CellsOf(q, b))
  BY CellsOfConcat DEF Cat

LEMMA CellsCut ==
    ASSUME NEW C, NEW t \in Seq(Cells(C)), NEW n \in Nat, ~(n > Len(t))
    PROVE  /\ Take(t, n) \in Seq(Cells(C)) /\ Len(Take(t, n)) = n
           /\ Drop(t, n) \in Seq(Cells(C)) /\ Len(Drop(t, n)) = Len(t) - n
           /\ Take(t, n) \o Drop(t, n) = t
  <1> DEFINE S == Cells(C)
  <1>1. t \in Seq(S) /\ n \in 0 .. Len(t)
    OBVIOUS
  <1> HIDE DEF S
  <1>2. /\ Take(t, n) \in Seq(S) /\ Len(Take(t, n)) = n
        /\ Drop(t, n) \in Seq(S) /\ Len(Drop(t, n)) = Len(t) - n
        /\ Take(t, n) \o Drop(t, n) = t
    BY <1>1, TakeDrop
  <1> QED BY <1>2 DEF S

LEMMA CellsCutConcat ==
    ASSUME NEW C, NEW p \in Seq(Cells(C)), NEW q \in Seq(Cells(C)), NEW n \in Nat, ~(n > Len(p))
    PROVE  /\ Take(p \o q, n) = Take(p, n) /\ Drop(p \o q, n) = Drop(p, n) \o q
           /\ n = Len(p) => Take(p \o q, n) = p /\ Drop(p \o q, n) = q
  <1> DEFINE S == Cells(C)
  <1>1. p \in Seq(S) /\ q \in Seq(S) /\ n \in 0 .. Len(p)
    OBVIOUS
  <1> HIDE DEF S
  <1> QED BY <1>1, CutConcat

CutsTwice(C, t, a, b, n) ==
    t \in Seq(Cells(C)) /\ a \in Nat /\ b \in Nat /\ n \in Nat /\ n = a + b /\ ~(n > Len(t))
LEMMA CellsCutTwice ==
    ASSUME NEW C, NEW t, NEW a, NEW b, NEW n, CutsTwice(C, t, a, b, n)
    PROVE  /\ ~(a > Len(t)) /\ ~(b > Len(Drop(t, a)))
           /\ Drop(Drop(t, a), b) = Drop(t, n) /\ Take(t, a) \o Take(Drop(t, a), b) = Take(t, n)
  <1> DEFINE p == Take(t, a)
             q == Drop(t, a)
             r == Take(q, b)
             u == Drop(q, b)
  <1>0. t \in Seq(Cells(C)) /\ a \in Nat /\ b \in Nat /\ n \in Nat /\ n = a + b /\ ~(n > Len(t))
    BY DEF CutsTwice
  <1>1. Len(t) \in Nat /\ ~(a > Len(t))
    BY <1>0
  <1>2. p \in Seq(Cells(C)) /\ q \in Seq(Cells(C)) /\ p \o q = t /\ Len(p) = a /\ Len(q) = Len(t) - a
    BY <1>0, <1>1, CellsCut
  <1> HIDE DEF p, q
  <1>3. ~(b > Len(q))
    BY <1>0, <1>1, <1>2
  <1>4. r \in Seq(Cells(C)) /\ u \in Seq(Cells(C)) /\ r \o u = q /\ Len(r) = b
    BY <1>0, <1>2, <1>3, CellsCut
  <1> HIDE DEF r, u
  <1>5. (p \o r) \o u = t
    <2>1. p \in Seq(Cells(C)) /\ r \in Seq(Cells(C)) /\ u \in Seq(Cells(C))
      BY <1>2, <1>4
    <2>2. (p \o r) \o u = p \o (r \o u)
      BY <2>1, CellsAssoc
    <2> QED BY <1>2, <1>4, <2>2
  <1>6. p \o r \in Seq(Cells(C)) /\ Len(p \o r) = n
    <2>1. p \o r \in Seq(Cells(C)) /\ Len(p \o r) = Len(p) + Len(r)
      BY <1>2, <1>4, CellsConcat
    <2> QED BY <1>0, <1>2, <1>4, <2>1
  <1>7. Take((p \o r) \o u, n) = p \o r /\ Drop((p \o r) \o u, n) = u
    <2> DEFINE v == p \o r
    <2>1. v \in Seq(Cells(C)) /\ n = Len(v) /\ ~(n > Len(v))
      BY <1>0, <1>6
    <2> HIDE DEF v
    <2>2. Take(v \o u, n) = v /\ Drop(v \o u, n) = u
      BY <1>0, <1>4, <2>1, CellsCutConcat
    <2> QED BY <2>2 DEF v
  <1>8. Take(t, n) = p \o r /\ Drop(t, n) = u
    BY <1>5, <1>7
  <1> QED BY <1>1, <1>3, <1>8 DEF p, q, r, u

\* What an op does depends neither on what has been put out before, nor, unless
\* it needs that, on what comes behind.
LEMMA ActFrame ==
    ASSUME NEW C, NEW op \in Loose(C), NEW x \in States(C),
           NEW o \in Seq(Cells(C)), NEW r \in Seq(Cells(C)), Act(op, x).ok \/ r = <<>>
    PROVE  Act(op, Extended(o, x, r)) = Extended(o, Act(op, x), r)
  <1> DEFINE p == x.out
             j == x.in
             y == Act(op, x)
  <1>1. CASE op.n = 0
    BY <1>1, ActNothing
  <1>2. CASE ~x.ok
    <2>1. Act(op, x) = x /\ Extended(o, x, r) = Stuck
      BY <1>2, ActNothing DEF Extended
    <2> QED BY <2>1, ActNothing, StuckFields
  <1>3. CASE op.n # 0 /\ x.ok
    <2>1. op \in Ops(C) /\ x = State(p, j) /\ p \in Seq(Cells(C)) /\ j \in Seq(Cells(C))
      BY <1>3, LooseFields, StateIs
    <2>2. op.opcode \in {"+", "-", "="} /\ op.n \in Nat /\ op.text \in Seq(C) /\ op.bold \in Bolds
      BY <2>1, OpFields
    <2>3. Extended(o, x, r) = State(o \o p, j \o r)
      BY <1>3 DEF Extended
    <2> HIDE DEF p, j
    <2>4. \A u, v : Extended(o, State(u, v), r) = State(o \o u, v \o r)
      <3> TAKE u, v
      <3> DEFINE w == State(u, v)
      <3>1. w.ok = TRUE /\ w.out = u /\ w.in = v
        BY StateFields
      <3> HIDE DEF w
      <3>2. Extended(o, w, r) = State(o \o u, v \o r)
        BY <3>1 DEF Extended
      <3> QED BY <3>2 DEF w
    <2>5. Extended(o, Stuck, r) = Stuck
      BY StuckFields DEF Extended
    <2>6. CASE op.opcode = "+"
      <3> DEFINE c == CellsOf(op.text, op.bold)
      <3>1. c \in Seq(Cells(C))
        BY <2>2, CellsOfSeq
      <3>2. Act(op, State(o \o p, j \o r)) = State((o \o p) \o c, j \o r) /\ y = State(p \o c, j)
        BY <2>1, <2>6, ActInsert
      <3> HIDE DEF c, y
      <3>3. (o \o p) \o c = o \o (p \o c)
        <4>1. o \in Texts(C) /\ p \in Texts(C) /\ c \in Texts(C)
          BY <2>1, <3>1 DEF Texts
        <4>2. Cat(Cat(o, p), c) = Cat(o, Cat(p, c))
          BY <4>1, CatLaws
        <4> QED BY <4>2 DEF Cat
      <3> QED BY <2>3, <2>4, <3>2, <3>3 DEF y
    <2>7. CASE op.opcode \in {"-", "="} /\ op.n > Len(j)
      <3>1. Act(op, x) = Stuck
        BY <2>1, <2>7, ActRemove, ActKeep
      <3>2. j \o r = j
        BY <2>1, <3>1, StuckFields, CellsAssoc
      <3>3. Act(op, State(o \o p, j)) = Stuck
        BY <2>1, <2>7, ActRemove, ActKeep
      <3> QED BY <2>3, <2>5, <3>1, <3>2, <3>3
    <2>8. CASE op.opcode \in {"-", "="} /\ ~(op.n > Len(j))
      <3> DEFINE n == op.n
                 t == Take(j, n)
                 d == Drop(j, n)
                 c == Styled(t, op.bold)
                 k == j \o r
      <3>1. t \in Seq(Cells(C)) /\ d \in Seq(Cells(C))
        BY <2>1, <2>2, <2>8, CellsCut
      <3>2. c \in Seq(Cells(C))
        BY <2>2, <3>1, StyledSeq
      <3>3. Take(k, n) = t /\ Drop(k, n) = d \o r
        <4>1. n \in Nat /\ ~(n > Len(j))
          BY <2>2, <2>8
        <4> HIDE DEF n
        <4> QED BY <2>1, <4>1, CellsCutConcat
      <3>4. ~(n > Len(k))
        <4>1. Len(k) = Len(j) + Len(r) /\ Len(j) \in Nat /\ Len(r) \in Nat
          BY <2>1, CellsConcat
        <4> QED BY <2>2, <2>8, <4>1
      <3>5. CASE op.opcode = "-"
        <4>1. y = State(p, d)
          BY <2>1, <2>8, <3>5, ActRemove
        <4>2. Act(op, State(o \o p, k)) = State(o \o p, d \o r)
          BY <2>1, <3>3, <3>4, <3>5, ActRemove
        <4> QED BY <2>3, <2>4, <4>1, <4>2
      <3>6. CASE op.opcode = "="
        <4>1. y = State(p \o c, d)
          BY <2>1, <2>8, <3>6, ActKeep
        <4>2. Act(op, State(o \o p, k)) = State((o \o p) \o c, d \o r)
          BY <2>1, <3>3, <3>4, <3>6, ActKeep
        <4>3. (o \o p) \o c = o \o (p \o c)
          <5>1. o \in Texts(C) /\ p \in Texts(C) /\ c \in Texts(C)
            BY <2>1, <3>2 DEF Texts
          <5>2. Cat(Cat(o, p), c) = Cat(o, Cat(p, c))
            BY <5>1, CatLaws
          <5> QED BY <5>2 DEF Cat
        <4> QED BY <2>3, <2>4, <4>1, <4>2, <4>3
      <3> QED BY <2>8, <3>5, <3>6
    <2> QED BY <2>2, <2>6, <2>7, <2>8
  <1> QED BY <1>1, <1>2, <1>3

-----------------------------------------------------------------------------
(* Ops that are cut, merged and put in order. *)

\* One op for two that do the same.
Joined(a, b) == [b EXCEPT !.n = a.n + b.n, !.text = a.text \o b.text]

LEMMA OpExcept ==
    ASSUME NEW o, NEW m, NEW t, NEW b, NEW op, op = [opcode |-> o, n |-> m, text |-> t, bold |-> b],
           NEW k, NEW u
    PROVE  [op EXCEPT !.n = k, !.text = u] = [opcode |-> o, n |-> k, text |-> u, bold |-> b]
  <1>1. [op EXCEPT !.n = k, !.text = u] = [[op EXCEPT !.n = k] EXCEPT !.text = u]
    OBVIOUS
  <1>2. [op EXCEPT !.n = k] = [opcode |-> o, n |-> k, text |-> t, bold |-> b]
    OBVIOUS
  <1>3. [[opcode |-> o, n |-> k, text |-> t, bold |-> b] EXCEPT !.text = u]
          = [opcode |-> o, n |-> k, text |-> u, bold |-> b]
    OBVIOUS
  <1> QED BY <1>1, <1>2, <1>3

LEMMA JoinedIs ==
    ASSUME NEW C, NEW a \in Ops(C), NEW b \in Ops(C), a.opcode = b.opcode, a.bold = b.bold
    PROVE  /\ Joined(a, b) \in Ops(C)
           /\ Joined(a, b) = [opcode |-> b.opcode, n |-> a.n + b.n, text |-> a.text \o b.text, bold |-> b.bold]
  <1> DEFINE t == a.text \o b.text
             m == a.n + b.n
             j == [opcode |-> b.opcode, n |-> m, text |-> t, bold |-> b.bold]
  <1>1. /\ a.n \in Nat /\ a.n >= 1 /\ a.text \in Seq(C) /\ a.bold \in Bolds
        /\ (a.opcode = "+" => Len(a.text) = a.n) /\ (a.opcode # "+" => a.text = <<>>)
    BY OpFields
  <1>2. /\ b.n \in Nat /\ b.n >= 1 /\ b.text \in Seq(C) /\ b.bold \in Bolds /\ b.opcode \in {"+", "-", "="}
        /\ (b.opcode = "+" => Len(b.text) = b.n) /\ (b.opcode # "+" => b.text = <<>>)
        /\ (b.opcode = "-" => b.bold = "none")
        /\ b = [opcode |-> b.opcode, n |-> b.n, text |-> b.text, bold |-> b.bold]
    BY OpFields
  <1>3. t \in Seq(C) /\ Len(t) = Len(a.text) + Len(b.text)
    <2>1. a.text \in Seq(C) /\ b.text \in Seq(C)
      BY <1>1, <1>2
    <2> QED BY <2>1, ConcatProperties
  <1>4. m \in Nat \ {0}
    BY <1>1, <1>2
  <1>5. IF b.opcode = "+" THEN Len(t) = m ELSE t = <<>>
    <2>1. CASE b.opcode = "+"
      BY <1>1, <1>2, <1>3, <2>1
    <2>2. CASE b.opcode # "+"
      <3>1. a.text = <<>> /\ b.text = <<>>
        BY <1>1, <1>2, <2>2
      <3> QED BY <2>2, <3>1
    <2> QED BY <2>1, <2>2
  <1>6. Joined(a, b) = j
    <2>1. Joined(a, b) = [b EXCEPT !.n = m, !.text = t]
      BY DEF Joined
    <2> HIDE DEF m, t
    <2> QED BY <1>2, <2>1, OpExcept
  <1> HIDE DEF t, m
  <1>7. j \in [opcode : {"+", "-", "="}, n : Nat \ {0}, text : Seq(C), bold : Bolds]
    BY <1>2, <1>3, <1>4
  <1>8. j.opcode = b.opcode /\ j.n = m /\ j.text = t /\ j.bold = b.bold
    OBVIOUS
  <1> HIDE DEF j
  <1>9. j \in Ops(C)
    BY <1>2, <1>5, <1>7, <1>8 DEF Ops
  <1> QED BY <1>6, <1>9 DEF j, t, m

LEMMA OpCut ==
    ASSUME NEW C, NEW op \in Ops(C), NEW k \in Nat, 0 < k, k < op.n
    PROVE  /\ UpTo(op, k) \in Ops(C) /\ From(op, k) \in Ops(C)
           /\ UpTo(op, k).opcode = op.opcode /\ UpTo(op, k).bold = op.bold
           /\ From(op, k).opcode = op.opcode /\ From(op, k).bold = op.bold
           /\ UpTo(op, k).n = k /\ From(op, k).n = op.n - k
           /\ UpTo(op, k).text \o From(op, k).text = op.text
           /\ Joined(UpTo(op, k), From(op, k)) = op
  <1> DEFINE u == UpTo(op, k)
             f == From(op, k)
             t == op.text
             p == SubSeq(t, 1, IF t = <<>> THEN 0 ELSE k)
             q == SubSeq(t, k + 1, Len(t))
  <1>1. /\ op.n \in Nat /\ op.text \in Seq(C) /\ op.bold \in Bolds /\ op.opcode \in {"+", "-", "="}
        /\ (op.opcode = "+" => Len(op.text) = op.n) /\ (op.opcode # "+" => op.text = <<>>)
        /\ (op.opcode = "-" => op.bold = "none")
        /\ op = [opcode |-> op.opcode, n |-> op.n, text |-> op.text, bold |-> op.bold]
    BY OpFields
  <1>2. u = [opcode |-> op.opcode, n |-> k, text |-> p, bold |-> op.bold]
    <2>1. UpTo(op, k) = [op EXCEPT !.n = k, !.text = p]
      BY DEF UpTo
    <2> HIDE DEF p
    <2> QED BY <1>1, <2>1, OpExcept
  <1>3. f = [opcode |-> op.opcode, n |-> op.n - k, text |-> q, bold |-> op.bold]
    <2> DEFINE m == op.n - k
    <2>1. From(op, k) = [op EXCEPT !.n = m, !.text = q]
      BY <1>1 DEF From
    <2> HIDE DEF q, m
    <2>2. From(op, k) = [opcode |-> op.opcode, n |-> m, text |-> q, bold |-> op.bold]
      BY <1>1, <2>1, OpExcept
    <2> QED BY <2>2 DEF m
  <1>4. /\ p \in Seq(C) /\ q \in Seq(C) /\ p \o q = t
        /\ (op.opcode = "+" => Len(p) = k /\ Len(q) = op.n - k)
        /\ (op.opcode # "+" => p = <<>> /\ q = <<>>)
    <2>1. CASE op.opcode = "+"
      <3>1. t # <<>> /\ k \in 0 .. Len(t) /\ t \in Seq(C) /\ Len(t) = op.n
        BY <1>1, <2>1
      <3>2. p = Take(t, k) /\ q = Drop(t, k)
        BY <3>1 DEF Take, Drop
      <3>3. /\ Take(t, k) \in Seq(C) /\ Drop(t, k) \in Seq(C) /\ Take(t, k) \o Drop(t, k) = t
            /\ Len(Take(t, k)) = k /\ Len(Drop(t, k)) = Len(t) - k
        <4> HIDE DEF t
        <4> QED BY <3>1, TakeDrop
      <3> QED BY <2>1, <3>1, <3>2, <3>3
    <2>2. CASE op.opcode # "+"
      <3>1. t = <<>>
        BY <1>1, <2>2
      <3>2. p = <<>> /\ q = <<>>
        BY <3>1
      <3> QED BY <2>2, <3>1, <3>2
    <2> QED BY <2>1, <2>2
  <1> HIDE DEF p, q
  <1>5. u \in Ops(C)
    <2> DEFINE r == [opcode |-> op.opcode, n |-> k, text |-> p, bold |-> op.bold]
    <2>1. r \in [opcode : {"+", "-", "="}, n : Nat \ {0}, text : Seq(C), bold : Bolds]
      BY <1>1, <1>4
    <2>2. r.opcode = op.opcode /\ r.n = k /\ r.text = p /\ r.bold = op.bold
      OBVIOUS
    <2> HIDE DEF r
    <2>3. r \in Ops(C)
      BY <1>1, <1>4, <2>1, <2>2 DEF Ops
    <2> QED BY <1>2, <2>3 DEF r
  <1>6. f \in Ops(C)
    <2> DEFINE r == [opcode |-> op.opcode, n |-> op.n - k, text |-> q, bold |-> op.bold]
    <2>1. r \in [opcode : {"+", "-", "="}, n : Nat \ {0}, text : Seq(C), bold : Bolds]
      BY <1>1, <1>4
    <2>2. r.opcode = op.opcode /\ r.n = op.n - k /\ r.text = q /\ r.bold = op.bold
      OBVIOUS
    <2> HIDE DEF r
    <2>3. r \in Ops(C)
      BY <1>1, <1>4, <2>1, <2>2 DEF Ops
    <2> QED BY <1>3, <2>3 DEF r
  <1>7. /\ u.opcode = op.opcode /\ u.n = k /\ u.text = p /\ u.bold = op.bold
        /\ f.opcode = op.opcode /\ f.n = op.n - k /\ f.text = q /\ f.bold = op.bold
    BY <1>2, <1>3
  <1> HIDE DEF u, f
  <1>8. Joined(u, f) = op
    <2>1. Joined(u, f) = [opcode |-> f.opcode, n |-> u.n + f.n, text |-> u.text \o f.text, bold |-> f.bold]
      BY <1>5, <1>6, <1>7, JoinedIs
    <2>2. k + (op.n - k) = op.n
      BY <1>1
    <2> QED BY <1>1, <1>4, <1>7, <2>1, <2>2
  <1> QED BY <1>4, <1>5, <1>6, <1>7, <1>8 DEF u, f, t

LEMMA OpWhole ==
    ASSUME NEW C, NEW op \in Ops(C), NEW k \in Nat, k = op.n
    PROVE  UpTo(op, k) = op /\ From(op, k) = NoOp
  <1> DEFINE t == op.text
             p == SubSeq(t, 1, IF t = <<>> THEN 0 ELSE k)
  <1>1. /\ op.text \in Seq(C)
        /\ (op.opcode = "+" => Len(op.text) = op.n) /\ (op.opcode # "+" => op.text = <<>>)
        /\ op = [opcode |-> op.opcode, n |-> op.n, text |-> op.text, bold |-> op.bold]
    BY OpFields
  <1>2. p = t
    <2>1. CASE op.opcode = "+"
      <3>1. t \in Seq(C) /\ Len(t) = k /\ (t = <<>> => k = 0)
        BY <1>1, <2>1
      <3>2. SubSeq(t, 1, Len(t)) = t
        BY <3>1, SubSeqFull
      <3> QED BY <3>1, <3>2
    <2>2. CASE op.opcode # "+"
      BY <1>1, <2>2
    <2> QED BY <2>1, <2>2
  <1>3. UpTo(op, k) = [opcode |-> op.opcode, n |-> k, text |-> p, bold |-> op.bold]
    <2>1. UpTo(op, k) = [op EXCEPT !.n = k, !.text = p]
      BY DEF UpTo
    <2> HIDE DEF p
    <2> QED BY <1>1, <2>1, OpExcept
  <1>4. UpTo(op, k) = op
    BY <1>1, <1>2, <1>3
  <1> QED BY <1>4 DEF From

\* Two ops that do the same, one after the other, do what the joined op does.
LEMMA ActJoined ==
    ASSUME NEW C, NEW a \in Ops(C), NEW b \in Ops(C), a.opcode = b.opcode, a.bold = b.bold,
           NEW x \in States(C)
    PROVE  Act(b, Act(a, x)) = Act(Joined(a, b), x)
  <1> DEFINE o == x.out
             i == x.in
             j == Joined(a, b)
             n == a.n + b.n
  <1>1. CASE ~x.ok
    BY <1>1, ActNothing
  <1>2. CASE x.ok
    <2>1. x = State(o, i) /\ o \in Seq(Cells(C)) /\ i \in Seq(Cells(C))
      BY <1>2, StateIs
    <2>2. /\ j \in Ops(C) /\ j.opcode = b.opcode /\ j.n = n /\ j.text = a.text \o b.text
          /\ j.bold = b.bold
      <3>1. /\ j \in Ops(C)
            /\ j = [opcode |-> b.opcode, n |-> a.n + b.n, text |-> a.text \o b.text, bold |-> b.bold]
        BY JoinedIs
      <3> HIDE DEF j
      <3> QED BY <3>1
    <2>3. /\ a.n \in Nat /\ b.n \in Nat /\ n \in Nat /\ a.text \in Seq(C) /\ b.text \in Seq(C)
          /\ b.bold \in Bolds /\ b.opcode \in {"+", "-", "="} /\ Len(i) \in Nat
      BY <2>1, OpFields
    <2> HIDE DEF o, i, j
    <2>4. CASE b.opcode = "+"
      <3> DEFINE p == CellsOf(a.text, a.bold)
                 q == CellsOf(b.text, b.bold)
                 r == CellsOf(a.text \o b.text, b.bold)
      <3>1. p \in Seq(Cells(C)) /\ q \in Seq(Cells(C)) /\ r = p \o q
        <4>1. CellsOf(a.text \o b.text, b.bold) = CellsOf(a.text, b.bold) \o CellsOf(b.text, b.bold)
          <5> DEFINE u == a.text
                     v == b.text
          <5>1. u \in Seq(C) /\ v \in Seq(C) /\ b.bold \in Bolds
            BY <2>3
          <5> HIDE DEF u, v
          <5>2. CellsOf(Cat(u, v), b.bold) = Cat(CellsOf(u, b.bold), CellsOf(v, b.bold))
            BY <5>1, CellsOfCat
          <5> QED BY <5>2 DEF u, v, Cat
        <4>2. CellsOf(a.text, b.bold) \in Seq(Cells(C)) /\ CellsOf(b.text, b.bold) \in Seq(Cells(C))
          BY <2>3, CellsOfSeq
        <4> QED BY <4>1, <4>2
      <3>2. Act(a, State(o, i)) = State(o \o p, i) /\ Act(j, State(o, i)) = State(o \o r, i)
        BY <2>2, <2>4, ActInsert
      <3>3. Act(b, State(o \o p, i)) = State((o \o p) \o q, i)
        BY <2>4, ActInsert
      <3> HIDE DEF p, q, r
      <3>4. (o \o p) \o q = o \o (p \o q)
        <4>1. o \in Texts(C) /\ p \in Texts(C) /\ q \in Texts(C)
          BY <2>1, <3>1 DEF Texts
        <4>2. Cat(Cat(o, p), q) = Cat(o, Cat(p, q))
          BY <4>1, CatLaws
        <4> QED BY <4>2 DEF Cat
      <3> QED BY <2>1, <3>1, <3>2, <3>3, <3>4 DEF j
    <2>5. CASE b.opcode \in {"-", "="} /\ n > Len(i)
      <3>1. Act(j, x) = Stuck
        BY <2>1, <2>2, <2>5, ActRemove, ActKeep
      <3>2. CASE a.n > Len(i)
        <4>1. Act(a, State(o, i)) = Stuck
          <5>1. CASE a.opcode = "-"
            BY <3>2, <5>1, ActRemove
          <5>2. CASE a.opcode = "="
            BY <3>2, <5>2, ActKeep
          <5> QED BY <2>5, <5>1, <5>2
        <4>2. Act(b, Stuck) = Stuck
          BY ActNothing, StuckFields
        <4> QED BY <2>1, <3>1, <4>1, <4>2 DEF j
      <3>3. CASE ~(a.n > Len(i))
        <4> DEFINE d == Drop(i, a.n)
        <4>1. b.n > Len(d)
          <5>1. Len(d) = Len(i) - a.n
            BY <2>1, <2>3, <3>3, CellsCut
          <5> QED BY <2>3, <2>5, <5>1
        <4>2. \E u : Act(a, x) = State(u, d)
          BY <2>1, <2>5, <3>3, ActRemove, ActKeep
        <4>3. \A u : Act(b, State(u, d)) = Stuck
          <5> TAKE u
          <5>1. CASE b.opcode = "-"
            BY <4>1, <5>1, ActRemove
          <5>2. CASE b.opcode = "="
            BY <4>1, <5>2, ActKeep
          <5> QED BY <2>5, <5>1, <5>2
        <4> QED BY <3>1, <4>2, <4>3 DEF j
      <3> QED BY <3>2, <3>3
    <2>6. CASE b.opcode \in {"-", "="} /\ ~(n > Len(i))
      <3> DEFINE t == Take(i, a.n)
                 d == Drop(i, a.n)
                 s == Take(d, b.n)
                 e == Drop(d, b.n)
      <3>1. ~(a.n > Len(i)) /\ ~(b.n > Len(d)) /\ e = Drop(i, n) /\ t \o s = Take(i, n)
        <4>1. CutsTwice(C, i, a.n, b.n, n)
          BY <2>1, <2>3, <2>6 DEF CutsTwice
        <4> HIDE DEF n
        <4> QED BY <4>1, CellsCutTwice
      <3>2. t \in Seq(Cells(C)) /\ d \in Seq(Cells(C))
        BY <2>1, <2>3, <3>1, CellsCut
      <3>3. s \in Seq(Cells(C))
        <4> HIDE DEF d
        <4> QED BY <2>3, <3>1, <3>2, CellsCut
      <3> HIDE DEF n
      <3>4. CASE b.opcode = "-"
        <4>1. Act(a, State(o, i)) = State(o, d) /\ Act(j, State(o, i)) = State(o, Drop(i, n))
          BY <2>2, <2>6, <3>1, <3>4, ActRemove
        <4>2. Act(b, State(o, d)) = State(o, e)
          <5>1. ~(b.n > Len(d))
            BY <3>1
          <5> HIDE DEF d
          <5> QED BY <3>4, <5>1, ActRemove
        <4> QED BY <2>1, <3>1, <4>1, <4>2 DEF j
      <3>5. CASE b.opcode = "="
        <4> DEFINE p == Styled(t, a.bold)
                   q == Styled(s, b.bold)
                   r == Styled(Take(i, n), b.bold)
        <4>1. Act(a, State(o, i)) = State(o \o p, d) /\ Act(j, State(o, i)) = State(o \o r, Drop(i, n))
          BY <2>2, <2>6, <3>1, <3>5, ActKeep
        <4>2. Act(b, State(o \o p, d)) = State((o \o p) \o q, e)
          BY <3>1, <3>5, ActKeep
        <4>3. p \in Seq(Cells(C)) /\ q \in Seq(Cells(C)) /\ r = p \o q
          <5>1. Styled(t \o s, b.bold) = Styled(t, b.bold) \o Styled(s, b.bold)
            <6>1. t \in Texts(C) /\ s \in Texts(C) /\ b.bold \in Bolds
              BY <2>3, <3>2, <3>3 DEF Texts
            <6> HIDE DEF t, s
            <6>2. Styled(Cat(t, s), b.bold) = Cat(Styled(t, b.bold), Styled(s, b.bold))
              BY <6>1, StyledCat
            <6> QED BY <6>2 DEF Cat
          <5>2. Styled(t, b.bold) \in Seq(Cells(C)) /\ Styled(s, b.bold) \in Seq(Cells(C))
            BY <2>3, <3>2, <3>3, StyledSeq
          <5> QED BY <3>1, <5>1, <5>2
        <4> HIDE DEF p, q, r
        <4>4. (o \o p) \o q = o \o (p \o q)
          <5>1. o \in Texts(C) /\ p \in Texts(C) /\ q \in Texts(C)
            BY <2>1, <4>3 DEF Texts
          <5>2. Cat(Cat(o, p), q) = Cat(o, Cat(p, q))
            BY <5>1, CatLaws
          <5> QED BY <5>2 DEF Cat
        <4> QED BY <2>1, <3>1, <4>1, <4>2, <4>3, <4>4 DEF j
      <3> QED BY <2>6, <3>4, <3>5
    <2> QED BY <2>3, <2>4, <2>5, <2>6 DEF j
  <1> QED BY <1>1, <1>2

\* A removal may be made before an insertion.
LEMMA ActCommutes ==
    ASSUME NEW C, NEW a \in Ops(C), NEW b \in Ops(C), a.opcode = "+", b.opcode = "-",
           NEW x \in States(C)
    PROVE  Act(b, Act(a, x)) = Act(a, Act(b, x))
  <1> DEFINE o == x.out
             i == x.in
             p == CellsOf(a.text, a.bold)
  <1>1. CASE ~x.ok
    BY <1>1, ActNothing
  <1>2. CASE x.ok
    <2>1. x = State(o, i)
      BY <1>2, StateIs
    <2> HIDE DEF o, i
    <2>2. Act(a, State(o, i)) = State(o \o p, i)
      BY ActInsert
    <2>3. CASE b.n > Len(i)
      <3>1. Act(b, State(o, i)) = Stuck /\ Act(b, State(o \o p, i)) = Stuck
        BY <2>3, ActRemove
      <3>2. Act(a, Stuck) = Stuck
        BY ActNothing, StuckFields
      <3> QED BY <2>1, <2>2, <3>1, <3>2
    <2>4. CASE ~(b.n > Len(i))
      <3> DEFINE d == Drop(i, b.n)
      <3>1. Act(b, State(o, i)) = State(o, d) /\ Act(b, State(o \o p, i)) = State(o \o p, d)
        BY <2>4, ActRemove
      <3>2. Act(a, State(o, d)) = State(o \o p, d)
        BY ActInsert
      <3> QED BY <2>1, <2>2, <3>1, <3>2
    <2> QED BY <2>3, <2>4
  <1> QED BY <1>1, <1>2

-----------------------------------------------------------------------------
(* What the ops of a changeset do to a text, one after the other. *)

After(s, x)  == Fold("act", s, x)
FitsOn(s, t) == After(s, State(<<>>, t)).ok
Makes(s, t)  == After(s, State(<<>>, t)).out \o After(s, State(<<>>, t)).in

LEMMA AfterNothing ==
    ASSUME NEW x
    PROVE  After(<<>>, x) = x
  BY FoldEmpty DEF After

LEMMA OpsLoose ==
    ASSUME NEW C
    PROVE  /\ Ops(C) \subseteq Loose(C) /\ Seq(Ops(C)) \subseteq Seq(Loose(C))
           /\ <<>> \in Seq(Ops(C)) /\ <<>> \in Seq(Loose(C)) /\ NoOp \in Loose(C) /\ ~(NoOp \in Ops(C))
  <1>1. Ops(C) \subseteq Loose(C)
    BY DEF Loose
  <1>2. NoOp \in Loose(C) /\ ~(NoOp \in Ops(C))
    <2>1. <<>> \in Seq(C)
      OBVIOUS
    <2>2. NoOp \in Loose(C)
      BY <2>1 DEF Loose, NoOp, Bolds
    <2> QED BY <2>2, OpFields
  <1> DEFINE A == Ops(C)
             B == Loose(C)
  <1> HIDE DEF A, B
  <1>3. A \subseteq B
    BY <1>1 DEF A, B
  <1>4. Seq(A) \subseteq Seq(B) /\ <<>> \in Seq(A) /\ <<>> \in Seq(B)
    BY <1>3
  <1> QED BY <1>1, <1>2, <1>4 DEF A, B

LEMMA ThroughAct ==
    ASSUME NEW e, NEW x
    PROVE  Through("act", e, x) = Act(e, x)
  BY DEF Through

LEMMA AfterOne ==
    ASSUME NEW e, NEW x
    PROVE  After(<<e>>, x) = Act(e, x)
  <1> DEFINE k == "act"
  <1> HIDE DEF k
  <1>1. Fold(k, <<e>>, x) = Through(k, e, x)
    BY FoldOne
  <1> QED BY <1>1, ThroughAct DEF After, k

LEMMA AfterAppend ==
    ASSUME NEW C, NEW s \in Seq(Loose(C)), NEW e \in Loose(C), NEW x
    PROVE  After(Append(s, e), x) = Act(e, After(s, x))
  <1> DEFINE L == Loose(C)
  <1>1. s \in Seq(L) /\ e \in L
    OBVIOUS
  <1> HIDE DEF L
  <1>2. Fold("act", Append(s, e), x) = Through("act", e, Fold("act", s, x))
    BY <1>1, FoldAppend
  <1> QED BY <1>2, ThroughAct DEF After

LEMMA AfterConcat ==
    ASSUME NEW C, NEW s \in Seq(Loose(C)), NEW t \in Seq(Loose(C)), NEW x
    PROVE  After(s \o t, x) = After(t, After(s, x)) /\ s \o t \in Seq(Loose(C))
  <1> DEFINE L == Loose(C)
  <1>1. s \in Seq(L) /\ t \in Seq(L)
    OBVIOUS
  <1> HIDE DEF L
  <1>2. s \o t \in Seq(L) /\ After(s \o t, x) = After(t, After(s, x))
    BY <1>1, FoldConcat DEF After
  <1> QED BY <1>2 DEF L

LEMMA AfterCons ==
    ASSUME NEW C, NEW e \in Loose(C), NEW s \in Seq(Loose(C)), NEW x
    PROVE  After(<<e>> \o s, x) = After(s, Act(e, x)) /\ <<e>> \o s \in Seq(Loose(C))
  <1> DEFINE L == Loose(C)
  <1>1. e \in L /\ s \in Seq(L)
    OBVIOUS
  <1> HIDE DEF L
  <1>2. Fold("act", <<e>> \o s, x) = Fold("act", s, Through("act", e, x))
    BY <1>1, FoldCons
  <1>3. <<e>> \o s \in Seq(L)
    BY <1>1
  <1> QED BY <1>2, <1>3, ThroughAct DEF After, L

LEMMA AfterTyped ==
    ASSUME NEW C, NEW s \in Seq(Loose(C)), NEW x \in States(C)
    PROVE  After(s, x) \in States(C) /\ (After(s, x).ok => x.ok)
  <1> DEFINE L == Loose(C)
             P == {u \in Seq(L) : After(u, x) \in States(C) /\ (After(u, x).ok => x.ok)}
  <1>1. <<>> \in P
    BY AfterNothing, OpsLoose
  <1>2. ASSUME NEW u \in Seq(L), NEW e \in L, u \in P
        PROVE  Append(u, e) \in P
    <2>1. After(Append(u, e), x) = Act(e, After(u, x))
      BY AfterAppend
    <2>2. Act(e, After(u, x)) \in States(C)
      BY <1>2, ActTyped
    <2>3. Act(e, After(u, x)).ok => After(u, x).ok
      BY ActOk
    <2>4. Append(u, e) \in Seq(L)
      <3> HIDE DEF L
      <3> QED OBVIOUS
    <2> QED BY <1>2, <2>1, <2>2, <2>3, <2>4
  <1> HIDE DEF P
  <1>3. Seq(L) \subseteq P
    <2> HIDE DEF L
    <2> QED BY <1>1, <1>2, SeqInduction
  <1> QED BY <1>3 DEF P

LEMMA ExtendedTyped ==
    ASSUME NEW C, NEW x \in States(C), NEW o \in Seq(Cells(C)), NEW r \in Seq(Cells(C))
    PROVE  /\ Extended(o, x, r) \in States(C)
           /\ Extended(o, x, r).ok = x.ok
           /\ x.ok => Extended(o, x, r).out = o \o x.out /\ Extended(o, x, r).in = x.in \o r
  <1>1. CASE x.ok
    <2>1. Extended(o, x, r) = State(o \o x.out, x.in \o r)
      BY <1>1 DEF Extended
    <2>2. x.out \in Seq(Cells(C)) /\ x.in \in Seq(Cells(C)) /\ x.ok \in BOOLEAN
      BY StateIs
    <2>3. o \o x.out \in Seq(Cells(C)) /\ x.in \o r \in Seq(Cells(C))
      BY <2>2, CellsConcat
    <2>4. State(o \o x.out, x.in \o r) \in States(C)
      BY <2>3, StateTyped
    <2>5. \A u, v : State(u, v).ok = TRUE /\ State(u, v).out = u /\ State(u, v).in = v
      BY StateFields
    <2>6. x.ok = TRUE
      BY <1>1, <2>2
    <2>7. Extended(o, x, r).ok = TRUE
      BY <2>1, <2>5
    <2>8. Extended(o, x, r).out = o \o x.out /\ Extended(o, x, r).in = x.in \o r
      <3> DEFINE a == o \o x.out
                 b == x.in \o r
      <3>1. Extended(o, x, r) = State(a, b)
        BY <2>1
      <3> HIDE DEF a, b
      <3>2. Extended(o, x, r).out = a /\ Extended(o, x, r).in = b
        BY <3>1, <2>5
      <3> QED BY <3>2 DEF a, b
    <2> QED BY <2>1, <2>4, <2>6, <2>7, <2>8
  <1>2. CASE ~x.ok
    <2>1. Extended(o, x, r) = Stuck /\ x = Stuck
      BY <1>2, StateIs DEF Extended
    <2> QED BY <1>2, <2>1
  <1> QED BY <1>1, <1>2

\* What a changeset does depends neither on what has been put out before, nor,
\* unless it needs that, on what comes behind.
Spare(s, x, r) == After(s, x).ok \/ r = <<>>
LEMMA AfterFrame ==
    ASSUME NEW C, NEW s \in Seq(Loose(C)), NEW x \in States(C),
           NEW o \in Seq(Cells(C)), NEW r \in Seq(Cells(C)), Spare(s, x, r)
    PROVE  After(s, Extended(o, x, r)) = Extended(o, After(s, x), r)
  <1>0. After(s, x).ok \/ r = <<>>
    BY DEF Spare
  <1> DEFINE L == Loose(C)
             P == {u \in Seq(L) : After(u, x).ok \/ r = <<>>
                       => After(u, Extended(o, x, r)) = Extended(o, After(u, x), r)}
  <1>1. <<>> \in P
    BY AfterNothing, OpsLoose
  <1>2. ASSUME NEW u \in Seq(L), NEW e \in L, u \in P
        PROVE  Append(u, e) \in P
    <2>1. /\ After(Append(u, e), x) = Act(e, After(u, x))
          /\ After(Append(u, e), Extended(o, x, r)) = Act(e, After(u, Extended(o, x, r)))
      BY AfterAppend
    <2>2. After(u, x) \in States(C)
      BY AfterTyped
    <2>3. Act(e, After(u, x)).ok => After(u, x).ok
      BY ActOk
    <2>4. Append(u, e) \in Seq(L)
      <3> HIDE DEF L
      <3> QED OBVIOUS
    <2>5. ASSUME Act(e, After(u, x)).ok \/ r = <<>>
          PROVE  Act(e, Extended(o, After(u, x), r)) = Extended(o, Act(e, After(u, x)), r)
      BY <2>2, <2>5, ActFrame
    <2> QED BY <1>2, <2>1, <2>3, <2>4, <2>5
  <1> HIDE DEF P
  <1>3. Seq(L) \subseteq P
    <2> HIDE DEF L
    <2> QED BY <1>1, <1>2, SeqInduction
  <1> QED BY <1>0, <1>3 DEF P

\* What is left of a list of ops with one of them begun.
Ahead(op, in) == IF op = NoOp THEN in ELSE <<op>> \o in

LEMMA MakesTyped ==
    ASSUME NEW C, NEW s \in Seq(Loose(C)), NEW t \in Seq(Cells(C))
    PROVE  /\ Makes(s, t) \in Seq(Cells(C)) /\ FitsOn(s, t) \in BOOLEAN
           /\ After(s, State(<<>>, t)) \in States(C)
           /\ After(s, State(<<>>, t)).out \in Seq(Cells(C)) /\ After(s, State(<<>>, t)).in \in Seq(Cells(C))
  <1> DEFINE x == After(s, State(<<>>, t))
  <1>1. State(<<>>, t) \in States(C)
    BY StateTyped, CellsAssoc
  <1>2. x \in States(C)
    BY <1>1, AfterTyped
  <1>3. x.out \in Seq(Cells(C)) /\ x.in \in Seq(Cells(C)) /\ x.ok \in BOOLEAN
    BY <1>2, StateIs
  <1>4. x.out \o x.in \in Seq(Cells(C))
    BY <1>3, CellsConcat
  <1> QED BY <1>2, <1>3, <1>4 DEF Makes, FitsOn

LEMMA MakesNothing ==
    ASSUME NEW C, NEW t \in Seq(Cells(C))
    PROVE  FitsOn(<<>>, t) /\ Makes(<<>>, t) = t
  <1> DEFINE x == State(<<>>, t)
  <1>1. x.ok = TRUE /\ x.out = <<>> /\ x.in = t /\ <<>> \o t = t
    BY StateFields, CellsAssoc
  <1>2. After(<<>>, x) = x
    BY AfterNothing
  <1> HIDE DEF x
  <1>3. After(<<>>, x).ok /\ After(<<>>, x).out \o After(<<>>, x).in = t
    BY <1>1, <1>2
  <1> QED BY <1>3 DEF x, Makes, FitsOn

\* The frame on one side only.
LEMMA FrameBefore ==
    ASSUME NEW C, NEW s \in Seq(Loose(C)), NEW o \in Seq(Cells(C)), NEW i \in Seq(Cells(C))
    PROVE  After(s, State(o, i)) = Extended(o, After(s, State(<<>>, i)), <<>>)
  <1> DEFINE x == State(<<>>, i)
             nil == <<>>
  <1>1. /\ x \in States(C) /\ nil \in Seq(Cells(C)) /\ nil = <<>>
        /\ x.ok = TRUE /\ x.out = <<>> /\ x.in = i
    BY StateTyped, StateFields, CellsAssoc
  <1> HIDE DEF x, nil
  <1>a. Spare(s, x, nil)
    BY <1>1 DEF Spare
  <1>b. x \in States(C) /\ nil \in Seq(Cells(C))
    BY <1>1
  <1>2. After(s, Extended(o, x, nil)) = Extended(o, After(s, x), nil)
    BY <1>b, <1>a, AfterFrame
  <1>3. o \o <<>> = o /\ i \o <<>> = i
    BY CellsAssoc
  <1>4. Extended(o, x, nil) = State(o, i)
    BY <1>1, <1>3 DEF Extended
  <1> QED BY <1>2, <1>4 DEF x, nil

LEMMA FrameBehind ==
    ASSUME NEW C, NEW s \in Seq(Loose(C)), NEW t \in Seq(Cells(C)), NEW r \in Seq(Cells(C)), FitsOn(s, t)
    PROVE  After(s, State(<<>>, t \o r)) = Extended(<<>>, After(s, State(<<>>, t)), r)
  <1> DEFINE x == State(<<>>, t)
             nil == <<>>
  <1>1. /\ x \in States(C) /\ nil \in Seq(Cells(C)) /\ nil = <<>>
        /\ x.ok = TRUE /\ x.out = <<>> /\ x.in = t
        /\ After(s, x).ok
    BY StateTyped, StateFields, CellsAssoc DEF FitsOn
  <1> HIDE DEF x, nil
  <1>a. Spare(s, x, r)
    BY <1>1 DEF Spare
  <1>b. x \in States(C) /\ nil \in Seq(Cells(C))
    BY <1>1
  <1>2. After(s, Extended(nil, x, r)) = Extended(nil, After(s, x), r)
    BY <1>b, <1>a, AfterFrame
  <1>3. Extended(nil, x, r) = State(<<>>, t \o r)
    BY <1>1, CellsAssoc DEF Extended
  <1> QED BY <1>2, <1>3 DEF x, nil

\* What the ops make of o and i, when o has been put out.
LEMMA MakesBehind ==
    ASSUME NEW C, NEW s \in Seq(Loose(C)), NEW o \in Seq(Cells(C)), NEW i \in Seq(Cells(C))
    PROVE  /\ (After(s, State(o, i)).ok <=> FitsOn(s, i))
           /\ FitsOn(s, i) => After(s, State(o, i)).out \o After(s, State(o, i)).in = o \o Makes(s, i)
  <1> DEFINE x == State(<<>>, i)
             y == After(s, x)
             z == After(s, State(o, i))
  <1>1. x \in States(C) /\ x.ok = TRUE /\ x.out = <<>> /\ x.in = i
    BY StateTyped, StateFields, CellsAssoc
  <1>2. y \in States(C)
    BY <1>1, AfterTyped
  <1> HIDE DEF x
  <1>3. z = Extended(o, y, <<>>)
    BY <1>1, FrameBefore DEF x
  <1>4. y.out \in Seq(Cells(C)) /\ y.in \in Seq(Cells(C)) /\ y.ok \in BOOLEAN
    BY <1>2, StateIs
  <1> HIDE DEF y, z
  <1>5. (z.ok <=> y.ok) /\ (y.ok => z.out \o z.in = o \o (y.out \o y.in))
    <2>1. CASE y.ok
      <3>1. z = State(o \o y.out, y.in \o <<>>)
        BY <1>3, <2>1 DEF Extended
      <3>2. z.ok = TRUE /\ z.out = o \o y.out /\ z.in = y.in \o <<>>
        BY <3>1, StateFields
      <3>3. (o \o y.out) \o y.in = o \o (y.out \o y.in) /\ y.in \o <<>> = y.in
        <4> DEFINE a == y.out
                   b == y.in
        <4>1. o \in Texts(C) /\ a \in Texts(C) /\ b \in Texts(C)
          BY <1>4 DEF Texts
        <4> HIDE DEF a, b
        <4>2. Cat(Cat(o, a), b) = Cat(o, Cat(a, b)) /\ Cat(b, Nil) = b
          BY <4>1, CatLaws
        <4> QED BY <4>2 DEF a, b, Cat, Nil
      <3> QED BY <1>4, <2>1, <3>2, <3>3
    <2>2. CASE ~y.ok
      BY <1>3, <1>4, <2>2, StuckFields DEF Extended
    <2> QED BY <2>1, <2>2
  <1> QED BY <1>5 DEF x, y, z, Makes, FitsOn

\* The first op, and the others.
LEMMA MakesHead ==
    ASSUME NEW C, NEW e \in Loose(C), NEW s \in Seq(Loose(C)), NEW i \in Seq(Cells(C)),
           NEW p \in Seq(Cells(C)), NEW j \in Seq(Cells(C)), Act(e, State(<<>>, i)) = State(p, j)
    PROVE  /\ FitsOn(<<e>> \o s, i) <=> FitsOn(s, j)
           /\ FitsOn(s, j) => Makes(<<e>> \o s, i) = p \o Makes(s, j)
           /\ \A o \in Seq(Cells(C)) : Act(e, State(o, i)) = State(o \o p, j)
  <1>1. After(<<e>> \o s, State(<<>>, i)) = After(s, State(p, j))
    BY AfterCons
  <1>2. ASSUME NEW o \in Seq(Cells(C))
        PROVE  Act(e, State(o, i)) = State(o \o p, j)
    <2> DEFINE L == Loose(C)
    <2>1. <<e>> \in Seq(L)
      <3>1. e \in L
        OBVIOUS
      <3> HIDE DEF L
      <3> QED BY <3>1
    <2>2. After(<<e>>, State(o, i)) = Extended(o, After(<<e>>, State(<<>>, i)), <<>>)
      BY <2>1, FrameBefore
    <2>3. Act(e, State(o, i)) = Extended(o, State(p, j), <<>>)
      BY <2>2, AfterOne
    <2>4. j \o <<>> = j
      BY CellsAssoc
    <2>5. State(p, j).ok = TRUE /\ State(p, j).out = p /\ State(p, j).in = j
      BY StateFields
    <2> QED BY <2>3, <2>4, <2>5 DEF Extended
  <1>3. /\ After(s, State(p, j)).ok <=> FitsOn(s, j)
        /\ FitsOn(s, j) => After(s, State(p, j)).out \o After(s, State(p, j)).in = p \o Makes(s, j)
    BY MakesBehind
  <1>4. /\ FitsOn(<<e>> \o s, i) = After(<<e>> \o s, State(<<>>, i)).ok
        /\ Makes(<<e>> \o s, i) = After(<<e>> \o s, State(<<>>, i)).out \o After(<<e>> \o s, State(<<>>, i)).in
    BY DEF Makes, FitsOn
  <1> QED BY <1>1, <1>2, <1>3, <1>4

\* Text that comes behind.
LEMMA MakesBefore ==
    ASSUME NEW C, NEW s \in Seq(Loose(C)), NEW t \in Seq(Cells(C)), NEW r \in Seq(Cells(C)), FitsOn(s, t)
    PROVE  FitsOn(s, t \o r) /\ Makes(s, t \o r) = Makes(s, t) \o r
  <1> DEFINE x == State(<<>>, t)
             y == After(s, x)
             z == After(s, State(<<>>, t \o r))
  <1>1. y.ok /\ y.out \in Seq(Cells(C)) /\ y.in \in Seq(Cells(C))
    BY MakesTyped DEF FitsOn
  <1>2. z = State(<<>> \o y.out, y.in \o r)
    BY <1>1, FrameBehind DEF Extended
  <1>a. \A u, v : State(u, v).ok = TRUE /\ State(u, v).out = u /\ State(u, v).in = v
    BY StateFields
  <1> HIDE DEF x, y, z
  <1>3. z.ok = TRUE /\ z.out = <<>> \o y.out /\ z.in = y.in \o r
    BY <1>2, <1>a
  <1>4. z.ok = TRUE /\ z.out \o z.in = (y.out \o y.in) \o r
    <2> DEFINE a == y.out
               b == y.in
    <2>1. a \in Texts(C) /\ b \in Texts(C) /\ r \in Texts(C)
      BY <1>1 DEF Texts
    <2> HIDE DEF a, b
    <2>2. Cat(Nil, a) = a /\ Cat(a, Cat(b, r)) = Cat(Cat(a, b), r)
      BY <2>1, CatLaws
    <2>3. (<<>> \o a) = a /\ a \o (b \o r) = (a \o b) \o r
      BY <2>2 DEF Cat, Nil
    <2> QED BY <1>3, <2>3 DEF a, b
  <1> QED BY <1>4 DEF x, y, z, Makes, FitsOn

-----------------------------------------------------------------------------
(* The first op of a changeset. *)

\* What an op puts out, of the text it is at, and what it leaves of that.
Puts(e, i) ==
    IF e.opcode = "+" THEN CellsOf(e.text, e.bold)
    ELSE IF e.opcode = "-" THEN <<>> ELSE Styled(Take(i, e.n), e.bold)
Leaves(e, i) == IF e.opcode = "+" THEN i ELSE Drop(i, e.n)

\* An op has as much text as it needs.
Enough(e, i) == e.opcode = "+" \/ ~(e.n > Len(i))

LEMMA ActPuts ==
    ASSUME NEW C, NEW e \in Ops(C), NEW i \in Seq(Cells(C)), Enough(e, i)
    PROVE  /\ Puts(e, i) \in Seq(Cells(C)) /\ Leaves(e, i) \in Seq(Cells(C))
           /\ Act(e, State(<<>>, i)) = State(Puts(e, i), Leaves(e, i))
  <1>1. /\ e.opcode \in {"+", "-", "="} /\ e.n \in Nat /\ e.text \in Seq(C) /\ e.bold \in Bolds
        /\ <<>> \in Seq(Cells(C))
    BY OpFields, CellsAssoc
  <1>2. CASE e.opcode = "+"
    <2> DEFINE p == CellsOf(e.text, e.bold)
    <2>1. p \in Seq(Cells(C))
      BY <1>1, CellsOfSeq
    <2>2. Act(e, State(<<>>, i)) = State(<<>> \o p, i)
      BY <1>2, ActInsert
    <2>3. <<>> \o p = p
      <3> HIDE DEF p
      <3> QED BY <2>1, CellsAssoc
    <2> QED BY <1>2, <2>1, <2>2, <2>3 DEF Puts, Leaves
  <1>3. CASE e.opcode = "-"
    <2>1. Act(e, State(<<>>, i)) = State(<<>>, Drop(i, e.n))
      BY <1>3, ActRemove DEF Enough
    <2>2. Drop(i, e.n) \in Seq(Cells(C))
      BY <1>1, <1>3, CellsCut DEF Enough
    <2> QED BY <1>1, <1>3, <2>1, <2>2 DEF Puts, Leaves
  <1>4. CASE e.opcode = "="
    <2> DEFINE t == Take(i, e.n)
               p == Styled(t, e.bold)
    <2>1. Act(e, State(<<>>, i)) = State(<<>> \o p, Drop(i, e.n))
      BY <1>4, ActKeep DEF Enough
    <2>2. t \in Seq(Cells(C)) /\ Drop(i, e.n) \in Seq(Cells(C))
      BY <1>1, <1>4, CellsCut DEF Enough
    <2>3. p \in Seq(Cells(C))
      <3> HIDE DEF t
      <3> QED BY <1>1, <2>2, StyledSeq
    <2>4. <<>> \o p = p
      <3> HIDE DEF p
      <3> QED BY <2>3, CellsAssoc
    <2> QED BY <1>4, <2>1, <2>2, <2>3, <2>4 DEF Puts, Leaves
  <1> QED BY <1>1, <1>2, <1>3, <1>4

\* A changeset that fits begins with an op that does.
LEMMA HeadEnough ==
    ASSUME NEW C, NEW e \in Ops(C), NEW s \in Seq(Loose(C)), NEW i \in Seq(Cells(C)),
           FitsOn(<<e>> \o s, i)
    PROVE  Enough(e, i)
  <1> SUFFICES ASSUME ~Enough(e, i)
               PROVE  FALSE
    OBVIOUS
  <1>1. e.opcode \in {"-", "="} /\ e.n > Len(i) /\ e \in Loose(C)
    BY OpFields DEF Enough
  <1>2. Act(e, State(<<>>, i)) = Stuck
    <2>1. CASE e.opcode = "-"
      BY <1>1, <2>1, ActRemove
    <2>2. CASE e.opcode = "="
      BY <1>1, <2>2, ActKeep
    <2> QED BY <1>1, <2>1, <2>2
  <1>3. After(<<e>> \o s, State(<<>>, i)) = After(s, Stuck)
    BY <1>1, <1>2, AfterCons
  <1>4. Stuck \in States(C) /\ Stuck.ok = FALSE
    <2>1. Act(e, State(<<>>, i)) \in States(C)
      BY <1>1, ActTyped, StateTyped, CellsAssoc
    <2> QED BY <1>2, <2>1, StuckFields
  <1>5. ~After(s, Stuck).ok
    BY <1>4, AfterTyped
  <1> QED BY <1>3, <1>5 DEF FitsOn

Led(e, s) == <<e>> \o s

LEMMA HeadPuts ==
    ASSUME NEW C, NEW e \in Ops(C), NEW s \in Seq(Loose(C)), NEW i \in Seq(Cells(C)), Enough(e, i)
    PROVE  /\ FitsOn(Led(e, s), i) <=> FitsOn(s, Leaves(e, i))
           /\ FitsOn(s, Leaves(e, i)) => Makes(Led(e, s), i) = Puts(e, i) \o Makes(s, Leaves(e, i))
  <1> DEFINE p == Puts(e, i)
             j == Leaves(e, i)
  <1>1. p \in Seq(Cells(C)) /\ j \in Seq(Cells(C)) /\ Act(e, State(<<>>, i)) = State(p, j)
    BY ActPuts
  <1>2. e \in Loose(C)
    BY OpFields
  <1> HIDE DEF p, j
  <1>3. /\ FitsOn(<<e>> \o s, i) <=> FitsOn(s, j)
        /\ FitsOn(s, j) => Makes(<<e>> \o s, i) = p \o Makes(s, j)
    BY <1>1, <1>2, MakesHead, SMTT(30)
  <1> QED BY <1>3 DEF p, j, Led

\* An op may be taken in two.
LEMMA CutOp ==
    ASSUME NEW C, NEW e \in Ops(C), NEW k \in Nat, 0 < k, k <= e.n
    PROVE  /\ UpTo(e, k) \in Ops(C) /\ UpTo(e, k).opcode = e.opcode /\ UpTo(e, k).bold = e.bold
           /\ UpTo(e, k).n = k
           /\ From(e, k) = NoOp \/ From(e, k) \in Ops(C)
           /\ k = e.n => UpTo(e, k) = e /\ From(e, k) = NoOp
           /\ k < e.n => /\ From(e, k) \in Ops(C) /\ From(e, k).n = e.n - k
                         /\ From(e, k).opcode = e.opcode
  <1>1. e.n \in Nat
    BY OpFields
  <1>2. CASE k = e.n
    <2>1. UpTo(e, k) = e /\ From(e, k) = NoOp
      BY <1>2, OpWhole
    <2> QED BY <1>1, <1>2, <2>1
  <1>3. CASE k < e.n
    <2>1. /\ UpTo(e, k) \in Ops(C) /\ From(e, k) \in Ops(C)
          /\ UpTo(e, k).opcode = e.opcode /\ UpTo(e, k).bold = e.bold
          /\ From(e, k).opcode = e.opcode /\ From(e, k).bold = e.bold
          /\ UpTo(e, k).n = k /\ From(e, k).n = e.n - k
          /\ Joined(UpTo(e, k), From(e, k)) = e
      BY <1>3, OpCut
    <2> QED BY <1>1, <1>3, <2>1
  <1> QED BY <1>1, <1>2, <1>3

LEMMA AheadTyped ==
    ASSUME NEW C, NEW e, e = NoOp \/ e \in Ops(C), NEW s \in Seq(Ops(C))
    PROVE  Ahead(e, s) \in Seq(Ops(C)) /\ Ahead(e, s) \in Seq(Loose(C))
  <1> DEFINE O == Ops(C)
  <1>1. e = NoOp \/ e \in O
    OBVIOUS
  <1>2. s \in Seq(O)
    OBVIOUS
  <1>3. Ahead(e, s) \in Seq(O)
    <2> HIDE DEF O
    <2> QED BY <1>1, <1>2 DEF Ahead
  <1> QED BY <1>3, OpsLoose

LEMMA CutHead ==
    ASSUME NEW C, NEW e \in Ops(C), NEW s \in Seq(Ops(C)), NEW k \in Nat, 0 < k, k <= e.n,
           NEW x \in States(C)
    PROVE  After(<<e>> \o s, x) = After(<<UpTo(e, k)>> \o Ahead(From(e, k), s), x)
  <1>1. e.n \in Nat /\ s \in Seq(Loose(C)) /\ e \in Loose(C)
    BY OpFields, OpsLoose
  <1>2. CASE k = e.n
    <2>1. UpTo(e, k) = e /\ From(e, k) = NoOp
      BY <1>2, OpWhole
    <2> QED BY <2>1 DEF Ahead
  <1>3. CASE k < e.n
    <2> DEFINE a == UpTo(e, k)
               f == From(e, k)
    <2>1. a \in Ops(C) /\ f \in Ops(C) /\ a.opcode = f.opcode /\ a.bold = f.bold /\ Joined(a, f) = e
      <3>1. /\ UpTo(e, k) \in Ops(C) /\ From(e, k) \in Ops(C)
            /\ UpTo(e, k).opcode = e.opcode /\ UpTo(e, k).bold = e.bold
            /\ From(e, k).opcode = e.opcode /\ From(e, k).bold = e.bold
            /\ Joined(UpTo(e, k), From(e, k)) = e
        BY <1>3, OpCut
      <3> QED BY <3>1
    <2> HIDE DEF a, f
    <2>2. a \in Loose(C) /\ f \in Loose(C) /\ f # NoOp
      BY <2>1, OpFields
    <2>3. After(<<e>> \o s, x) = After(s, Act(e, x))
      BY <1>1, AfterCons
    <2>4. Act(e, x) = Act(f, Act(a, x))
      <3>1. Act(f, Act(a, x)) = Act(Joined(a, f), x)
        BY <2>1, ActJoined
      <3> QED BY <2>1, <3>1
    <2>5. After(<<f>> \o s, Act(a, x)) = After(s, Act(f, Act(a, x))) /\ <<f>> \o s \in Seq(Loose(C))
      BY <1>1, <2>2, AfterCons
    <2>6. After(<<a>> \o (<<f>> \o s), x) = After(<<f>> \o s, Act(a, x))
      <3> DEFINE u == <<f>> \o s
      <3>1. u \in Seq(Loose(C))
        BY <2>5
      <3> HIDE DEF u
      <3>2. After(<<a>> \o u, x) = After(u, Act(a, x))
        BY <2>2, <3>1, AfterCons
      <3> QED BY <3>2 DEF u
    <2>7. Ahead(f, s) = <<f>> \o s
      BY <2>2 DEF Ahead
    <2> QED BY <2>3, <2>4, <2>5, <2>6, <2>7 DEF a, f
  <1> QED BY <1>1, <1>2, <1>3

LEMMA HeadCut ==
    ASSUME NEW C, NEW e \in Ops(C), NEW s \in Seq(Ops(C)), NEW k \in Nat, 0 < k, k <= e.n,
           NEW i \in Seq(Cells(C))
    PROVE  /\ FitsOn(<<e>> \o s, i) <=> FitsOn(<<UpTo(e, k)>> \o Ahead(From(e, k), s), i)
           /\ Makes(<<e>> \o s, i) = Makes(<<UpTo(e, k)>> \o Ahead(From(e, k), s), i)
  <1>1. State(<<>>, i) \in States(C)
    BY StateTyped, CellsAssoc
  <1>2. After(<<e>> \o s, State(<<>>, i)) = After(<<UpTo(e, k)>> \o Ahead(From(e, k), s), State(<<>>, i))
    BY <1>1, CutHead
  <1> QED BY <1>2 DEF FitsOn, Makes

\* The recursion that is follow, with the order of insertions or the reverse.
Way(reverse) == IF reverse THEN "reverse" ELSE "follow"
-----------------------------------------------------------------------------
(* The recursive definitions, as folds. *)

LEMMA FoldOf ==
    ASSUME NEW kind, NEW s, NEW x, NEW n \in Nat, NEW g, Carries(g, Nat, kind, s, x, 0)
    PROVE  g[n] = FoldTo(kind, s, x, n)
  <1>1. PICK f : Carries(f, Nat, kind, s, x, 0) /\ \A i : FoldTo(kind, s, x, i) = f[i]
    BY FoldCarries
  <1>2. 0 .. n \subseteq Nat /\ 0 \in Nat /\ \A i \in 0 + 1 .. n : s[i] = s[i]
    OBVIOUS
  <1>3. f[n] = g[n]
    BY <1>1, <1>2, CarryAlike
  <1> QED BY <1>1, <1>3

LEMMA LengthIs ==
    ASSUME NEW S, NEW s \in Seq(S)
    PROVE  Length(s) = FoldTo("length", s, 0, Len(s))
  <1> DEFINE P(f) == f = [i \in Nat |-> IF i = 0 THEN 0 ELSE f[i - 1] + s[i].n]
             g == CHOOSE f : P(f)
  <1>1. Length(s) = g[Len(s)]
    BY DEF Length
  <1>2. \A f : P(f) <=> Carries(f, Nat, "length", s, 0, 0)
    <2> TAKE f
    <2>1. [i \in Nat |-> IF i = 0 THEN 0 ELSE f[i - 1] + s[i].n]
          = [i \in Nat |-> IF i <= 0 THEN 0 ELSE f[i - 1] + s[i].n]
      OBVIOUS
    <2> QED BY <2>1 DEF Carries, Through
  <1> HIDE DEF P
  <1>3. P(g)
    BY <1>2, CarryExists
  <1>4. Carries(g, Nat, "length", s, 0, 0)
    BY <1>2, <1>3
  <1>5. Len(s) \in Nat
    OBVIOUS
  <1> HIDE DEF g
  <1>6. g[Len(s)] = FoldTo("length", s, 0, Len(s))
    BY <1>4, <1>5, FoldOf
  <1> QED BY <1>1, <1>6

LEMMA NewLenIs ==
    ASSUME NEW S, NEW cs, NEW s \in Seq(S), s = cs.ops, NEW n, n = cs.oldLen
    PROVE  newLen(cs) = FoldTo("newLen", s, n, Len(s))
  <1> DEFINE P(f) == f = [i \in Nat |-> IF i = 0 THEN n ELSE f[i - 1] + Growth(s[i])]
             g == CHOOSE f : P(f)
  <1>1. newLen(cs) = g[Len(s)]
    BY DEF newLen
  <1>2. \A f : P(f) <=> Carries(f, Nat, "newLen", s, n, 0)
    <2> TAKE f
    <2>1. [i \in Nat |-> IF i = 0 THEN n ELSE f[i - 1] + Growth(s[i])]
          = [i \in Nat |-> IF i <= 0 THEN n ELSE f[i - 1] + Growth(s[i])]
      OBVIOUS
    <2> QED BY <2>1 DEF Carries, Through
  <1> HIDE DEF P
  <1>3. P(g)
    BY <1>2, CarryExists
  <1>4. Carries(g, Nat, "newLen", s, n, 0)
    BY <1>2, <1>3
  <1>5. Len(s) \in Nat
    OBVIOUS
  <1> HIDE DEF g
  <1>6. g[Len(s)] = FoldTo("newLen", s, n, Len(s))
    BY <1>4, <1>5, FoldOf
  <1> QED BY <1>1, <1>6

LEMMA ReorderIs ==
    ASSUME NEW S, NEW s \in Seq(S)
    PROVE  Reorder(s) = FoldTo("reorder", s, <<>>, Len(s))
  <1> DEFINE P(f) == f = [i \in Nat |-> IF i = 0 THEN <<>> ELSE Reordered(f[i - 1], s[i])]
             g == CHOOSE f : P(f)
  <1>1. Reorder(s) = g[Len(s)]
    BY DEF Reorder
  <1>2. \A f : P(f) <=> Carries(f, Nat, "reorder", s, <<>>, 0)
    <2> TAKE f
    <2>1. [i \in Nat |-> IF i = 0 THEN <<>> ELSE Reordered(f[i - 1], s[i])]
          = [i \in Nat |-> IF i <= 0 THEN <<>> ELSE Reordered(f[i - 1], s[i])]
      OBVIOUS
    <2> QED BY <2>1 DEF Carries, Through
  <1> HIDE DEF P
  <1>3. P(g)
    BY <1>2, CarryExists
  <1>4. Carries(g, Nat, "reorder", s, <<>>, 0)
    BY <1>2, <1>3
  <1>5. Len(s) \in Nat
    OBVIOUS
  <1> HIDE DEF g
  <1>6. g[Len(s)] = FoldTo("reorder", s, <<>>, Len(s))
    BY <1>4, <1>5, FoldOf
  <1> QED BY <1>1, <1>6

LEMMA MergeIs ==
    ASSUME NEW S, NEW s \in Seq(S)
    PROVE  Merge(s) = FoldTo("merge", s, <<>>, Len(s))
  <1> DEFINE P(f) == f = [i \in Nat |-> IF i = 0 THEN <<>> ELSE Merged(f[i - 1], s[i])]
             g == CHOOSE f : P(f)
  <1>1. Merge(s) = g[Len(s)]
    BY DEF Merge
  <1>2. \A f : P(f) <=> Carries(f, Nat, "merge", s, <<>>, 0)
    <2> TAKE f
    <2>1. [i \in Nat |-> IF i = 0 THEN <<>> ELSE Merged(f[i - 1], s[i])]
          = [i \in Nat |-> IF i <= 0 THEN <<>> ELSE Merged(f[i - 1], s[i])]
      OBVIOUS
    <2> QED BY <2>1 DEF Carries, Through
  <1> HIDE DEF P
  <1>3. P(g)
    BY <1>2, CarryExists
  <1>4. Carries(g, Nat, "merge", s, <<>>, 0)
    BY <1>2, <1>3
  <1>5. Len(s) \in Nat
    OBVIOUS
  <1> HIDE DEF g
  <1>6. g[Len(s)] = FoldTo("merge", s, <<>>, Len(s))
    BY <1>4, <1>5, FoldOf
  <1> QED BY <1>1, <1>6

LEMMA SliceIs ==
    ASSUME NEW in1, NEW in2, NEW n \in Nat, n = Length(in1) + Length(in2)
    PROVE  applyZip(in1, in2, slicerZipperFunc)
             = Assemble(FoldTo("slice", <<>>, ZipStart(in1, in2), n).out)
  <1> DEFINE x == ZipStart(in1, in2)
             P(f) == f = [i \in Nat |-> IF i = 0 THEN x ELSE Sliced(f[i - 1])]
             g == CHOOSE f : P(f)
  <1>1. applyZip(in1, in2, slicerZipperFunc) = Assemble(g[n].out)
    BY DEF applyZip, Sliced
  <1>2. \A f : P(f) <=> Carries(f, Nat, "slice", <<>>, x, 0)
    <2> TAKE f
    <2> HIDE DEF x
    <2>1. [i \in Nat |-> IF i = 0 THEN x ELSE Sliced(f[i - 1])]
          = [i \in Nat |-> IF i <= 0 THEN x ELSE Sliced(f[i - 1])]
      OBVIOUS
    <2> QED BY <2>1 DEF Carries, Through
  <1> HIDE DEF P, x
  <1>3. P(g)
    BY <1>2, CarryExists
  <1>4. Carries(g, Nat, "slice", <<>>, x, 0)
    BY <1>2, <1>3
  <1> HIDE DEF g
  <1>5. g[n] = FoldTo("slice", <<>>, x, n)
    BY <1>4, FoldOf
  <1> QED BY <1>1, <1>5 DEF x

LEMMA FollowIs ==
    ASSUME NEW in1, NEW in2, NEW n \in Nat, n = Length(in1) + Length(in2), NEW r \in BOOLEAN
    PROVE  applyZip(in1, in2, LAMBDA op1, op2 : followOps(op1, op2, r))
             = Assemble(FoldTo(Way(r), <<>>, ZipStart(in1, in2), n).out)
  <1> DEFINE x == ZipStart(in1, in2)
             P(f) == f = [i \in Nat |-> IF i = 0 THEN x ELSE Followed(f[i - 1], r)]
             g == CHOOSE f : P(f)
  <1>1. applyZip(in1, in2, LAMBDA op1, op2 : followOps(op1, op2, r)) = Assemble(g[n].out)
    BY DEF applyZip, Followed
  <1>2. \A f : P(f) <=> Carries(f, Nat, Way(r), <<>>, x, 0)
    <2> TAKE f
    <2> HIDE DEF x
    <2>1. [i \in Nat |-> IF i = 0 THEN x ELSE Followed(f[i - 1], r)]
          = [i \in Nat |-> IF i <= 0 THEN x ELSE Followed(f[i - 1], r)]
      OBVIOUS
    <2>2. \A e, y : Through(Way(r), e, y) = Followed(y, r)
      BY DEF Through, Way
    <2> QED BY <2>1, <2>2 DEF Carries
  <1> HIDE DEF P, x
  <1>3. P(g)
    BY <1>2, CarryExists
  <1>4. Carries(g, Nat, Way(r), <<>>, x, 0)
    BY <1>2, <1>3
  <1> HIDE DEF g
  <1>5. g[n] = FoldTo(Way(r), <<>>, x, n)
    BY <1>4, FoldOf
  <1> QED BY <1>1, <1>5 DEF x

\* What holds before and after each step.
LEMMA FoldKeeps ==
    ASSUME NEW kind, NEW s, NEW x, NEW P, x \in P, \A y \in P : \A e : Through(kind, e, y) \in P
    PROVE  \A n \in Nat : FoldTo(kind, s, x, n) \in P
  <1> DEFINE N == {n \in Nat : FoldTo(kind, s, x, n) \in P}
  <1>1. 0 \in N
    BY FoldToFirst
  <1>2. ASSUME NEW n \in Nat, n \in N
        PROVE  n + 1 \in N
    <2> DEFINE m == n + 1
    <2>1. m \in Nat /\ m = n + 1
      OBVIOUS
    <2> HIDE DEF m
    <2>2. FoldTo(kind, s, x, m) = Through(kind, s[m], FoldTo(kind, s, x, n))
      BY <2>1, FoldToNext
    <2>3. m \in N
      BY <1>2, <2>1, <2>2
    <2> QED BY <2>1, <2>3
  <1> HIDE DEF N
  <1>3. Nat \subseteq N
    BY <1>1, <1>2, NumberInduction
  <1> QED BY <1>3 DEF N

-----------------------------------------------------------------------------
(* The characters the ops of a changeset are of. *)

LEMMA LengthAppend ==
    ASSUME NEW C, NEW s \in Seq(Loose(C)), NEW e \in Loose(C)
    PROVE  Length(Append(s, e)) = Length(s) + e.n
  <1> DEFINE L == Loose(C)
             t == Append(s, e)
  <1>1. s \in Seq(L) /\ e \in L
    OBVIOUS
  <1> HIDE DEF L
  <1>2. t \in Seq(L)
    BY <1>1
  <1>3. Length(t) = Fold("length", t, 0) /\ Length(s) = Fold("length", s, 0)
    <2> HIDE DEF t
    <2> QED BY <1>1, <1>2, LengthIs DEF Fold
  <1>4. Fold("length", Append(s, e), 0) = Through("length", e, Fold("length", s, 0))
    BY <1>1, FoldAppend
  <1>5. \A m : Through("length", e, m) = m + e.n
    BY DEF Through
  <1> QED BY <1>3, <1>4, <1>5

LEMMA LengthEmpty == Length(<<>>) = 0
  <1> DEFINE s == <<>>
  <1>1. s \in Seq({})
    OBVIOUS
  <1>2. Length(s) = Fold("length", s, 0)
    <2> HIDE DEF s
    <2> QED BY <1>1, LengthIs DEF Fold
  <1>3. Fold("length", <<>>, 0) = 0
    BY FoldEmpty
  <1> QED BY <1>2, <1>3

LEMMA LengthTyped ==
    ASSUME NEW C, NEW s \in Seq(Loose(C))
    PROVE  Length(s) \in Nat
  <1> DEFINE L == Loose(C)
             P == {u \in Seq(L) : Length(u) \in Nat}
  <1>1. <<>> \in P
    BY LengthEmpty, OpsLoose
  <1>2. ASSUME NEW u \in Seq(L), NEW e \in L, u \in P
        PROVE  Append(u, e) \in P
    <2>1. Length(Append(u, e)) = Length(u) + e.n
      BY LengthAppend
    <2>2. e.n \in Nat
      BY LooseFields
    <2>3. Append(u, e) \in Seq(L)
      <3> HIDE DEF L
      <3> QED OBVIOUS
    <2> QED BY <1>2, <2>1, <2>2, <2>3
  <1> HIDE DEF P
  <1>3. Seq(L) \subseteq P
    <2> HIDE DEF L
    <2> QED BY <1>1, <1>2, SeqInduction
  <1> QED BY <1>3 DEF P

LEMMA LengthConcat ==
    ASSUME NEW C, NEW s \in Seq(Loose(C)), NEW t \in Seq(Loose(C))
    PROVE  Length(s \o t) = Length(s) + Length(t)
  <1> DEFINE L == Loose(C)
             P == {u \in Seq(L) : Length(s \o u) = Length(s) + Length(u)}
  <1>1. <<>> \in P
    <2>1. s \o <<>> = s
      <3>1. s \in Seq(L)
        OBVIOUS
      <3> HIDE DEF L
      <3> QED BY <3>1
    <2> QED BY <2>1, LengthEmpty, OpsLoose, LengthTyped
  <1>2. ASSUME NEW u \in Seq(L), NEW e \in L, u \in P
        PROVE  Append(u, e) \in P
    <2>1. Length(Append(u, e)) = Length(u) + e.n
      BY LengthAppend
    <2>2. e.n \in Nat /\ Length(u) \in Nat /\ Length(s) \in Nat
      BY LooseFields, LengthTyped
    <2>3. Append(u, e) \in Seq(L) /\ s \o Append(u, e) = Append(s \o u, e) /\ s \o u \in Seq(L)
      <3>1. s \in Seq(L)
        OBVIOUS
      <3> HIDE DEF L
      <3> QED BY <3>1
    <2>4. Length(Append(s \o u, e)) = Length(s \o u) + e.n
      <3> DEFINE v == s \o u
      <3>1. v \in Seq(L)
        BY <2>3
      <3> HIDE DEF v
      <3>2. Length(Append(v, e)) = Length(v) + e.n
        BY <3>1, LengthAppend
      <3> QED BY <3>2 DEF v
    <2>5. Length(s \o u) = Length(s) + Length(u)
      BY <1>2
    <2>6. Length(s \o Append(u, e)) = (Length(s) + Length(u)) + e.n
      BY <2>3, <2>4, <2>5
    <2>7. Length(s \o Append(u, e)) = Length(s) + Length(Append(u, e))
      BY <2>1, <2>2, <2>6
    <2> QED BY <2>3, <2>7
  <1> HIDE DEF P
  <1>3. Seq(L) \subseteq P
    <2> HIDE DEF L
    <2> QED BY <1>1, <1>2, SeqInduction
  <1> QED BY <1>3 DEF P

LEMMA LengthAhead ==
    ASSUME NEW C, NEW e, e = NoOp \/ e \in Ops(C), NEW s \in Seq(Ops(C))
    PROVE  /\ Length(s) \in Nat /\ e.n \in Nat /\ Length(Ahead(e, s)) = e.n + Length(s)
           /\ Length(s) = 0 => s = <<>>
  <1> DEFINE L == Loose(C)
             O == Ops(C)
  <1>1. s \in Seq(L)
    BY OpsLoose
  <1>2. Length(s) \in Nat
    BY <1>1, LengthTyped
  <1>3. ASSUME NEW d \in O, NEW u \in Seq(O)
        PROVE  Length(<<d>> \o u) = d.n + Length(u) /\ Length(u) \in Nat
    <2>1. d \in L /\ u \in Seq(L)
      BY OpsLoose, OpFields
    <2>2. <<d>> \in Seq(L) /\ <<d>> = Append(<<>>, d) /\ <<>> \in Seq(L)
      <3> HIDE DEF L
      <3> QED BY <2>1
    <2>3. Length(<<d>>) = 0 + d.n
      BY <2>1, <2>2, LengthAppend, LengthEmpty
    <2>4. Length(<<d>> \o u) = Length(<<d>>) + Length(u)
      BY <2>1, <2>2, LengthConcat
    <2>5. d.n \in Nat /\ Length(u) \in Nat
      BY <2>1, LooseFields, LengthTyped
    <2> QED BY <2>3, <2>4, <2>5
  <1>6. ASSUME Length(s) = 0, s # <<>>
        PROVE  FALSE
    <2>1. s = <<Head(s)>> \o Tail(s) /\ Head(s) \in O /\ Tail(s) \in Seq(O)
      <3>1. s \in Seq(O)
        OBVIOUS
      <3> HIDE DEF O
      <3> QED BY <1>6, <3>1
    <2>2. Length(s) = Head(s).n + Length(Tail(s)) /\ Length(Tail(s)) \in Nat
      <3> DEFINE h == Head(s)
                 u == Tail(s)
      <3>1. h \in O /\ u \in Seq(O) /\ s = <<h>> \o u
        BY <2>1
      <3> HIDE DEF h, u
      <3>2. Length(<<h>> \o u) = h.n + Length(u) /\ Length(u) \in Nat
        BY <1>3, <3>1
      <3> QED BY <3>1, <3>2 DEF h, u
    <2>3. Head(s).n \in Nat /\ Head(s).n # 0
      BY <2>1, OpFields
    <2> QED BY <1>6, <2>2, <2>3
  <1>4. CASE e = NoOp
    <2>1. Ahead(e, s) = s /\ e.n = 0
      BY <1>4 DEF Ahead, NoOp
    <2> QED BY <1>2, <1>6, <2>1
  <1>5. CASE e # NoOp
    <2>1. e \in O /\ e.n \in Nat
      BY <1>5, OpFields
    <2>2. Ahead(e, s) = <<e>> \o s
      BY <1>5 DEF Ahead
    <2>3. Length(<<e>> \o s) = e.n + Length(s)
      BY <1>3, <2>1
    <2> QED BY <2>1, <2>2, <2>3, <1>2, <1>6
  <1> QED BY <1>2, <1>4, <1>5, <1>6

-----------------------------------------------------------------------------
(* The steps of a zip. *)

ZipStates(C) ==
    {z \in [op1 : Ops(C) \cup {NoOp}, in1 : Seq(Ops(C)),
            op2 : Ops(C) \cup {NoOp}, in2 : Seq(Ops(C)), out : Seq(Loose(C))] : TRUE}

\* An op that has been taken from the front of the ops r, if there is one.
Taken(C, r, e, t) ==
    /\ t \in Seq(Ops(C))
    /\ \/ e = NoOp /\ r = <<>> /\ t = <<>>
       \/ e \in Ops(C) /\ r = <<e>> \o t

\* What an op is turned into.
Answers(C, e1, e2, res) ==
    /\ res.out \in Loose(C)
    /\ res.op1 \in Ops(C) \cup {NoOp} /\ res.op2 \in Ops(C) \cup {NoOp}
    /\ res.op1.n + res.op2.n < e1.n + e2.n

LEMMA TakenIs ==
    ASSUME NEW C, NEW op \in Ops(C) \cup {NoOp}, NEW in \in Seq(Ops(C))
    PROVE  Taken(C, Ahead(op, in), NextOp(op, in), RestOf(op, in))
  <1> DEFINE O == Ops(C)
             N == NoOp
  <1>1. in \in Seq(O) /\ op \in O \cup {N} /\ ~(N \in O)
    BY OpsLoose
  <1>2. /\ NextOp(op, in) = IF op = N /\ in # <<>> THEN Head(in) ELSE op
        /\ RestOf(op, in) = IF op = N /\ in # <<>> THEN Tail(in) ELSE in
        /\ Ahead(op, in) = IF op = N THEN in ELSE <<op>> \o in
    BY DEF NextOp, RestOf, Ahead
  <1> HIDE DEF O, N
  <1>3. in # <<>> => Head(in) \in O /\ Tail(in) \in Seq(O) /\ in = <<Head(in)>> \o Tail(in)
    BY <1>1
  <1>4. /\ RestOf(op, in) \in Seq(O)
        /\ \/ NextOp(op, in) = N /\ Ahead(op, in) = <<>> /\ RestOf(op, in) = <<>>
           \/ NextOp(op, in) \in O /\ Ahead(op, in) = <<NextOp(op, in)>> \o RestOf(op, in)
    <2>1. CASE op # N
      BY <1>1, <1>2, <2>1
    <2>2. CASE op = N /\ in = <<>>
      BY <1>1, <1>2, <2>2
    <2>3. CASE op = N /\ in # <<>>
      <3>1. /\ NextOp(op, in) = Head(in) /\ RestOf(op, in) = Tail(in) /\ Ahead(op, in) = in
        BY <1>2, <2>3
      <3> QED BY <1>3, <2>3, <3>1
    <2> QED BY <2>1, <2>2, <2>3
  <1> QED BY <1>4 DEF Taken, O, N

LEMMA NoOpFields == NoOp.opcode = "" /\ NoOp.n = 0 /\ NoOp.text = <<>> /\ NoOp.bold = "none"
  BY DEF NoOp

LEMMA ResultFields ==
    ASSUME NEW o, NEW a, NEW b
    PROVE  Result(o, a, b).out = o /\ Result(o, a, b).op1 = a /\ Result(o, a, b).op2 = b
  BY DEF Result

\* What Shorter cuts off two ops.
LEMMA ShorterCuts ==
    ASSUME NEW C, NEW e1 \in Ops(C), NEW e2 \in Ops(C), NEW k, k = Shorter(e1, e2)
    PROVE  /\ k \in Nat /\ 0 < k /\ k <= e1.n /\ k <= e2.n
           /\ From(e1, k) \in Ops(C) \cup {NoOp} /\ From(e2, k) \in Ops(C) \cup {NoOp}
           /\ UpTo(e1, k) \in Ops(C) /\ UpTo(e2, k) \in Ops(C)
           /\ UpTo(e1, k).n = k /\ UpTo(e2, k).n = k
           /\ UpTo(e1, k).opcode = e1.opcode /\ UpTo(e2, k).opcode = e2.opcode
           /\ UpTo(e1, k).bold = e1.bold /\ UpTo(e2, k).bold = e2.bold
           /\ From(e1, k).n + From(e2, k).n < e1.n + e2.n
  <1>1. e1.n \in Nat /\ e1.n # 0 /\ e2.n \in Nat /\ e2.n # 0
    BY OpFields
  <1>2. k \in Nat /\ 0 < k /\ k <= e1.n /\ k <= e2.n
    BY <1>1 DEF Shorter
  <1>3. ASSUME NEW e \in Ops(C), k <= e.n
        PROVE  /\ From(e, k) \in Ops(C) \cup {NoOp} /\ From(e, k).n = e.n - k
               /\ UpTo(e, k) \in Ops(C) /\ UpTo(e, k).n = k /\ UpTo(e, k).opcode = e.opcode
               /\ UpTo(e, k).bold = e.bold
    <2>1. e.n \in Nat
      BY OpFields
    <2>2. /\ UpTo(e, k) \in Ops(C) /\ UpTo(e, k).opcode = e.opcode /\ UpTo(e, k).n = k
          /\ UpTo(e, k).bold = e.bold
          /\ k = e.n => From(e, k) = NoOp
          /\ k < e.n => From(e, k) \in Ops(C) /\ From(e, k).n = e.n - k
      BY <1>2, <1>3, CutOp
    <2>3. CASE k = e.n
      <3>1. From(e, k) = NoOp
        BY <2>2, <2>3
      <3>3. NoOp.n = e.n - k
        <4>1. NoOp.n = 0
          BY NoOpFields
        <4>2. e.n - k = 0
          BY <1>2, <2>1, <2>3
        <4> QED BY <4>1, <4>2
      <3>2. From(e, k).n = e.n - k
        BY <3>1, <3>3
      <3> QED BY <2>2, <3>1, <3>2
    <2>4. CASE k < e.n
      BY <2>2, <2>4
    <2> QED BY <1>2, <1>3, <2>1, <2>3, <2>4
  <1>4. From(e1, k).n = e1.n - k /\ From(e2, k).n = e2.n - k
    BY <1>2, <1>3
  <1>5. From(e1, k).n + From(e2, k).n < e1.n + e2.n
    BY <1>1, <1>2, <1>4
  <1> QED BY <1>2, <1>3, <1>5

LEMMA Restyled ==
    ASSUME NEW C, NEW op \in Ops(C), op.opcode # "-", NEW b \in Bolds
    PROVE  /\ [op EXCEPT !.bold = b] \in Ops(C)
           /\ [op EXCEPT !.bold = b].opcode = op.opcode /\ [op EXCEPT !.bold = b].n = op.n
           /\ [op EXCEPT !.bold = b].text = op.text /\ [op EXCEPT !.bold = b].bold = b
  BY DEF Ops

LEMMA KeepRemove ==
    ASSUME NEW C, NEW k \in Nat, 0 < k, NEW b \in Bolds
    PROVE  /\ keep(k, b) \in Ops(C) /\ keep(k, b).opcode = "=" /\ keep(k, b).n = k /\ keep(k, b).bold = b
           /\ remove(k) \in Ops(C) /\ remove(k).opcode = "-" /\ remove(k).n = k
  <1>1. <<>> \in Seq(C)
    OBVIOUS
  <1> QED BY <1>1 DEF keep, remove, Ops, Bolds

LEMMA MaybeOp ==
    ASSUME NEW C, NEW e \in Ops(C) \cup {NoOp}
    PROVE  /\ e \in Loose(C) /\ e.n \in Nat
           /\ e = NoOp => e.n = 0 /\ e.opcode = ""
           /\ e # NoOp => e \in Ops(C) /\ e.n # 0 /\ e.opcode \in {"+", "-", "="}
  <1>1. CASE e = NoOp
    <2>1. NoOp.n = 0 /\ NoOp.opcode = "" /\ NoOp \in Loose(C)
      BY NoOpFields, OpsLoose
    <2>2. e.n = 0 /\ e.opcode = "" /\ e \in Loose(C)
      BY <1>1, <2>1
    <2>3. e.n \in Nat
      <3>1. e.n = 0
        BY <2>2
      <3> QED BY <3>1
    <2> QED BY <1>1, <2>2, <2>3
  <1>2. CASE e # NoOp
    <2>1. e \in Ops(C)
      BY <1>2
    <2>2. e \in Loose(C) /\ e.n \in Nat /\ e.n # 0 /\ e.opcode \in {"+", "-", "="}
      BY <2>1, OpFields
    <2> QED BY <1>2, <2>1, <2>2
  <1> QED BY <1>1, <1>2

LEMMA AnswersResult ==
    ASSUME NEW C, NEW e1, NEW e2, NEW o \in Loose(C),
           NEW a \in Ops(C) \cup {NoOp}, NEW b \in Ops(C) \cup {NoOp},
           a.n + b.n < e1.n + e2.n,
           NEW res, res = Result(o, a, b)
    PROVE  Answers(C, e1, e2, res)
  BY DEF Result, Answers

LEMMA SliceAnswers ==
    ASSUME NEW C, NEW e1 \in Ops(C) \cup {NoOp}, NEW e2 \in Ops(C) \cup {NoOp},
           e1 # NoOp \/ e2 # NoOp
    PROVE  Answers(C, e1, e2, slicerZipperFunc(e1, e2))
  <1> DEFINE k == Shorter(e1, e2)
  <1>0. /\ e1 \in Loose(C) /\ e1.n \in Nat /\ e2 \in Loose(C) /\ e2.n \in Nat
        /\ e1 = NoOp => e1.n = 0 /\ e1.opcode = ""
        /\ e1 # NoOp => e1 \in Ops(C) /\ e1.n # 0 /\ e1.opcode \in {"+", "-", "="}
        /\ e2 = NoOp => e2.n = 0 /\ e2.opcode = ""
        /\ e2 # NoOp => e2 \in Ops(C) /\ e2.n # 0 /\ e2.opcode \in {"+", "-", "="}
        /\ NoOp \in Loose(C) /\ NoOp.n = 0 /\ NoOp \in Ops(C) \cup {NoOp} /\ ~(NoOp \in Ops(C))
    <2>1. NoOp \in Ops(C) \cup {NoOp} /\ ~(NoOp \in Ops(C)) /\ NoOp.n = 0
      BY OpsLoose, NoOpFields
    <2>2. /\ e1 \in Loose(C) /\ e1.n \in Nat
          /\ e1 = NoOp => e1.n = 0 /\ e1.opcode = ""
          /\ e1 # NoOp => e1 \in Ops(C) /\ e1.n # 0 /\ e1.opcode \in {"+", "-", "="}
      BY MaybeOp
    <2>3. /\ e2 \in Loose(C) /\ e2.n \in Nat
          /\ e2 = NoOp => e2.n = 0 /\ e2.opcode = ""
          /\ e2 # NoOp => e2 \in Ops(C) /\ e2.n # 0 /\ e2.opcode \in {"+", "-", "="}
      BY MaybeOp
    <2> QED BY <2>1, <2>2, <2>3, OpsLoose
  <1>1. CASE e1 = NoOp
    <2>1. slicerZipperFunc(e1, e2) = Result(e2, NoOp, NoOp)
      BY <1>0, <1>1 DEF slicerZipperFunc
    <2>2. e2 \in Loose(C) /\ NoOp.n + NoOp.n < e1.n + e2.n
      <3>1. e1.n \in Nat /\ e2.n \in Nat /\ e2.n # 0 /\ NoOp.n = 0
        BY <1>0, <1>1
      <3>2. NoOp.n + NoOp.n < e1.n + e2.n
        BY <3>1
      <3> QED BY <1>0, <3>2
    <2> QED BY <1>0, <2>1, <2>2, AnswersResult
  <1>2. CASE e1 # NoOp /\ e2 = NoOp
    <2>1. slicerZipperFunc(e1, e2) = Result(e1, NoOp, NoOp)
      BY <1>0, <1>2 DEF slicerZipperFunc
    <2>2. e1 \in Loose(C) /\ e2 \in Loose(C) /\ NoOp.n + NoOp.n < e1.n + e2.n
      <3>1. e1.n \in Nat /\ e2.n \in Nat /\ (e1.n # 0 \/ e2.n # 0) /\ NoOp.n = 0
        BY <1>0, <1>2
      <3>2. NoOp.n + NoOp.n < e1.n + e2.n
        BY <3>1
      <3> QED BY <1>0, <3>2
    <2> QED BY <1>0, <2>1, <2>2, AnswersResult
  <1>3. CASE e1 # NoOp /\ e2 # NoOp
    <2>0. e1 \in Ops(C) /\ e2 \in Ops(C)
      BY <1>3
    <2>1. CASE e1.opcode = "-"
      <3>1. slicerZipperFunc(e1, e2) = Result(e1, NoOp, e2)
        BY <1>0, <2>0, <2>1 DEF slicerZipperFunc
      <3>2. NoOp.n + e2.n < e1.n + e2.n /\ e1 \in Loose(C)
        <4>1. NoOp.n = 0 /\ e1.n \in Nat /\ e2.n \in Nat /\ e1.n # 0
          BY <1>0, <2>0
        <4>2. NoOp.n + e2.n < e1.n + e2.n
          BY <4>1
        <4> QED BY <1>0, <4>2
      <3> QED BY <1>0, <2>0, <3>1, <3>2, AnswersResult
    <2>2. CASE e1.opcode # "-" /\ e2.opcode = "+"
      <3>1. slicerZipperFunc(e1, e2) = Result(e2, e1, NoOp)
        BY <1>0, <2>0, <2>2 DEF slicerZipperFunc
      <3>2. e1.n + NoOp.n < e1.n + e2.n /\ e2 \in Loose(C)
        <4>1. NoOp.n = 0 /\ e1.n \in Nat /\ e2.n \in Nat /\ e2.n # 0
          BY <1>0, <2>0
        <4>2. e1.n + NoOp.n < e1.n + e2.n
          BY <4>1
        <4> QED BY <1>0, <4>2
      <3> QED BY <1>0, <2>0, <3>1, <3>2, AnswersResult
    <2>3. CASE e1.opcode # "-" /\ e2.opcode # "+"
      <3> DEFINE b == composeAttributes(UpTo(e1, k).bold, e2.bold, e1.opcode = "=")
                 out == IF e2.opcode = "-" THEN IF e1.opcode = "+" THEN NoOp ELSE remove(k)
                        ELSE [UpTo(e1, k) EXCEPT !.bold = b]
      <3>1. slicerZipperFunc(e1, e2) = Result(out, From(e1, k), From(e2, k))
        BY <1>0, <2>0, <2>3 DEF slicerZipperFunc
      <3>2. /\ k \in Nat /\ 0 < k
            /\ From(e1, k) \in Ops(C) \cup {NoOp} /\ From(e2, k) \in Ops(C) \cup {NoOp}
            /\ UpTo(e1, k) \in Ops(C) /\ UpTo(e1, k).opcode = e1.opcode
            /\ From(e1, k).n + From(e2, k).n < e1.n + e2.n
        <4> HIDE DEF k
        <4>1. k = Shorter(e1, e2)
          BY DEF k
        <4> QED BY <2>0, <4>1, ShorterCuts
      <3>3. b \in Bolds
        <4>1. UpTo(e1, k).bold \in Bolds /\ e2.bold \in Bolds
          BY <2>0, <3>2, OpFields
        <4> QED BY <4>1 DEF composeAttributes, Bolds
      <3> HIDE DEF k, b
      <3>4. out \in Loose(C)
        <4>1. [UpTo(e1, k) EXCEPT !.bold = b] \in Ops(C)
          BY <2>3, <3>2, <3>3, Restyled
        <4>2. remove(k) \in Ops(C)
          <5>1. "none" \in Bolds
            BY DEF Bolds
          <5> QED BY <3>2, <5>1, KeepRemove
        <4>3. Ops(C) \subseteq Loose(C) /\ NoOp \in Loose(C)
          BY OpsLoose
        <4> QED BY <4>1, <4>2, <4>3
      <3> HIDE DEF out
      <3> QED BY <3>1, <3>2, <3>4, AnswersResult
    <2> QED BY <2>1, <2>2, <2>3
  <1> QED BY <1>1, <1>2, <1>3

LEMMA FollowAnswers ==
    ASSUME NEW C, NEW e1 \in Ops(C) \cup {NoOp}, NEW e2 \in Ops(C) \cup {NoOp},
           e1 # NoOp \/ e2 # NoOp, NEW r \in BOOLEAN
    PROVE  Answers(C, e1, e2, followOps(e1, e2, r))
  <1> DEFINE k == Shorter(e1, e2)
  <1>0. /\ e1 \in Loose(C) /\ e1.n \in Nat /\ e2 \in Loose(C) /\ e2.n \in Nat
        /\ e1 = NoOp => e1.n = 0 /\ e1.opcode = ""
        /\ e1 # NoOp => e1 \in Ops(C) /\ e1.n # 0 /\ e1.opcode \in {"+", "-", "="}
        /\ e2 = NoOp => e2.n = 0 /\ e2.opcode = ""
        /\ e2 # NoOp => e2 \in Ops(C) /\ e2.n # 0 /\ e2.opcode \in {"+", "-", "="}
        /\ NoOp \in Loose(C) /\ NoOp.n = 0 /\ NoOp \in Ops(C) \cup {NoOp} /\ ~(NoOp \in Ops(C))
    <2>1. NoOp \in Ops(C) \cup {NoOp} /\ ~(NoOp \in Ops(C)) /\ NoOp.n = 0
      BY OpsLoose, NoOpFields
    <2>2. /\ e1 \in Loose(C) /\ e1.n \in Nat
          /\ e1 = NoOp => e1.n = 0 /\ e1.opcode = ""
          /\ e1 # NoOp => e1 \in Ops(C) /\ e1.n # 0 /\ e1.opcode \in {"+", "-", "="}
      BY MaybeOp
    <2>3. /\ e2 \in Loose(C) /\ e2.n \in Nat
          /\ e2 = NoOp => e2.n = 0 /\ e2.opcode = ""
          /\ e2 # NoOp => e2 \in Ops(C) /\ e2.n # 0 /\ e2.opcode \in {"+", "-", "="}
      BY MaybeOp
    <2> QED BY <2>1, <2>2, <2>3, OpsLoose
  <1>a. "none" \in Bolds
    BY DEF Bolds
  <1>1. CASE e1.opcode = "+" \/ e2.opcode = "+"
    <2>1. followOps(e1, e2, r) = followInsert(e1, e2, r)
      BY <1>1 DEF followOps
    <2>2. \/ followInsert(e1, e2, r) = Result(keep(e1.n, "none"), NoOp, e2) /\ e1 # NoOp
          \/ followInsert(e1, e2, r) = Result(e2, e1, NoOp) /\ e2 # NoOp
      <3>1. CASE e2.opcode # "+" \/ (e1.opcode = "+" /\ InsertsFirst(e1, e2, r))
        <4>1. followInsert(e1, e2, r) = Result(keep(e1.n, "none"), NoOp, e2)
          BY <3>1 DEF followInsert
        <4> QED BY <1>0, <1>1, <3>1, <4>1
      <3>2. CASE ~(e2.opcode # "+" \/ (e1.opcode = "+" /\ InsertsFirst(e1, e2, r)))
        <4>1. followInsert(e1, e2, r) = Result(e2, e1, NoOp)
          BY <3>2 DEF followInsert
        <4> QED BY <1>0, <3>2, <4>1
      <3> QED BY <3>1, <3>2
    <2>3. CASE followInsert(e1, e2, r) = Result(keep(e1.n, "none"), NoOp, e2) /\ e1 # NoOp
      <3>1. e1 \in Ops(C) /\ e1.n \in Nat /\ 0 < e1.n /\ e2.n \in Nat /\ NoOp.n = 0
        <4>1. e1 \in Ops(C) /\ e1.n \in Nat /\ e1.n # 0 /\ e2.n \in Nat /\ NoOp.n = 0
          BY <1>0, <2>3
        <4> QED BY <4>1
      <3>2. keep(e1.n, "none") \in Ops(C)
        <4> DEFINE m == e1.n
        <4>1. m \in Nat /\ 0 < m
          BY <3>1
        <4> HIDE DEF m
        <4>2. keep(m, "none") \in Ops(C)
          BY <4>1, <1>a, KeepRemove
        <4> QED BY <4>2 DEF m
      <3>3. NoOp.n + e2.n < e1.n + e2.n
        BY <3>1
      <3>4. keep(e1.n, "none") \in Loose(C)
        BY <3>2, OpFields
      <3> DEFINE o == keep(e1.n, "none")
      <3> HIDE DEF o
      <3>5. o \in Loose(C) /\ followOps(e1, e2, r) = Result(o, NoOp, e2)
        BY <2>1, <2>3, <3>4 DEF o
      <3> QED BY <1>0, <3>3, <3>5, AnswersResult
    <2>4. CASE followInsert(e1, e2, r) = Result(e2, e1, NoOp) /\ e2 # NoOp
      <3>1. e2 \in Ops(C) /\ e1.n \in Nat /\ 0 < e2.n /\ e2.n \in Nat /\ NoOp.n = 0
        <4>1. e2 \in Ops(C) /\ e2.n \in Nat /\ e2.n # 0 /\ e1.n \in Nat /\ NoOp.n = 0
          BY <1>0, <2>4
        <4> QED BY <4>1
      <3>2. e1.n + NoOp.n < e1.n + e2.n
        BY <3>1
      <3>3. e2 \in Loose(C) /\ followOps(e1, e2, r) = Result(e2, e1, NoOp)
        BY <1>0, <2>1, <2>4, <3>1
      <3> QED BY <1>0, <3>2, <3>3, AnswersResult
    <2> QED BY <2>2, <2>3, <2>4
  <1>2. CASE ~(e1.opcode = "+" \/ e2.opcode = "+") /\ e1 = NoOp
    <2>1. followOps(e1, e2, r) = Result(e2, NoOp, NoOp)
      BY <1>0, <1>2 DEF followOps
    <2>2. e1 \in Loose(C) /\ e2 \in Loose(C) /\ NoOp.n + NoOp.n < e1.n + e2.n
      <3>1. e1.n \in Nat /\ e2.n \in Nat /\ (e1.n # 0 \/ e2.n # 0) /\ NoOp.n = 0
        BY <1>0, <1>2
      <3>2. NoOp.n + NoOp.n < e1.n + e2.n
        BY <3>1
      <3> QED BY <1>0, <3>2
    <2> QED BY <1>0, <2>1, <2>2, AnswersResult
  <1>3. CASE ~(e1.opcode = "+" \/ e2.opcode = "+") /\ e1 # NoOp /\ e2 = NoOp
    <2>1. followOps(e1, e2, r) = Result(NoOp, NoOp, NoOp)
      BY <1>0, <1>3 DEF followOps
    <2>2. NoOp.n + NoOp.n < e1.n + e2.n
      <3>1. e1.n \in Nat /\ e2.n \in Nat /\ e1.n # 0 /\ NoOp.n = 0
        BY <1>0, <1>3
      <3> QED BY <3>1
    <2> QED BY <1>0, <2>1, <2>2, AnswersResult
  <1>4. CASE ~(e1.opcode = "+" \/ e2.opcode = "+") /\ e1 # NoOp /\ e2 # NoOp
    <2>0. e1 \in Ops(C) /\ e2 \in Ops(C) /\ e1.opcode # "" /\ e2.opcode # ""
      BY <1>0, <1>4
    <2>1. /\ k \in Nat /\ 0 < k
          /\ From(e1, k) \in Ops(C) \cup {NoOp} /\ From(e2, k) \in Ops(C) \cup {NoOp}
          /\ UpTo(e2, k) \in Ops(C)
          /\ From(e1, k).n + From(e2, k).n < e1.n + e2.n
      <3> HIDE DEF k
      <3>1. k = Shorter(e1, e2)
        BY DEF k
      <3> QED BY <2>0, <3>1, ShorterCuts
    <2> DEFINE b == followAttributes(e1.bold, e2.bold)
    <2>2. b \in Bolds
      BY <2>0, OpFields DEF followAttributes, Bolds
    <2>3. \E out \in {NoOp, UpTo(e2, k), keep(k, b)} :
             followOps(e1, e2, r) = Result(out, From(e1, k), From(e2, k))
      <3>1. /\ e1.opcode = "-" => followOps(e1, e2, r) = Result(NoOp, From(e1, k), From(e2, k))
            /\ e1.opcode # "-" /\ e2.opcode = "-"
                 => followOps(e1, e2, r) = Result(UpTo(e2, k), From(e1, k), From(e2, k))
            /\ e1.opcode # "-" /\ e2.opcode # "-"
                 => followOps(e1, e2, r) = Result(keep(k, b), From(e1, k), From(e2, k))
        BY <1>4, <2>0 DEF followOps
      <3> HIDE DEF k, b
      <3> QED BY <3>1
    <2> HIDE DEF k, b
    <2>4. {NoOp, UpTo(e2, k), keep(k, b)} \subseteq Loose(C)
      <3>1. keep(k, b) \in Ops(C)
        BY <2>1, <2>2, KeepRemove
      <3>2. Ops(C) \subseteq Loose(C) /\ NoOp \in Loose(C)
        BY OpsLoose
      <3> QED BY <2>1, <3>1, <3>2
    <2>5. PICK out \in Loose(C) : followOps(e1, e2, r) = Result(out, From(e1, k), From(e2, k))
      BY <2>3, <2>4
    <2> QED BY <2>1, <2>5, AnswersResult
  <1> QED BY <1>1, <1>2, <1>3, <1>4

-----------------------------------------------------------------------------
(* A zip comes to its end. *)

ZipKinds == {"slice", "follow", "reverse"}
Turned(kind, e1, e2) ==
    IF kind = "slice" THEN slicerZipperFunc(e1, e2) ELSE followOps(e1, e2, kind = "reverse")

Rest1(z) == Ahead(z.op1, z.in1)
Rest2(z) == Ahead(z.op2, z.in2)
Left(z)  == Length(Rest1(z)) + Length(Rest2(z))

\* A step of a zip from z to y, that takes e1 and e2 and leaves the ops t1 and t2.
Steps(C, kind, z, y, e1, t1, e2, t2) ==
    /\ Taken(C, Rest1(z), e1, t1) /\ Taken(C, Rest2(z), e2, t2)
    /\ e1 # NoOp \/ e2 # NoOp
    /\ Answers(C, e1, e2, Turned(kind, e1, e2))
    /\ Rest1(y) = Ahead(Turned(kind, e1, e2).op1, t1)
    /\ Rest2(y) = Ahead(Turned(kind, e1, e2).op2, t2)
    /\ y.out = Append(z.out, Turned(kind, e1, e2).out)
    /\ z.out \in Seq(Loose(C))

LEMMA ThroughZip ==
    ASSUME NEW kind \in ZipKinds, NEW e, NEW z,
           NEW e1, e1 = NextOp(z.op1, z.in1), NEW e2, e2 = NextOp(z.op2, z.in2)
    PROVE  Through(kind, e, z) = IF e1 = NoOp /\ e2 = NoOp THEN z ELSE Zipped(z, Turned(kind, e1, e2))
  <1>1. CASE kind = "slice"
    BY <1>1 DEF Through, Sliced, Turned
  <1>2. CASE kind = "follow"
    <2>1. Through(kind, e, z) = Followed(z, FALSE) /\ (kind = "reverse") = FALSE /\ kind # "slice"
      BY <1>2 DEF Through
    <2>2. Turned(kind, e1, e2) = followOps(e1, e2, FALSE)
      BY <2>1 DEF Turned
    <2> QED BY <2>1, <2>2 DEF Followed
  <1>3. CASE kind = "reverse"
    <2>1. Through(kind, e, z) = Followed(z, TRUE) /\ (kind = "reverse") = TRUE /\ kind # "slice"
      BY <1>3 DEF Through
    <2>2. Turned(kind, e1, e2) = followOps(e1, e2, TRUE)
      BY <2>1 DEF Turned
    <2> QED BY <2>1, <2>2 DEF Followed
  <1> QED BY <1>1, <1>2, <1>3 DEF ZipKinds

LEMMA TurnedAnswers ==
    ASSUME NEW C, NEW e1 \in Ops(C) \cup {NoOp}, NEW e2 \in Ops(C) \cup {NoOp},
           e1 # NoOp \/ e2 # NoOp, NEW kind \in ZipKinds
    PROVE  Answers(C, e1, e2, Turned(kind, e1, e2))
  <1>1. CASE kind = "slice"
    BY <1>1, SliceAnswers DEF Turned
  <1>2. CASE kind # "slice"
    <2> DEFINE r == kind = "reverse"
    <2>1. r \in BOOLEAN
      OBVIOUS
    <2>2. Turned(kind, e1, e2) = followOps(e1, e2, r)
      BY <1>2 DEF Turned
    <2> HIDE DEF r
    <2> QED BY <2>1, <2>2, FollowAnswers
  <1> QED BY <1>1, <1>2

LEMMA ZipFields ==
    ASSUME NEW C, NEW z \in ZipStates(C)
    PROVE  /\ z.op1 \in Ops(C) \cup {NoOp} /\ z.in1 \in Seq(Ops(C))
           /\ z.op2 \in Ops(C) \cup {NoOp} /\ z.in2 \in Seq(Ops(C)) /\ z.out \in Seq(Loose(C))
  BY DEF ZipStates

LEMMA ZipStep ==
    ASSUME NEW C, NEW kind \in ZipKinds, NEW e, NEW z \in ZipStates(C), NEW y, y = Through(kind, e, z)
    PROVE  /\ y \in ZipStates(C)
           /\ \/ Rest1(z) = <<>> /\ Rest2(z) = <<>> /\ y = z
              \/ \E e1, t1, e2, t2 : Steps(C, kind, z, y, e1, t1, e2, t2)
  <1> DEFINE e1 == NextOp(z.op1, z.in1)
             t1 == RestOf(z.op1, z.in1)
             e2 == NextOp(z.op2, z.in2)
             t2 == RestOf(z.op2, z.in2)
             res == Turned(kind, e1, e2)
  <1>1. /\ z.op1 \in Ops(C) \cup {NoOp} /\ z.in1 \in Seq(Ops(C))
        /\ z.op2 \in Ops(C) \cup {NoOp} /\ z.in2 \in Seq(Ops(C)) /\ z.out \in Seq(Loose(C))
    BY ZipFields
  <1>2. Taken(C, Rest1(z), e1, t1) /\ Taken(C, Rest2(z), e2, t2)
    BY <1>1, TakenIs DEF Rest1, Rest2
  <1>3. y = IF e1 = NoOp /\ e2 = NoOp THEN z ELSE Zipped(z, res)
    <2> HIDE DEF e1, e2
    <2>1. e1 = NextOp(z.op1, z.in1) /\ e2 = NextOp(z.op2, z.in2)
      BY DEF e1, e2
    <2> QED BY <2>1, ThroughZip
  <1> HIDE DEF e1, e2, res
  <1>4. CASE e1 = NoOp /\ e2 = NoOp
    <2>1. Rest1(z) = <<>> /\ Rest2(z) = <<>>
      <3>1. ~(NoOp \in Ops(C))
        BY OpsLoose
      <3> QED BY <1>2, <1>4, <3>1 DEF Taken
    <2> QED BY <1>3, <1>4, <2>1
  <1>5. CASE ~(e1 = NoOp /\ e2 = NoOp)
    <2>1. e1 \in Ops(C) \cup {NoOp} /\ e2 \in Ops(C) \cup {NoOp} /\ (e1 # NoOp \/ e2 # NoOp)
      BY <1>2, <1>5 DEF Taken
    <2>2. Answers(C, e1, e2, res)
      BY <2>1, TurnedAnswers DEF res
    <2>3. /\ y = Zipped(z, res) /\ t1 \in Seq(Ops(C)) /\ t2 \in Seq(Ops(C))
          /\ res.out \in Loose(C)
          /\ res.op1 \in Ops(C) \cup {NoOp} /\ res.op2 \in Ops(C) \cup {NoOp}
      BY <1>2, <1>3, <1>5, <2>2 DEF Taken, Answers
    <2>4. Append(z.out, res.out) \in Seq(Loose(C))
      <3> DEFINE L == Loose(C)
      <3>1. z.out \in Seq(L) /\ res.out \in L
        BY <1>1, <2>3
      <3> HIDE DEF L
      <3>2. Append(z.out, res.out) \in Seq(L)
        BY <3>1
      <3> QED BY <3>2 DEF L
    <2>5. /\ y.op1 = res.op1 /\ y.in1 = t1 /\ y.op2 = res.op2 /\ y.in2 = t2
          /\ y.out = Append(z.out, res.out)
      BY <2>3 DEF Zipped
    <2>6. y \in ZipStates(C)
      <3>1. y = [op1 |-> res.op1, in1 |-> t1, op2 |-> res.op2, in2 |-> t2, out |-> Append(z.out, res.out)]
        BY <2>3 DEF Zipped
      <3> HIDE DEF t1, t2
      <3> QED BY <2>3, <2>4, <3>1 DEF ZipStates
    <2>7. Steps(C, kind, z, y, e1, t1, e2, t2)
      <3> HIDE DEF t1, t2
      <3> QED BY <1>1, <1>2, <2>1, <2>2, <2>5 DEF Steps, Rest1, Rest2, res
    <2> QED BY <2>6, <2>7
  <1> QED BY <1>4, <1>5

LEMMA LeftTyped ==
    ASSUME NEW C, NEW z \in ZipStates(C)
    PROVE  Left(z) \in Nat /\ (Left(z) = 0 => Rest1(z) = <<>> /\ Rest2(z) = <<>>)
  <1>1. /\ z.op1 \in Ops(C) \cup {NoOp} /\ z.in1 \in Seq(Ops(C))
        /\ z.op2 \in Ops(C) \cup {NoOp} /\ z.in2 \in Seq(Ops(C))
    BY ZipFields
  <1> DEFINE r == Rest1(z)
             s == Rest2(z)
  <1>2. r \in Seq(Ops(C)) /\ s \in Seq(Ops(C))
    BY <1>1, AheadTyped DEF Rest1, Rest2
  <1> HIDE DEF r, s
  <1>3. /\ Length(r) \in Nat /\ (Length(r) = 0 => r = <<>>)
        /\ Length(s) \in Nat /\ (Length(s) = 0 => s = <<>>)
    BY <1>2, LengthAhead
  <1>4. Length(r) + Length(s) = 0 => Length(r) = 0 /\ Length(s) = 0
    BY <1>3
  <1> QED BY <1>3, <1>4 DEF Left, r, s

LEMMA TakenLength ==
    ASSUME NEW C, NEW r, NEW e, NEW t, Taken(C, r, e, t)
    PROVE  /\ e \in Ops(C) \cup {NoOp} /\ t \in Seq(Ops(C)) /\ r = Ahead(e, t)
           /\ Length(r) = e.n + Length(t) /\ e.n \in Nat /\ Length(t) \in Nat
  <1>1. t \in Seq(Ops(C)) /\ (e = NoOp \/ e \in Ops(C)) /\ ~(NoOp \in Ops(C))
    BY OpsLoose DEF Taken
  <1>2. r = Ahead(e, t)
    BY <1>1 DEF Taken, Ahead
  <1>3. Length(Ahead(e, t)) = e.n + Length(t) /\ e.n \in Nat /\ Length(t) \in Nat
    BY <1>1, LengthAhead
  <1> QED BY <1>1, <1>2, <1>3

LEMMA StepsLess ==
    ASSUME NEW C, NEW kind \in ZipKinds, NEW z, NEW y,
           NEW e1, NEW t1, NEW e2, NEW t2, Steps(C, kind, z, y, e1, t1, e2, t2)
    PROVE  Left(y) < Left(z)
  <1> DEFINE a == Turned(kind, e1, e2).op1
             b == Turned(kind, e1, e2).op2
  <1>1. /\ Length(Rest1(z)) = e1.n + Length(t1) /\ e1.n \in Nat /\ Length(t1) \in Nat
        /\ Length(Rest2(z)) = e2.n + Length(t2) /\ e2.n \in Nat /\ Length(t2) \in Nat
        /\ t1 \in Seq(Ops(C)) /\ t2 \in Seq(Ops(C))
    BY TakenLength DEF Steps
  <1>2. /\ a \in Ops(C) \cup {NoOp} /\ b \in Ops(C) \cup {NoOp} /\ a.n + b.n < e1.n + e2.n
        /\ Rest1(y) = Ahead(a, t1) /\ Rest2(y) = Ahead(b, t2)
    BY DEF Steps, Answers
  <1> HIDE DEF a, b
  <1>3. /\ Length(Ahead(a, t1)) = a.n + Length(t1) /\ a.n \in Nat
        /\ Length(Ahead(b, t2)) = b.n + Length(t2) /\ b.n \in Nat
    BY <1>1, <1>2, LengthAhead
  <1>4. a.n + Length(t1) + (b.n + Length(t2)) < e1.n + Length(t1) + (e2.n + Length(t2))
    <2> DEFINE p == a.n
               q == b.n
               u == e1.n
               v == e2.n
               l == Length(t1)
               m == Length(t2)
    <2>1. p \in Nat /\ q \in Nat /\ u \in Nat /\ v \in Nat /\ l \in Nat /\ m \in Nat /\ p + q < u + v
      BY <1>1, <1>2, <1>3
    <2> HIDE DEF p, q, u, v, l, m
    <2>2. p + l + (q + m) < u + l + (v + m)
      BY <2>1
    <2> QED BY <2>2 DEF p, q, u, v, l, m
  <1> QED BY <1>1, <1>2, <1>3, <1>4 DEF Left

\* What is true of the start of a zip and kept by its steps is true of its end,
\* and there nothing is left.
ZipTo(kind, in1, in2, n) == FoldTo(kind, <<>>, ZipStart(in1, in2), n)
ZipEnd(kind, in1, in2)   == ZipTo(kind, in1, in2, Length(in1) + Length(in2))

LEMMA ZipStartIs ==
    ASSUME NEW C, NEW in1 \in Seq(Ops(C)), NEW in2 \in Seq(Ops(C))
    PROVE  /\ ZipStart(in1, in2) \in ZipStates(C) /\ ZipStart(in1, in2).out = <<>>
           /\ Rest1(ZipStart(in1, in2)) = in1 /\ Rest2(ZipStart(in1, in2)) = in2
  <1>1. <<>> \in Seq(Loose(C))
    BY OpsLoose
  <1>2. ZipStart(in1, in2) \in ZipStates(C)
    BY <1>1 DEF ZipStart, ZipStates
  <1> QED BY <1>2 DEF ZipStart, Rest1, Rest2, Ahead

LEMMA ZipTyped ==
    ASSUME NEW C, NEW in1 \in Seq(Ops(C)), NEW in2 \in Seq(Ops(C)), NEW kind \in ZipKinds
    PROVE  \A n \in Nat : ZipTo(kind, in1, in2, n) \in ZipStates(C)
  <1> DEFINE x == ZipStart(in1, in2)
             P == ZipStates(C)
  <1>1. x \in P
    BY ZipStartIs
  <1>2. \A y \in P : \A e : Through(kind, e, y) \in P
    BY ZipStep
  <1> HIDE DEF x, P
  <1>3. \A n \in Nat : FoldTo(kind, <<>>, x, n) \in P
    BY <1>1, <1>2, FoldKeeps
  <1> QED BY <1>3 DEF x, P, ZipTo

\* The steps of a zip do not depend on anything else.
Nothing(n) == <<>>[n]

LEMMA ZipNext ==
    ASSUME NEW kind, NEW in1, NEW in2, NEW m \in Nat, NEW n, n = m + 1
    PROVE  ZipTo(kind, in1, in2, n) = Through(kind, Nothing(n), ZipTo(kind, in1, in2, m))
  BY FoldToNext DEF ZipTo, Nothing

LEMMA ZipEnds ==
    ASSUME NEW C, NEW in1 \in Seq(Ops(C)), NEW in2 \in Seq(Ops(C)), NEW kind \in ZipKinds
    PROVE  /\ Length(in1) + Length(in2) \in Nat
           /\ ZipEnd(kind, in1, in2) \in ZipStates(C)
           /\ Rest1(ZipEnd(kind, in1, in2)) = <<>> /\ Rest2(ZipEnd(kind, in1, in2)) = <<>>
  <1> DEFINE total == Length(in1) + Length(in2)
             z(n) == ZipTo(kind, in1, in2, n)
             N == {n \in Nat : Left(z(n)) + n <= total \/ Left(z(n)) = 0}
  <1>1. total \in Nat
    <2>1. in1 \in Seq(Loose(C)) /\ in2 \in Seq(Loose(C))
      BY OpsLoose
    <2>2. Length(in1) \in Nat /\ Length(in2) \in Nat
      BY <2>1, LengthTyped
    <2> QED BY <2>2
  <1>2. \A n \in Nat : z(n) \in ZipStates(C) /\ Left(z(n)) \in Nat
    BY ZipTyped, LeftTyped
  <1>3. 0 \in N
    <2>1. z(0) = ZipStart(in1, in2)
      BY FoldToFirst DEF ZipTo
    <2>2. Left(z(0)) = total
      BY <2>1, ZipStartIs DEF Left
    <2> HIDE DEF total, z
    <2> QED BY <1>1, <2>2
  <1>4. ASSUME NEW n \in Nat, n \in N
        PROVE  n + 1 \in N
    <2> DEFINE m == n + 1
    <2>1. m \in Nat /\ m = n + 1
      OBVIOUS
    <2> HIDE DEF m
    <2> DEFINE e == Nothing(m)
    <2>2. z(m) = Through(kind, e, z(n))
      BY <2>1, ZipNext
    <2> HIDE DEF e
    <2>3. \/ Rest1(z(n)) = <<>> /\ Rest2(z(n)) = <<>> /\ z(m) = z(n)
          \/ \E e1, t1, e2, t2 : Steps(C, kind, z(n), z(m), e1, t1, e2, t2)
      <3> DEFINE u == z(n)
                 v == z(m)
      <3>1. u \in ZipStates(C) /\ v = Through(kind, e, u)
        BY <1>2, <2>2
      <3> HIDE DEF u, v
      <3>2. \/ Rest1(u) = <<>> /\ Rest2(u) = <<>> /\ v = u
            \/ \E e1, t1, e2, t2 : Steps(C, kind, u, v, e1, t1, e2, t2)
        BY <3>1, ZipStep
      <3> QED BY <3>2 DEF u, v
    <2>4. CASE Rest1(z(n)) = <<>> /\ Rest2(z(n)) = <<>> /\ z(m) = z(n)
      <3>1. Left(z(m)) = Length(<<>>) + Length(<<>>)
        BY <2>4 DEF Left
      <3>2. Left(z(m)) = 0
        BY <3>1, LengthEmpty
      <3>3. m \in N
        BY <2>1, <3>2
      <3> QED BY <2>1, <3>3
    <2>5. CASE \E e1, t1, e2, t2 : Steps(C, kind, z(n), z(m), e1, t1, e2, t2)
      <3>1. Left(z(m)) < Left(z(n))
        BY <2>5, StepsLess
      <3>2. Left(z(m)) \in Nat /\ Left(z(n)) \in Nat
        BY <1>2, <2>1
      <3>3. Left(z(n)) + n <= total \/ Left(z(n)) = 0
        BY <1>4
      <3> HIDE DEF z, total
      <3>4. Left(z(m)) + m <= total
        BY <1>1, <2>1, <3>1, <3>2, <3>3
      <3>5. m \in N
        BY <2>1, <3>4
      <3> QED BY <2>1, <3>5
    <2> QED BY <2>3, <2>4, <2>5
  <1> HIDE DEF N
  <1>5. Nat \subseteq N
    BY <1>3, <1>4, NumberInduction
  <1>6. Left(z(total)) + total <= total \/ Left(z(total)) = 0
    BY <1>1, <1>5 DEF N
  <1>7. Left(z(total)) = 0
    <2>1. Left(z(total)) \in Nat
      BY <1>1, <1>2
    <2> HIDE DEF z, total
    <2> QED BY <1>1, <1>6, <2>1
  <1>8. z(total) \in ZipStates(C)
    BY <1>1, <1>2
  <1>9. Rest1(z(total)) = <<>> /\ Rest2(z(total)) = <<>>
    <2> HIDE DEF z, total
    <2> QED BY <1>7, <1>8, LeftTyped
  <1> QED BY <1>1, <1>8, <1>9 DEF ZipEnd

LEMMA ZipKeeps ==
    ASSUME NEW C, NEW in1 \in Seq(Ops(C)), NEW in2 \in Seq(Ops(C)), NEW kind \in ZipKinds,
           NEW P, ZipStart(in1, in2) \in P,
           \A z \in ZipStates(C), y \in ZipStates(C) : \A e1, t1, e2, t2 :
               z \in P /\ Steps(C, kind, z, y, e1, t1, e2, t2) => y \in P
    PROVE  ZipEnd(kind, in1, in2) \in P
  <1> DEFINE x == ZipStart(in1, in2)
             Q == P \cap ZipStates(C)
  <1>1. x \in Q
    BY ZipStartIs
  <1>2. ASSUME NEW z \in Q, NEW e
        PROVE  Through(kind, e, z) \in Q
    <2> DEFINE y == Through(kind, e, z)
    <2>1. z \in ZipStates(C) /\ y = Through(kind, e, z)
      OBVIOUS
    <2> HIDE DEF y
    <2>2. /\ y \in ZipStates(C)
          /\ \/ Rest1(z) = <<>> /\ Rest2(z) = <<>> /\ y = z
             \/ \E e1, t1, e2, t2 : Steps(C, kind, z, y, e1, t1, e2, t2)
      BY <2>1, ZipStep
    <2>3. y \in P
      BY <2>1, <2>2
    <2> QED BY <2>2, <2>3 DEF y
  <1> HIDE DEF x, Q
  <1>3. \A n \in Nat : FoldTo(kind, <<>>, x, n) \in Q
    BY <1>1, <1>2, FoldKeeps
  <1>4. Length(in1) + Length(in2) \in Nat
    BY ZipEnds
  <1> QED BY <1>3, <1>4 DEF x, Q, ZipEnd, ZipTo

-----------------------------------------------------------------------------
(* Applying and composing. *)

LEMMA PutsLen ==
    ASSUME NEW C, NEW e \in Ops(C), e.opcode # "-", NEW i \in Seq(Cells(C)), Enough(e, i)
    PROVE  Len(Puts(e, i)) = e.n
  <1>1. /\ e.opcode \in {"+", "-", "="} /\ e.n \in Nat /\ e.text \in Seq(C) /\ e.bold \in Bolds
        /\ e.opcode = "+" => Len(e.text) = e.n
    BY OpFields
  <1>2. CASE e.opcode = "+"
    <2>1. Len(CellsOf(e.text, e.bold)) = Len(e.text)
      BY <1>1, CellsOfSeq
    <2> QED BY <1>1, <1>2, <2>1 DEF Puts
  <1>3. CASE e.opcode = "="
    <2> DEFINE t == Take(i, e.n)
    <2>1. t \in Seq(Cells(C)) /\ Len(t) = e.n
      BY <1>1, <1>3, CellsCut DEF Enough
    <2> HIDE DEF t
    <2>2. Len(Styled(t, e.bold)) = Len(t)
      BY <1>1, <2>1, StyledSeq
    <2> QED BY <1>3, <2>1, <2>2 DEF Puts, t
  <1> QED BY <1>1, <1>2, <1>3

\* An op that takes just what was put before w.
LEMMA PutsOn ==
    ASSUME NEW C, NEW e \in Ops(C), e.opcode # "+", NEW p \in Seq(Cells(C)), NEW w \in Seq(Cells(C)),
           Len(p) = e.n
    PROVE  /\ Enough(e, p \o w) /\ Leaves(e, p \o w) = w
           /\ Puts(e, p \o w) = IF e.opcode = "-" THEN <<>> ELSE Styled(p, e.bold)
  <1> DEFINE n == e.n
             v == p \o w
  <1>1. n \in Nat /\ ~(n > Len(p)) /\ n = Len(p)
    <2>1. n \in Nat
      BY OpFields
    <2> HIDE DEF n
    <2>2. n = Len(p)
      BY DEF n
    <2> QED BY <2>1, <2>2
  <1>2. v \in Seq(Cells(C)) /\ Len(v) = Len(p) + Len(w)
    BY CellsConcat
  <1>3. ~(n > Len(v))
    <2>1. Len(p) \in Nat /\ Len(w) \in Nat
      OBVIOUS
    <2> HIDE DEF n, v
    <2> QED BY <1>1, <1>2, <2>1
  <1>4. Take(v, n) = p /\ Drop(v, n) = w
    <2> HIDE DEF n
    <2> QED BY <1>1, CellsCutConcat
  <1> QED BY <1>3, <1>4 DEF Enough, Leaves, Puts

\* What is kept and styled, or inserted with a style, twice.
LEMMA PutsStyled ==
    ASSUME NEW C, NEW a \in Ops(C), a.opcode # "-", NEW b \in Bolds, NEW i \in Seq(Cells(C)), Enough(a, i),
           NEW s, s = composeAttributes(a.bold, b, a.opcode = "="),
           NEW c, c = [a EXCEPT !.bold = s]
    PROVE  /\ c \in Ops(C) /\ Enough(c, i) /\ Leaves(c, i) = Leaves(a, i)
           /\ Puts(c, i) = Styled(Puts(a, i), b)
  <1>1. /\ a.opcode \in {"+", "="} /\ a.n \in Nat /\ a.text \in Seq(C) /\ a.bold \in Bolds
    BY OpFields
  <1>2. s \in Bolds
    BY <1>1 DEF composeAttributes, Bolds
  <1>3. c \in Ops(C) /\ c.opcode = a.opcode /\ c.n = a.n /\ c.text = a.text /\ c.bold = s
    BY <1>2, Restyled
  <1>4. CASE a.opcode = "+"
    <2>1. s = SetStyle(a.bold, b)
      BY <1>4 DEF SetStyle
    <2>2. Styled(CellsOf(a.text, a.bold), b) = CellsOf(a.text, SetStyle(a.bold, b))
      BY <1>1, CellsOfStyled
    <2> QED BY <1>3, <1>4, <2>1, <2>2 DEF Puts, Leaves, Enough
  <1>5. CASE a.opcode = "="
    <2>1. s = BothStyles(a.bold, b)
      BY <1>5 DEF BothStyles
    <2> DEFINE t == Take(i, a.n)
    <2>2. t \in Seq(Cells(C))
      BY <1>1, <1>5, CellsCut DEF Enough
    <2> HIDE DEF t
    <2>3. Styled(Styled(t, a.bold), b) = Styled(t, BothStyles(a.bold, b))
      BY <1>1, <2>2, StyledTwice
    <2> QED BY <1>3, <1>5, <2>1, <2>3 DEF Puts, Leaves, Enough, t
  <1> QED BY <1>1, <1>4, <1>5

-----------------------------------------------------------------------------
(* Texts and lists of ops, without what they are made of. *)

Lists(C)  == Seq(Ops(C))

LEMMA NilTyped ==
    ASSUME NEW C
    PROVE  Nil \in Texts(C) /\ Nil \in Lists(C) /\ Lists(C) \subseteq Seq(Loose(C))
  BY CellsAssoc, OpsLoose DEF Texts, Lists, Nil

LEMMA HeadIs ==
    ASSUME NEW C, NEW e \in Ops(C), NEW s \in Lists(C), NEW i \in Texts(C), FitsOn(Led(e, s), i)
    PROVE  /\ Enough(e, i) /\ Puts(e, i) \in Texts(C) /\ Leaves(e, i) \in Texts(C)
           /\ FitsOn(s, Leaves(e, i)) /\ Makes(Led(e, s), i) = Cat(Puts(e, i), Makes(s, Leaves(e, i)))
           /\ Act(e, State(Nil, i)) = State(Puts(e, i), Leaves(e, i))
           /\ Makes(s, Leaves(e, i)) \in Texts(C)
  <1>0. e \in Ops(C) /\ s \in Seq(Ops(C)) /\ i \in Seq(Cells(C)) /\ FitsOn(<<e>> \o s, i)
    BY DEF Texts, Lists, Led
  <1>1. s \in Seq(Loose(C))
    BY <1>0, OpsLoose
  <1>2. Enough(e, i)
    BY <1>0, <1>1, HeadEnough
  <1>3. /\ Puts(e, i) \in Seq(Cells(C)) /\ Leaves(e, i) \in Seq(Cells(C))
        /\ Act(e, State(<<>>, i)) = State(Puts(e, i), Leaves(e, i))
    BY <1>0, <1>2, ActPuts
  <1>4. /\ FitsOn(Led(e, s), i) <=> FitsOn(s, Leaves(e, i))
        /\ FitsOn(s, Leaves(e, i)) => Makes(Led(e, s), i) = Puts(e, i) \o Makes(s, Leaves(e, i))
    <2>1. e \in Ops(C) /\ s \in Seq(Loose(C)) /\ i \in Seq(Cells(C)) /\ Enough(e, i)
      BY <1>0, <1>1, <1>2
    <2> QED BY <2>1, HeadPuts
  <1>5. Makes(s, Leaves(e, i)) \in Seq(Cells(C))
    <2> DEFINE j == Leaves(e, i)
    <2>1. j \in Seq(Cells(C))
      BY <1>3
    <2> HIDE DEF j
    <2>2. Makes(s, j) \in Seq(Cells(C))
      BY <1>1, <2>1, MakesTyped
    <2> QED BY <2>2 DEF j
  <1> QED BY <1>0, <1>2, <1>3, <1>4, <1>5 DEF Texts, Led, Nil, Cat

LEMMA CutIs ==
    ASSUME NEW C, NEW e \in Ops(C), NEW s \in Lists(C), NEW k \in Nat, 0 < k, k <= e.n, NEW i \in Texts(C)
    PROVE  /\ FitsOn(Led(e, s), i) <=> FitsOn(Led(UpTo(e, k), Ahead(From(e, k), s)), i)
           /\ Makes(Led(e, s), i) = Makes(Led(UpTo(e, k), Ahead(From(e, k), s)), i)
           /\ Ahead(From(e, k), s) \in Lists(C)
  <1>1. s \in Seq(Ops(C)) /\ i \in Seq(Cells(C))
    BY DEF Texts, Lists
  <1>2. Ahead(From(e, k), s) \in Seq(Ops(C))
    <2>1. From(e, k) = NoOp \/ From(e, k) \in Ops(C)
      BY CutOp
    <2> QED BY <1>1, <2>1, AheadTyped
  <1>3. /\ FitsOn(<<e>> \o s, i) <=> FitsOn(<<UpTo(e, k)>> \o Ahead(From(e, k), s), i)
        /\ Makes(<<e>> \o s, i) = Makes(<<UpTo(e, k)>> \o Ahead(From(e, k), s), i)
    BY <1>1, HeadCut
  <1> QED BY <1>2, <1>3 DEF Led, Lists

LEMMA PutsOnIs ==
    ASSUME NEW C, NEW e \in Ops(C), e.opcode # "+", NEW p \in Texts(C), NEW w \in Texts(C),
           Len(p) = e.n
    PROVE  /\ Enough(e, Cat(p, w)) /\ Leaves(e, Cat(p, w)) = w
           /\ Puts(e, Cat(p, w)) = IF e.opcode = "-" THEN Nil ELSE Styled(p, e.bold)
  BY PutsOn DEF Texts, Cat, Nil

\* After a step of a slice: what it puts out of the text i, and what is left of
\* the two lists, make up m.
SliceLeaves(C, m, res, s1, s2, i) ==
    \E p, j \in Texts(C) :
        /\ Act(res.out, State(Nil, i)) = State(p, j)
        /\ FitsOn(Ahead(res.op1, s1), j)
        /\ FitsOn(Ahead(res.op2, s2), Makes(Ahead(res.op1, s1), j))
        /\ m = Cat(p, Makes(Ahead(res.op2, s2), Makes(Ahead(res.op1, s1), j)))

LEMMA SliceLeavesIs ==
    ASSUME NEW C, NEW p \in Texts(C), NEW j \in Texts(C), NEW o, NEW a, NEW b, NEW s1, NEW s2, NEW i,
           NEW u1, u1 = Ahead(a, s1), NEW u2, u2 = Ahead(b, s2),
           Act(o, State(Nil, i)) = State(p, j), FitsOn(u1, j), FitsOn(u2, Makes(u1, j)),
           NEW m, m = Cat(p, Makes(u2, Makes(u1, j))), NEW res, res = Result(o, a, b)
    PROVE  SliceLeaves(C, m, res, s1, s2, i)
  BY ResultFields DEF SliceLeaves

LEMMA AheadIs ==
    ASSUME NEW C, NEW s
    PROVE  Ahead(NoOp, s) = s /\ \A e \in Ops(C) : Ahead(e, s) = Led(e, s)
  BY OpFields DEF Ahead, Led

LEMMA NilMakes ==
    ASSUME NEW C, NEW t \in Texts(C)
    PROVE  FitsOn(Nil, t) /\ Makes(Nil, t) = t
  BY MakesNothing DEF Texts, Nil

LEMMA MakesText ==
    ASSUME NEW C, NEW s \in Lists(C), NEW t \in Texts(C)
    PROVE  Makes(s, t) \in Texts(C)
  BY MakesTyped, OpsLoose DEF Texts, Lists

\* An insertion does not depend on the text it is at.
LEMMA InsertIs ==
    ASSUME NEW C, NEW e \in Ops(C), e.opcode = "+", NEW i \in Texts(C)
    PROVE  /\ Act(e, State(Nil, i)) = State(Puts(e, i), i) /\ Leaves(e, i) = i
           /\ Puts(e, i) \in Texts(C)
           /\ \A w : Puts(e, w) = Puts(e, i) /\ Leaves(e, w) = w
  <1>1. i \in Seq(Cells(C)) /\ Enough(e, i)
    BY DEF Texts, Enough
  <1>2. Puts(e, i) \in Seq(Cells(C)) /\ Act(e, State(<<>>, i)) = State(Puts(e, i), Leaves(e, i))
    BY <1>1, ActPuts
  <1> QED BY <1>2 DEF Texts, Puts, Leaves, Nil

LEMMA SliceNothing ==
    ASSUME NEW C, NEW s \in Lists(C), NEW i \in Texts(C), NEW e \in Ops(C), FitsOn(Led(e, s), i)
    PROVE  SliceLeaves(C, Makes(Led(e, s), i), Result(e, NoOp, NoOp), Nil, s, i)
           /\ SliceLeaves(C, Makes(Led(e, s), i), Result(e, NoOp, NoOp), s, Nil, i)
  <1> DEFINE p == Puts(e, i)
             j == Leaves(e, i)
             w == Makes(s, j)
             m == Makes(Led(e, s), i)
  <1>1. /\ p \in Texts(C) /\ j \in Texts(C) /\ FitsOn(s, j) /\ m = Cat(p, w)
        /\ Act(e, State(Nil, i)) = State(p, j) /\ w \in Texts(C)
    BY HeadIs
  <1>2. Ahead(NoOp, s) = s /\ Ahead(NoOp, Nil) = Nil
    BY AheadIs
  <1> HIDE DEF p, j, m
  <1>3. FitsOn(Nil, j) /\ Makes(Nil, j) = j
    BY <1>1, NilMakes
  <1>4. FitsOn(Nil, w) /\ Makes(Nil, w) = w
    <2> HIDE DEF w
    <2> QED BY <1>1, NilMakes
  <1> DEFINE res == Result(e, NoOp, NoOp)
  <1>5. SliceLeaves(C, m, res, Nil, s, i)
    BY <1>1, <1>2, <1>3, SliceLeavesIs
  <1>6. SliceLeaves(C, m, res, s, Nil, i)
    BY <1>1, <1>2, <1>4, SliceLeavesIs
  <1> QED BY <1>5, <1>6 DEF m

LEMMA SliceRemoved ==
    ASSUME NEW C, NEW s1 \in Lists(C), NEW s2 \in Lists(C), NEW i \in Texts(C),
           NEW e1 \in Ops(C), e1.opcode = "-", NEW e2 \in Ops(C),
           FitsOn(Led(e1, s1), i), FitsOn(Led(e2, s2), Makes(Led(e1, s1), i))
    PROVE  SliceLeaves(C, Makes(Led(e2, s2), Makes(Led(e1, s1), i)), Result(e1, NoOp, e2), s1, s2, i)
  <1> DEFINE p == Puts(e1, i)
             j == Leaves(e1, i)
             w == Makes(s1, j)
             u2 == Led(e2, s2)
             m == Makes(u2, w)
             res == Result(e1, NoOp, e2)
  <1>1. /\ p \in Texts(C) /\ j \in Texts(C) /\ FitsOn(s1, j) /\ Makes(Led(e1, s1), i) = Cat(p, w)
        /\ Act(e1, State(Nil, i)) = State(p, j) /\ w \in Texts(C)
    BY HeadIs
  <1>2. p = Nil
    BY DEF Puts, Nil
  <1>3. Cat(p, w) = w
    BY <1>1, <1>2, CatLaws
  <1>4. u2 \in Lists(C) /\ m \in Texts(C)
    <2>1. u2 \in Lists(C)
      BY AheadTyped DEF Lists, Ahead, Led
    <2> HIDE DEF u2, w
    <2> QED BY <1>1, <2>1, MakesText
  <1>5. m = Cat(p, m)
    <2> HIDE DEF m
    <2> QED BY <1>2, <1>4, CatLaws
  <1>6. Ahead(NoOp, s1) = s1 /\ Ahead(e2, s2) = u2
    BY AheadIs
  <1>7. FitsOn(u2, w)
    BY <1>1, <1>3
  <1> HIDE DEF p, j, u2
  <1>8. SliceLeaves(C, m, res, s1, s2, i)
    BY <1>1, <1>5, <1>6, <1>7, SliceLeavesIs
  <1> QED BY <1>8, <1>1, <1>3 DEF m, u2

LEMMA SliceInserted ==
    ASSUME NEW C, NEW s1 \in Lists(C), NEW s2 \in Lists(C), NEW i \in Texts(C),
           NEW e1 \in Ops(C), NEW e2 \in Ops(C), e2.opcode = "+",
           FitsOn(Led(e1, s1), i), FitsOn(Led(e2, s2), Makes(Led(e1, s1), i))
    PROVE  SliceLeaves(C, Makes(Led(e2, s2), Makes(Led(e1, s1), i)), Result(e2, e1, NoOp), s1, s2, i)
  <1> DEFINE u1 == Led(e1, s1)
             w == Makes(u1, i)
             p == Puts(e2, i)
             m == Makes(Led(e2, s2), w)
             res == Result(e2, e1, NoOp)
  <1>1. /\ p \in Texts(C) /\ Act(e2, State(Nil, i)) = State(p, i)
        /\ Puts(e2, w) = p /\ Leaves(e2, w) = w
    BY InsertIs
  <1>2. w \in Texts(C)
    <2>1. u1 \in Lists(C)
      BY AheadTyped DEF Lists, Ahead, Led
    <2> HIDE DEF u1
    <2> QED BY <2>1, MakesText
  <1> HIDE DEF p
  <1>3. FitsOn(s2, w) /\ m = Cat(p, Makes(s2, w))
    <2>1. FitsOn(Led(e2, s2), w)
      OBVIOUS
    <2> HIDE DEF w
    <2>2. FitsOn(s2, Leaves(e2, w)) /\ m = Cat(Puts(e2, w), Makes(s2, Leaves(e2, w)))
      BY <1>2, <2>1, HeadIs
    <2> QED BY <1>1, <2>2
  <1>4. Ahead(NoOp, s2) = s2 /\ Ahead(e1, s1) = u1
    BY AheadIs
  <1>6. FitsOn(u1, i)
    OBVIOUS
  <1> HIDE DEF m
  <1>5. SliceLeaves(C, m, res, s1, s2, i)
    <2> HIDE DEF u1
    <2> QED BY <1>1, <1>3, <1>4, <1>6, SliceLeavesIs
  <1> QED BY <1>5 DEF m

\* What comes out of an op cut to k characters and one that takes just those.
SliceOut(a, e2, k) ==
    IF e2.opcode = "-" THEN IF a.opcode = "+" THEN NoOp ELSE remove(k)
    ELSE [a EXCEPT !.bold = composeAttributes(@, e2.bold, a.opcode = "=")]

LEMMA SliceOutIs ==
    ASSUME NEW C, NEW k \in Nat, 0 < k, NEW a \in Ops(C), a.n = k, a.opcode # "-",
           NEW e2 \in Ops(C), e2.opcode # "+", NEW i \in Texts(C), Enough(a, i)
    PROVE  Act(SliceOut(a, e2, k), State(Nil, i))
             = State(IF e2.opcode = "-" THEN Nil ELSE Styled(Puts(a, i), e2.bold), Leaves(a, i))
  <1>0. i \in Seq(Cells(C))
    BY DEF Texts
  <1>1. CASE e2.opcode = "-" /\ a.opcode = "+"
    <2>1. Act(NoOp, State(Nil, i)) = State(Nil, i)
      BY ActNothing, NoOpFields
    <2> QED BY <1>1, <2>1 DEF SliceOut, Leaves
  <1>2. CASE e2.opcode = "-" /\ a.opcode # "+"
    <2> DEFINE c == remove(k)
               b == "none"
    <2>1. c \in Ops(C) /\ c.opcode = "-" /\ c.n = k
      <3>1. b \in Bolds
        BY DEF Bolds
      <3> HIDE DEF b
      <3> QED BY <3>1, KeepRemove
    <2>2. Enough(c, i) /\ Leaves(c, i) = Leaves(a, i) /\ Puts(c, i) = Nil
      <3> HIDE DEF c
      <3> QED BY <1>2, <2>1 DEF Enough, Leaves, Puts, Nil
    <2>3. Act(c, State(<<>>, i)) = State(Puts(c, i), Leaves(c, i))
      <3> HIDE DEF c
      <3> QED BY <1>0, <2>1, <2>2, ActPuts
    <2> QED BY <1>2, <2>2, <2>3 DEF SliceOut, Nil
  <1>3. CASE e2.opcode # "-"
    <2> DEFINE s == composeAttributes(a.bold, e2.bold, a.opcode = "=")
               c == [a EXCEPT !.bold = s]
               b == e2.bold
    <2>1. b \in Bolds
      BY OpFields
    <2>2. c \in Ops(C) /\ Enough(c, i) /\ Leaves(c, i) = Leaves(a, i) /\ Puts(c, i) = Styled(Puts(a, i), b)
      <3>1. s = composeAttributes(a.bold, b, a.opcode = "=")
        OBVIOUS
      <3> HIDE DEF b, s
      <3> QED BY <1>0, <2>1, <3>1, PutsStyled
    <2>3. Act(c, State(<<>>, i)) = State(Puts(c, i), Leaves(c, i))
      <3> HIDE DEF c
      <3> QED BY <1>0, <2>2, ActPuts
    <2> QED BY <1>3, <2>2, <2>3 DEF SliceOut, Nil
  <1> QED BY <1>1, <1>2, <1>3

\* slicerZipperFunc, when it cuts.
LEMMA SlicerCuts ==
    ASSUME NEW C, NEW e1 \in Ops(C), NEW e2 \in Ops(C), e1.opcode # "-", e2.opcode # "+",
           NEW k, k = Shorter(e1, e2)
    PROVE  slicerZipperFunc(e1, e2) = Result(SliceOut(UpTo(e1, k), e2, k), From(e1, k), From(e2, k))
  <1>1. e1.opcode \in {"+", "="} /\ e2.opcode \in {"-", "="}
    BY OpFields
  <1>2. UpTo(e1, k).opcode = e1.opcode
    BY ShorterCuts
  <1> QED BY <1>1, <1>2 DEF slicerZipperFunc, SliceOut

LEMMA SliceCut ==
    ASSUME NEW C, NEW s1 \in Lists(C), NEW s2 \in Lists(C), NEW i \in Texts(C),
           NEW e1 \in Ops(C), NEW e2 \in Ops(C), e1.opcode # "-", e2.opcode # "+",
           FitsOn(Led(e1, s1), i), FitsOn(Led(e2, s2), Makes(Led(e1, s1), i))
    PROVE  SliceLeaves(C, Makes(Led(e2, s2), Makes(Led(e1, s1), i)), slicerZipperFunc(e1, e2), s1, s2, i)
  <1> DEFINE k  == Shorter(e1, e2)
             a  == UpTo(e1, k)
             b  == UpTo(e2, k)
             f1 == From(e1, k)
             f2 == From(e2, k)
             u1 == Ahead(f1, s1)
             u2 == Ahead(f2, s2)
             p  == Puts(a, i)
             j  == Leaves(a, i)
             w  == Makes(u1, j)
             v  == Makes(Led(e1, s1), i)
             m  == Makes(Led(e2, s2), v)
             q  == IF e2.opcode = "-" THEN Nil ELSE Styled(p, e2.bold)
             o  == SliceOut(a, e2, k)
  <1>1. /\ k \in Nat /\ 0 < k /\ k <= e1.n /\ k <= e2.n
        /\ a \in Ops(C) /\ b \in Ops(C) /\ a.n = k /\ b.n = k
        /\ a.opcode = e1.opcode /\ b.opcode = e2.opcode /\ b.bold = e2.bold
    BY ShorterCuts
  <1>2. /\ FitsOn(Led(a, u1), i) /\ v = Makes(Led(a, u1), i) /\ u1 \in Lists(C)
    <2> HIDE DEF k
    <2> QED BY <1>1, CutIs
  <1> HIDE DEF v
  <1>3. /\ Enough(a, i) /\ p \in Texts(C) /\ j \in Texts(C)
        /\ FitsOn(u1, j) /\ v = Cat(p, w) /\ w \in Texts(C)
    <2> HIDE DEF a, u1
    <2> QED BY <1>1, <1>2, HeadIs
  <1>4. Len(p) = b.n
    <2>1. i \in Seq(Cells(C)) /\ a.opcode # "-"
      BY <1>1 DEF Texts
    <2> HIDE DEF a, b, k
    <2> QED BY <1>1, <1>3, <2>1, PutsLen
  <1>5. v \in Texts(C)
    <2> HIDE DEF p, w
    <2> QED BY <1>3, CatLaws
  <1>6. FitsOn(Led(b, u2), v) /\ m = Makes(Led(b, u2), v) /\ u2 \in Lists(C)
    <2>1. FitsOn(Led(e2, s2), v)
      BY DEF v
    <2> HIDE DEF k
    <2> QED BY <1>1, <1>5, <2>1, CutIs
  <1> HIDE DEF m
  <1>7. Enough(b, v) /\ Leaves(b, v) = w /\ Puts(b, v) = q
    <2> HIDE DEF b, p, w
    <2> QED BY <1>1, <1>3, <1>4, PutsOnIs
  <1>8. FitsOn(u2, w) /\ m = Cat(q, Makes(u2, w)) /\ q \in Texts(C)
    <2> HIDE DEF b, u2, q, w
    <2> QED BY <1>1, <1>5, <1>6, <1>7, HeadIs
  <1>9. Act(o, State(Nil, i)) = State(q, j)
    <2> HIDE DEF a, k
    <2> QED BY <1>1, <1>3, SliceOutIs
  <1>10. slicerZipperFunc(e1, e2) = Result(o, f1, f2)
    BY SlicerCuts
  <1>11. SliceLeaves(C, m, slicerZipperFunc(e1, e2), s1, s2, i)
    <2> HIDE DEF o, f1, f2, q, j
    <2> QED BY <1>3, <1>8, <1>9, <1>10, SliceLeavesIs
  <1> QED BY <1>11 DEF m, v

LEMMA TakenAs ==
    ASSUME NEW C, NEW r, NEW e, NEW t, Taken(C, r, e, t)
    PROVE  /\ t \in Lists(C)
           /\ (e = NoOp /\ r = Nil /\ t = Nil) \/ (e \in Ops(C) /\ r = Led(e, t))
  BY DEF Taken, Lists, Nil, Led

LEMMA SliceStep ==
    ASSUME NEW C, NEW r1, NEW r2, NEW e1, NEW e2, NEW t1, NEW t2, NEW i \in Texts(C),
           Taken(C, r1, e1, t1), Taken(C, r2, e2, t2), e1 # NoOp \/ e2 # NoOp,
           FitsOn(r1, i), FitsOn(r2, Makes(r1, i))
    PROVE  SliceLeaves(C, Makes(r2, Makes(r1, i)), slicerZipperFunc(e1, e2), t1, t2, i)
  <1>1. /\ t1 \in Lists(C) /\ t2 \in Lists(C)
        /\ (e1 = NoOp /\ r1 = Nil /\ t1 = Nil) \/ (e1 \in Ops(C) /\ r1 = Led(e1, t1))
        /\ (e2 = NoOp /\ r2 = Nil /\ t2 = Nil) \/ (e2 \in Ops(C) /\ r2 = Led(e2, t2))
    BY TakenAs
  <1>2. FitsOn(Nil, i) /\ Makes(Nil, i) = i
    BY NilMakes
  <1>3. NoOp.opcode = "" /\ ~(NoOp \in Ops(C))
    BY NoOpFields, OpsLoose
  <1>4. CASE e1 = NoOp
    <2>1. e2 \in Ops(C) /\ e2 # NoOp
      BY <1>1, <1>4
    <2>2. slicerZipperFunc(e1, e2) = Result(e2, NoOp, NoOp)
      BY <1>3, <1>4 DEF slicerZipperFunc
    <2>3. FitsOn(Led(e2, t2), i) /\ Makes(r2, Makes(r1, i)) = Makes(Led(e2, t2), i) /\ t1 = Nil
      BY <1>1, <1>2, <1>3, <1>4, <2>1
    <2> QED BY <1>1, <2>1, <2>2, <2>3, SliceNothing
  <1>5. CASE e1 # NoOp /\ e2 = NoOp
    <2>1. e1 \in Ops(C) /\ r1 = Led(e1, t1) /\ r2 = Nil /\ t2 = Nil
      BY <1>1, <1>3, <1>5
    <2>2. slicerZipperFunc(e1, e2) = Result(e1, NoOp, NoOp)
      <3>1. e1.opcode # ""
        BY <2>1, OpFields
      <3> QED BY <1>3, <1>5, <3>1 DEF slicerZipperFunc
    <2> DEFINE w == Makes(r1, i)
    <2>3. w \in Texts(C)
      <3>1. r1 \in Lists(C)
        BY <1>1, <2>1, AheadTyped DEF Lists, Ahead, Led
      <3> QED BY <3>1, MakesText
    <2>4. Makes(r2, w) = w
      <3> HIDE DEF w
      <3> QED BY <2>1, <2>3, NilMakes
    <2> QED BY <1>1, <2>1, <2>2, <2>4, SliceNothing
  <1>6. CASE e1 # NoOp /\ e2 # NoOp
    <2>1. /\ e1 \in Ops(C) /\ r1 = Led(e1, t1) /\ e2 \in Ops(C) /\ r2 = Led(e2, t2)
          /\ FitsOn(Led(e1, t1), i) /\ FitsOn(Led(e2, t2), Makes(Led(e1, t1), i))
      BY <1>1, <1>6
    <2>2. e1.opcode # "" /\ e2.opcode # ""
      BY <2>1, OpFields
    <2>3. CASE e1.opcode = "-"
      <3>1. slicerZipperFunc(e1, e2) = Result(e1, NoOp, e2)
        BY <2>2, <2>3 DEF slicerZipperFunc
      <3> QED BY <1>1, <2>1, <2>3, <3>1, SliceRemoved
    <2>4. CASE e1.opcode # "-" /\ e2.opcode = "+"
      <3>1. slicerZipperFunc(e1, e2) = Result(e2, e1, NoOp)
        BY <2>2, <2>4 DEF slicerZipperFunc
      <3> QED BY <1>1, <2>1, <2>4, <3>1, SliceInserted
    <2>5. CASE e1.opcode # "-" /\ e2.opcode # "+"
      BY <1>1, <2>1, <2>5, SliceCut
    <2> QED BY <2>3, <2>4, <2>5
  <1> QED BY <1>4, <1>5, <1>6

LEMMA ActBehind ==
    ASSUME NEW C, NEW e \in Loose(C), NEW i \in Texts(C), NEW o \in Texts(C),
           NEW p \in Texts(C), NEW j \in Texts(C), Act(e, State(Nil, i)) = State(p, j)
    PROVE  Act(e, State(o, i)) = State(Cat(o, p), j)
  <1>1. /\ o \in Seq(Cells(C)) /\ i \in Seq(Cells(C)) /\ p \in Seq(Cells(C)) /\ j \in Seq(Cells(C))
        /\ Act(e, State(<<>>, i)) = State(p, j)
    BY DEF Texts, Nil
  <1> DEFINE L == Loose(C)
             s == <<e>>
  <1>2. s \in Seq(L)
    <2>1. e \in L
      OBVIOUS
    <2> HIDE DEF L
    <2> QED BY <2>1
  <1>3. After(s, State(o, i)) = Act(e, State(o, i)) /\ After(s, State(<<>>, i)) = State(p, j)
    BY <1>1, AfterOne
  <1> HIDE DEF s
  <1>4. After(s, State(o, i)) = Extended(o, After(s, State(<<>>, i)), <<>>)
    BY <1>1, <1>2, FrameBefore
  <1>5. j \o <<>> = j
    BY <1>1, CellsAssoc
  <1>6. State(p, j).ok = TRUE /\ State(p, j).out = p /\ State(p, j).in = j
    BY StateFields
  <1> QED BY <1>3, <1>4, <1>5, <1>6 DEF Extended, Cat

\* Between two steps of a slice: what has been put out of t, and what is left of
\* the lists, make up m.
SliceMakes(C, z, t, m) ==
    \E o, i \in Texts(C) :
        /\ After(z.out, State(Nil, t)) = State(o, i)
        /\ FitsOn(Rest1(z), i) /\ FitsOn(Rest2(z), Makes(Rest1(z), i))
        /\ m = Cat(o, Makes(Rest2(z), Makes(Rest1(z), i)))

LEMMA SliceMakesNext ==
    ASSUME NEW C, NEW z, NEW y, NEW e1, NEW t1, NEW e2, NEW t2, Steps(C, "slice", z, y, e1, t1, e2, t2),
           NEW t \in Texts(C), NEW m, SliceMakes(C, z, t, m)
    PROVE  SliceMakes(C, y, t, m)
  <1> DEFINE res == slicerZipperFunc(e1, e2)
             r1 == Rest1(z)
             r2 == Rest2(z)
             u1 == Ahead(res.op1, t1)
             u2 == Ahead(res.op2, t2)
  <1>1. /\ Taken(C, r1, e1, t1) /\ Taken(C, r2, e2, t2) /\ (e1 # NoOp \/ e2 # NoOp)
        /\ res.out \in Loose(C) /\ Rest1(y) = u1 /\ Rest2(y) = u2
        /\ y.out = Append(z.out, res.out) /\ z.out \in Seq(Loose(C))
    BY DEF Steps, Turned, Answers
  <1>2. PICK o \in Texts(C), i \in Texts(C) :
            /\ After(z.out, State(Nil, t)) = State(o, i)
            /\ FitsOn(r1, i) /\ FitsOn(r2, Makes(r1, i))
            /\ m = Cat(o, Makes(r2, Makes(r1, i)))
    BY DEF SliceMakes
  <1> DEFINE d == Makes(r2, Makes(r1, i))
  <1>3. SliceLeaves(C, d, res, t1, t2, i)
    <2> HIDE DEF r1, r2
    <2>1. e1 # NoOp \/ e2 # NoOp
      BY <1>1
    <2> QED BY <1>1, <1>2, <2>1, SliceStep
  <1> HIDE DEF res
  <1>4. PICK p \in Texts(C), j \in Texts(C) :
            /\ Act(res.out, State(Nil, i)) = State(p, j)
            /\ FitsOn(u1, j) /\ FitsOn(u2, Makes(u1, j))
            /\ d = Cat(p, Makes(u2, Makes(u1, j)))
    BY <1>3 DEF SliceLeaves
  <1> DEFINE w == Makes(u2, Makes(u1, j))
             c == Cat(o, p)
  <1>5. After(y.out, State(Nil, t)) = State(c, j)
    <2>1. After(y.out, State(Nil, t)) = Act(res.out, State(o, i))
      BY <1>1, <1>2, AfterAppend
    <2> QED BY <1>1, <1>4, <2>1, ActBehind
  <1>6. c \in Texts(C)
    BY CatLaws
  <1>7. w \in Texts(C)
    <2>1. u1 \in Lists(C) /\ u2 \in Lists(C)
      <3>1. Answers(C, e1, e2, res)
        BY DEF Steps, Turned, res
      <3>2. res.op1 \in Ops(C) \cup {NoOp} /\ res.op2 \in Ops(C) \cup {NoOp}
        BY <3>1 DEF Answers
      <3>3. t1 \in Seq(Ops(C)) /\ t2 \in Seq(Ops(C))
        BY <1>1 DEF Taken
      <3> QED BY <3>2, <3>3, AheadTyped DEF Lists
    <2> HIDE DEF u1, u2
    <2> DEFINE g == Makes(u1, j)
    <2>2. g \in Texts(C)
      BY <2>1, MakesText
    <2> HIDE DEF g
    <2>3. Makes(u2, g) \in Texts(C)
      BY <2>1, <2>2, MakesText
    <2> QED BY <2>3 DEF g
  <1>8. m = Cat(c, w)
    <2> HIDE DEF w, d
    <2>1. m = Cat(o, d) /\ d = Cat(p, w)
      BY <1>2, <1>4 DEF w, d
    <2> QED BY <1>7, <2>1, CatLaws DEF c
  <1> HIDE DEF c, u1, u2
  <1> QED BY <1>1, <1>4, <1>5, <1>6, <1>8 DEF SliceMakes

LEMMA FoundMakes ==
    ASSUME NEW s, NEW t, NEW o, NEW i, After(s, State(Nil, t)) = State(o, i)
    PROVE  FitsOn(s, t) /\ Makes(s, t) = Cat(o, i)
  <1>1. After(s, State(<<>>, t)) = State(o, i)
    BY DEF Nil
  <1> DEFINE x == After(s, State(<<>>, t))
  <1>2. x.ok = TRUE /\ x.out = o /\ x.in = i
    <2> HIDE DEF x
    <2>1. x = State(o, i)
      BY <1>1 DEF x
    <2> QED BY <2>1, StateFields
  <1>3. FitsOn(s, t) = x.ok /\ Makes(s, t) = x.out \o x.in
    BY DEF FitsOn, Makes
  <1> HIDE DEF x
  <1> QED BY <1>2, <1>3 DEF Cat

\* What comes out of a slice makes of a text what both lists make of it.
LEMMA SliceLaw ==
    ASSUME NEW C, NEW in1 \in Lists(C), NEW in2 \in Lists(C), NEW t \in Texts(C),
           FitsOn(in1, t), FitsOn(in2, Makes(in1, t))
    PROVE  /\ ZipEnd("slice", in1, in2).out \in Seq(Loose(C))
           /\ FitsOn(ZipEnd("slice", in1, in2).out, t)
           /\ Makes(ZipEnd("slice", in1, in2).out, t) = Makes(in2, Makes(in1, t))
  <1> DEFINE m == Makes(in2, Makes(in1, t))
             kind == "slice"
             z0 == ZipStart(in1, in2)
             P == {z \in ZipStates(C) : SliceMakes(C, z, t, m)}
             z == ZipEnd(kind, in1, in2)
  <1>1. in1 \in Seq(Ops(C)) /\ in2 \in Seq(Ops(C)) /\ kind \in ZipKinds
    BY DEF Lists, ZipKinds
  <1>2. in2 \in Lists(C) /\ Makes(in1, t) \in Texts(C) /\ m \in Texts(C)
    <2> DEFINE g == Makes(in1, t)
    <2>1. g \in Texts(C)
      BY MakesText
    <2> HIDE DEF g
    <2>2. Makes(in2, g) \in Texts(C)
      BY <2>1, MakesText
    <2> QED BY <2>1, <2>2 DEF g
  <1>3. z0 \in P
    <2>1. z0 \in ZipStates(C) /\ z0.out = Nil /\ Rest1(z0) = in1 /\ Rest2(z0) = in2
      BY <1>1, ZipStartIs DEF Nil
    <2>2. After(z0.out, State(Nil, t)) = State(Nil, t)
      BY <2>1, AfterNothing DEF Nil
    <2>3. Nil \in Texts(C) /\ m = Cat(Nil, m)
      <3> HIDE DEF m
      <3> QED BY <1>2, NilTyped, CatLaws
    <2>4. SliceMakes(C, z0, t, m)
      <3> HIDE DEF z0
      <3> QED BY <2>1, <2>2, <2>3 DEF SliceMakes
    <2> QED BY <2>1, <2>4
  <1> HIDE DEF z0, m
  <1>4. \A x \in ZipStates(C), y \in ZipStates(C) : \A e1, t1, e2, t2 :
            x \in P /\ Steps(C, kind, x, y, e1, t1, e2, t2) => y \in P
    BY SliceMakesNext
  <1> HIDE DEF P, kind
  <1>5. z \in P
    BY <1>1, <1>3, <1>4, ZipKeeps DEF z0
  <1>6. z \in ZipStates(C) /\ SliceMakes(C, z, t, m) /\ Rest1(z) = Nil /\ Rest2(z) = Nil
    BY <1>1, <1>5, ZipEnds DEF P, Nil
  <1>7. z.out \in Seq(Loose(C))
    BY <1>6, ZipFields
  <1> HIDE DEF z
  <1>8. PICK o \in Texts(C), i \in Texts(C) :
            /\ After(z.out, State(Nil, t)) = State(o, i)
            /\ m = Cat(o, Makes(Nil, Makes(Nil, i)))
    BY <1>6 DEF SliceMakes
  <1>9. m = Cat(o, i)
    <2>1. Makes(Nil, i) = i
      BY NilMakes
    <2> QED BY <1>8, <2>1
  <1>10. FitsOn(z.out, t) /\ Makes(z.out, t) = Cat(o, i)
    BY <1>8, FoundMakes
  <1> QED BY <1>7, <1>9, <1>10 DEF z, kind, m

-----------------------------------------------------------------------------
(* What assemblers make of a list of ops: first its order. *)

Inserts(C) == {op \in Ops(C) : op.opcode = "+"}

LEMMA FinalInsertsIs ==
    ASSUME NEW C, NEW ops \in Seq(Ops(C)), NEW k, k = FinalInserts(ops)
    PROVE  /\ k \in 0 .. Len(ops)
           /\ \A i \in k + 1 .. Len(ops) : ops[i].opcode = "+"
           /\ k > 0 => ops[k].opcode # "+"
  <1> DEFINE Q(m) == \A i \in m + 1 .. Len(ops) : ops[i].opcode = "+"
             S == {m \in 0 .. Len(ops) : Q(m)}
  <1>0. Len(ops) \in Nat
    OBVIOUS
  <1>1. Len(ops) \in S
    BY <1>0
  <1>2. PICK m \in S : \A n \in S : m <= n
    <2>1. S \in SUBSET Nat /\ S # {}
      BY <1>0, <1>1
    <2> HIDE DEF S
    <2> QED BY <2>1, LeastNumber
  <1>3. m > 0 => ops[m].opcode # "+"
    <2> SUFFICES ASSUME m > 0, ops[m].opcode = "+"
                 PROVE  FALSE
      OBVIOUS
    <2>1. m \in 0 .. Len(ops) /\ Q(m)
      OBVIOUS
    <2>2. m - 1 \in 0 .. Len(ops) /\ ~(m <= m - 1)
      BY <1>0, <2>1
    <2>3. Q(m - 1)
      BY <1>0, <2>1
    <2> QED BY <1>2, <2>2, <2>3
  <1>4. \E j \in 0 .. Len(ops) : Q(j) /\ (j > 0 => ops[j].opcode # "+")
    BY <1>3
  <1> QED BY <1>4 DEF FinalInserts

\* Where a removal goes: before the insertions that end ops.
PutBefore(C, ops, e, res) ==
    \E u \in Seq(Ops(C)), v \in Seq(Inserts(C)) :
        /\ ops = u \o v /\ res = (u \o <<e>>) \o v
        /\ u # <<>> => Last(u).opcode # "+"
LEMMA ReorderedIs ==
    ASSUME NEW C, NEW ops \in Seq(Ops(C)), NEW e \in Ops(C), e.opcode = "-"
    PROVE  PutBefore(C, ops, e, Reordered(ops, e))
  <1> DEFINE k == FinalInserts(ops)
             u == Take(ops, k)
             v == Drop(ops, k)
             S == Ops(C)
  <1>0. e.n # 0
    BY OpFields
  <1>1. /\ k \in 0 .. Len(ops)
        /\ \A i \in k + 1 .. Len(ops) : ops[i].opcode = "+"
        /\ k > 0 => ops[k].opcode # "+"
    BY FinalInsertsIs
  <1> DEFINE n == k + 1
  <1>2. Reordered(ops, e) = SubSeq(ops, 1, n - 1) \o <<e>> \o SubSeq(ops, n, Len(ops))
    BY <1>0 DEF Reordered, InsertAt
  <1> HIDE DEF k
  <1>3. n - 1 = k
    BY <1>1
  <1>4. Reordered(ops, e) = (u \o <<e>>) \o v
    BY <1>2, <1>3 DEF Take, Drop
  <1>5. /\ u \in Seq(S) /\ Len(u) = k /\ \A i \in 1 .. k : u[i] = ops[i]
        /\ v \in Seq(S) /\ Len(v) = Len(ops) - k /\ \A i \in 1 .. Len(ops) - k : v[i] = ops[k + i]
        /\ u \o v = ops
    <2>1. ops \in Seq(S)
      OBVIOUS
    <2> HIDE DEF S
    <2> QED BY <1>1, <2>1, TakeDrop, ZenonT(60)
  <1> HIDE DEF u, v
  <1>6. v \in Seq(Inserts(C))
    <2>1. \A i \in 1 .. Len(v) : v[i] \in Inserts(C)
      <3> TAKE i \in 1 .. Len(v)
      <3>1. v[i] \in S
        <4> HIDE DEF S
        <4> QED BY <1>5
      <3>2. v[i] = ops[k + i] /\ k + i \in k + 1 .. Len(ops)
        BY <1>1, <1>5
      <3>3. v[i].opcode = "+"
        BY <1>1, <3>2
      <3> QED BY <3>1, <3>3 DEF Inserts
    <2> DEFINE I == Inserts(C)
    <2> HIDE DEF I
    <2>2. \A i \in 1 .. Len(v) : v[i] \in I
      BY <2>1 DEF I
    <2>3. Len(v) \in Nat /\ v = [i \in 1 .. Len(v) |-> v[i]]
      BY <1>5
    <2>4. v \in Seq(I)
      BY <2>2, <2>3
    <2> QED BY <2>4 DEF I
  <1>7. u # <<>> => Last(u).opcode # "+"
    <2> HAVE u # <<>>
    <2>1. Len(u) > 0
      BY <1>5
    <2>2. u[k] = ops[k] /\ k > 0
      BY <1>1, <1>5, <2>1
    <2>3. Last(u) = u[k]
      BY <1>5 DEF Last
    <2> QED BY <1>1, <2>2, <2>3
  <1> QED BY <1>4, <1>5, <1>6, <1>7 DEF PutBefore

\* A removal may be made before all the insertions that end a list.
LEMMA InsertsCommute ==
    ASSUME NEW C, NEW e \in Ops(C), e.opcode = "-"
    PROVE  \A s \in Seq(Inserts(C)), x \in States(C) : After(s, Act(e, x)) = Act(e, After(s, x))
  <1> DEFINE S == Inserts(C)
             P == {s \in Seq(S) : \A x \in States(C) : After(s, Act(e, x)) = Act(e, After(s, x))}
  <1>0. S \subseteq Ops(C) /\ S \subseteq Loose(C) /\ Seq(S) \subseteq Seq(Loose(C)) /\ e \in Loose(C)
    BY OpsLoose DEF Inserts
  <1>0a. \A a \in S : a \in Ops(C) /\ a.opcode = "+"
    BY DEF Inserts
  <1> HIDE DEF S
  <1>1. <<>> \in P
    BY AfterNothing
  <1>2. ASSUME NEW s \in Seq(S), NEW a \in S, s \in P
        PROVE  Append(s, a) \in P
    <2>1. ASSUME NEW x \in States(C)
          PROVE  After(Append(s, a), Act(e, x)) = Act(e, After(Append(s, a), x))
      <3> DEFINE y == After(s, x)
      <3>1. After(Append(s, a), Act(e, x)) = Act(a, After(s, Act(e, x)))
        BY <1>0, AfterAppend
      <3>2. After(s, Act(e, x)) = Act(e, y)
        BY <1>2
      <3>3. After(Append(s, a), x) = Act(a, y)
        BY <1>0, AfterAppend
      <3>4. y \in States(C)
        BY <1>0, AfterTyped
      <3> HIDE DEF y
      <3>5. Act(e, Act(a, y)) = Act(a, Act(e, y))
        BY <1>0a, <3>4, ActCommutes
      <3> QED BY <3>1, <3>2, <3>3, <3>5
    <2>2. Append(s, a) \in Seq(S)
      OBVIOUS
    <2> QED BY <2>1, <2>2
  <1> HIDE DEF P
  <1>3. Seq(S) \subseteq P
    BY <1>1, <1>2, SeqInduction
  <1> QED BY <1>3 DEF P, S

LEMMA ReorderedActs ==
    ASSUME NEW C, NEW ops \in Seq(Ops(C)), NEW e \in Loose(C), NEW x \in States(C)
    PROVE  /\ Reordered(ops, e) \in Seq(Ops(C))
           /\ After(Reordered(ops, e), x) = Act(e, After(ops, x))
  <1>0. ops \in Seq(Loose(C))
    BY OpsLoose
  <1>1. CASE e.n = 0
    BY <1>1, ActNothing DEF Reordered
  <1>2. CASE e.n # 0 /\ e.opcode # "-"
    <2>1. Reordered(ops, e) = Append(ops, e) /\ e \in Ops(C)
      BY <1>2, LooseFields DEF Reordered
    <2>2. After(Append(ops, e), x) = Act(e, After(ops, x))
      BY <1>0, AfterAppend
    <2> DEFINE S == Ops(C)
    <2>3. Append(ops, e) \in Seq(S)
      <3>1. e \in S /\ ops \in Seq(S)
        BY <2>1
      <3> HIDE DEF S
      <3> QED BY <3>1
    <2> QED BY <2>1, <2>2, <2>3
  <1>3. CASE e.n # 0 /\ e.opcode = "-"
    <2>1. e \in Ops(C)
      BY <1>3, LooseFields
    <2>2. PICK u \in Seq(Ops(C)), v \in Seq(Inserts(C)) :
               /\ ops = u \o v /\ Reordered(ops, e) = (u \o <<e>>) \o v
               /\ u # <<>> => Last(u).opcode # "+"
      <3>1. PutBefore(C, ops, e, Reordered(ops, e))
        BY <1>3, <2>1, ReorderedIs
      <3> QED BY <3>1 DEF PutBefore
    <2> DEFINE S == Ops(C)
               g == <<e>>
               w == u \o g
    <2>3. u \in Seq(S) /\ v \in Seq(S) /\ g \in Seq(S) /\ w \in Seq(S) /\ w \o v \in Seq(S)
      <3>1. u \in Seq(S) /\ e \in S
        BY <2>1
      <3>2. Inserts(C) \subseteq S
        BY DEF Inserts
      <3>3. v \in Seq(S)
        BY <3>2, SeqMonotonic
      <3> HIDE DEF S
      <3>4. g \in Seq(S)
        BY <3>1
      <3> HIDE DEF g
      <3>5. w \in Seq(S)
        BY <3>1, <3>4, ConcatProperties
      <3> HIDE DEF w
      <3>6. w \o v \in Seq(S)
        BY <3>3, <3>5, ConcatProperties
      <3> QED BY <3>1, <3>3, <3>4, <3>5, <3>6 DEF w
    <2>4. u \in Seq(Loose(C)) /\ v \in Seq(Loose(C)) /\ g \in Seq(Loose(C)) /\ w \in Seq(Loose(C))
      BY <2>3, OpsLoose
    <2> DEFINE y == After(u, x)
    <2>5. After(g, y) = Act(e, y)
      BY AfterOne
    <2>6. y \in States(C)
      BY <2>4, AfterTyped
    <2> HIDE DEF y, g
    <2>7. After(w, x) = Act(e, y)
      BY <2>4, <2>5, AfterConcat DEF y
    <2> HIDE DEF w
    <2>8. After(w \o v, x) = After(v, Act(e, y))
      BY <2>4, <2>7, AfterConcat
    <2>9. After(v, Act(e, y)) = Act(e, After(v, y))
      BY <1>3, <2>1, <2>6, InsertsCommute
    <2>10. After(u \o v, x) = After(v, y)
      BY <2>4, AfterConcat DEF y
    <2> QED BY <2>2, <2>3, <2>8, <2>9, <2>10 DEF w, g
  <1> QED BY <1>1, <1>2, <1>3

LEMMA ReorderAppend ==
    ASSUME NEW S, NEW s \in Seq(S), NEW e \in S
    PROVE  Reorder(Append(s, e)) = Reordered(Reorder(s), e)
  <1>1. Fold("reorder", Append(s, e), <<>>) = Through("reorder", e, Fold("reorder", s, <<>>))
    BY FoldAppend
  <1>2. Append(s, e) \in Seq(S)
    OBVIOUS
  <1>3. Reorder(s) = Fold("reorder", s, <<>>) /\ Reorder(Append(s, e)) = Fold("reorder", Append(s, e), <<>>)
    BY <1>2, ReorderIs DEF Fold
  <1> QED BY <1>1, <1>3 DEF Through

LEMMA ReorderEmpty == Reorder(<<>>) = <<>>
  <1> DEFINE s == <<>>
  <1>1. s \in Seq({})
    OBVIOUS
  <1>2. Fold("reorder", s, <<>>) = <<>>
    BY FoldEmpty
  <1> HIDE DEF s
  <1>3. Reorder(s) = Fold("reorder", s, <<>>)
    BY <1>1, ReorderIs DEF Fold
  <1> QED BY <1>2, <1>3 DEF s

LEMMA ReorderActs ==
    ASSUME NEW C
    PROVE  \A s \in Seq(Loose(C)) :
               /\ Reorder(s) \in Seq(Ops(C))
               /\ \A x \in States(C) : After(Reorder(s), x) = After(s, x)
  <1> DEFINE S == Loose(C)
             Q(s) == /\ Reorder(s) \in Seq(Ops(C))
                     /\ \A x \in States(C) : After(Reorder(s), x) = After(s, x)
             P == {s \in Seq(S) : Q(s)}
  <1>1. <<>> \in P
    BY ReorderEmpty, OpsLoose
  <1>2. ASSUME NEW s \in Seq(S), NEW e \in S, s \in P
        PROVE  Append(s, e) \in P
    <2> DEFINE r == Reorder(s)
               t == Append(s, e)
    <2>1. r \in Seq(Ops(C)) /\ \A x \in States(C) : After(r, x) = After(s, x)
      BY <1>2
    <2>2. Reorder(t) = Reordered(r, e)
      <3> HIDE DEF S
      <3> QED BY ReorderAppend
    <2>3. \A x \in States(C) : After(t, x) = Act(e, After(s, x))
      BY AfterAppend
    <2>4. t \in Seq(S)
      <3> HIDE DEF S
      <3> QED OBVIOUS
    <2> HIDE DEF r, t
    <2>5. NoOp \in Loose(C) /\ \A x \in States(C) : /\ Reordered(r, e) \in Seq(Ops(C))
                                /\ After(Reordered(r, e), x) = Act(e, After(r, x))
      BY <2>1, OpsLoose, ReorderedActs
    <2> DEFINE nil == <<>>
    <2>6. State(nil, nil) \in States(C)
      <3>1. nil \in Seq(Cells(C))
        OBVIOUS
      <3> HIDE DEF nil
      <3> QED BY <3>1, StateTyped
    <2> QED BY <2>1, <2>2, <2>3, <2>4, <2>5, <2>6 DEF t
  <1>3. Seq(S) \subseteq P
    <2> HIDE DEF P, S
    <2> QED BY <1>1, <1>2, SeqInduction
  <1> QED BY <1>3

\* What stands next to each other in s is related by R.
Chained(s, R) == \A i \in 1 .. Len(s) - 1 : <<s[i], s[i + 1]>> \in R

\* Removals before insertions; ops that cannot be merged.
InOrder(C) == {p \in Ops(C) \X Ops(C) : p[1].opcode = "+" => p[2].opcode # "-"}
Apart(C)   == {p \in Ops(C) \X Ops(C) : p[1].opcode # p[2].opcode \/ p[1].bold # p[2].bold}

LEMMA ChainedEmpty ==
    ASSUME NEW R
    PROVE  Chained(<<>>, R)
  <1>1. Len(<<>>) = 0
    OBVIOUS
  <1> QED BY <1>1 DEF Chained

LEMMA ChainedAppend ==
    ASSUME NEW S, NEW R, NEW s \in Seq(S), NEW e \in S
    PROVE  Chained(Append(s, e), R) <=> (Chained(s, R) /\ (s # <<>> => <<Last(s), e>> \in R))
  <1> DEFINE t == Append(s, e)
             m == Len(s)
  <1>1. m \in Nat /\ Len(t) = m + 1 /\ t[m + 1] = e /\ \A i \in 1 .. m : t[i] = s[i]
    BY AppendProperties
  <1>2. Last(s) = s[m] /\ (s # <<>> <=> m # 0)
    BY DEF Last
  <1> HIDE DEF t, m
  <1>3. Chained(t, R) <=> \A i \in 1 .. m : <<t[i], t[i + 1]>> \in R
    BY <1>1 DEF Chained
  <1>4. Chained(s, R) <=> \A i \in 1 .. m - 1 : <<t[i], t[i + 1]>> \in R
    <2>1. \A i \in 1 .. m - 1 : t[i] = s[i] /\ t[i + 1] = s[i + 1]
      BY <1>1
    <2> QED BY <2>1 DEF Chained, m
  <1>5. s # <<>> => (<<Last(s), e>> = <<t[m], t[m + 1]>> /\ m \in 1 .. m)
    BY <1>1, <1>2
  <1>6. s = <<>> => m = 0
    BY <1>2
  <1>7. \A i \in 1 .. m : i = m \/ i \in 1 .. m - 1
    BY <1>1
  <1>8. \A i \in 1 .. m - 1 : i \in 1 .. m
    BY <1>1
  <1>9. ~(\E i \in 1 .. 0 : TRUE)
    OBVIOUS
  <1> QED BY <1>3, <1>4, <1>5, <1>6, <1>7, <1>8, <1>9 DEF t

LEMMA ChainedConcat ==
    ASSUME NEW S, NEW R, NEW s \in Seq(S), NEW t \in Seq(S)
    PROVE  /\ Chained(s \o t, R) => Chained(s, R) /\ Chained(t, R)
           /\ Chained(s, R) /\ Chained(t, R) /\ (s # <<>> /\ t # <<>> => <<Last(s), t[1]>> \in R)
                => Chained(s \o t, R)
  <1> DEFINE u == s \o t
             m == Len(s)
             n == Len(t)
  <1>1. /\ m \in Nat /\ n \in Nat /\ Len(u) = m + n
        /\ \A i \in 1 .. m + n : u[i] = IF i <= m THEN s[i] ELSE t[i - m]
    BY ConcatProperties
  <1>2. Last(s) = s[m] /\ (s # <<>> <=> m # 0) /\ (t # <<>> <=> n # 0)
    BY DEF Last
  <1> HIDE DEF u, m, n
  <1>3. ASSUME Chained(u, R)
        PROVE  Chained(s, R) /\ Chained(t, R)
    <2>1. \A i \in 1 .. m - 1 : <<s[i], s[i + 1]>> \in R
      <3> TAKE i \in 1 .. m - 1
      <3>1. i \in 1 .. Len(u) - 1 /\ u[i] = s[i] /\ u[i + 1] = s[i + 1]
        BY <1>1
      <3> QED BY <1>3, <3>1 DEF Chained
    <2>2. \A i \in 1 .. n - 1 : <<t[i], t[i + 1]>> \in R
      <3> TAKE i \in 1 .. n - 1
      <3> DEFINE j == m + i
      <3>1. j \in 1 .. Len(u) - 1 /\ u[j] = t[i] /\ u[j + 1] = t[i + 1]
        <4>1. j \in 1 .. m + n /\ j + 1 \in 1 .. m + n /\ ~(j <= m) /\ ~(j + 1 <= m) /\ j - m = i /\ (j + 1) - m = i + 1
          BY <1>1
        <4>2. j \in 1 .. Len(u) - 1
          BY <1>1
        <4> HIDE DEF j
        <4>3. u[j] = t[j - m] /\ u[j + 1] = t[(j + 1) - m]
          BY <1>1, <4>1
        <4> QED BY <4>1, <4>2, <4>3
      <3> HIDE DEF j
      <3> QED BY <1>3, <3>1 DEF Chained
    <2> QED BY <2>1, <2>2 DEF Chained, m, n
  <1>4. ASSUME Chained(s, R), Chained(t, R), s # <<>> /\ t # <<>> => <<Last(s), t[1]>> \in R
        PROVE  Chained(u, R)
    <2>1. ASSUME NEW i \in 1 .. m + n - 1
          PROVE  <<u[i], u[i + 1]>> \in R
      <3>1. CASE i < m
        <4>1. u[i] = s[i] /\ u[i + 1] = s[i + 1] /\ i \in 1 .. m - 1
          BY <1>1, <3>1
        <4> QED BY <1>4, <4>1 DEF Chained, m
      <3>2. CASE i = m
        <4>1. u[i] = s[m] /\ u[i + 1] = t[1]
          <5>1. i + 1 \in 1 .. m + n /\ ~(i + 1 <= m) /\ i + 1 - m = 1 /\ i \in 1 .. m + n /\ i <= m
            BY <1>1, <3>2
          <5> QED BY <1>1, <3>2, <5>1
        <4>2. s # <<>> /\ t # <<>>
          BY <1>1, <1>2, <3>2
        <4> QED BY <1>2, <1>4, <4>1, <4>2
      <3>3. CASE i > m
        <4> DEFINE j == i - m
        <4>1. /\ j \in 1 .. n - 1 /\ i \in 1 .. m + n /\ i + 1 \in 1 .. m + n
              /\ ~(i <= m) /\ ~(i + 1 <= m) /\ i + 1 - m = j + 1
          BY <1>1, <3>3
        <4>2. u[i] = t[j] /\ u[i + 1] = t[i + 1 - m]
          BY <1>1, <4>1
        <4> HIDE DEF j
        <4> QED BY <1>4, <4>1, <4>2 DEF Chained, n
      <3> QED BY <1>1, <3>1, <3>2, <3>3
    <2> QED BY <1>1, <2>1 DEF Chained
  <1> QED BY <1>3, <1>4 DEF u

LEMMA InsertsChained ==
    ASSUME NEW C, NEW v \in Seq(Inserts(C))
    PROVE  /\ Chained(v, InOrder(C)) /\ v \in Seq(Ops(C))
           /\ v # <<>> => Last(v).opcode = "+" /\ v[1] \in Inserts(C)
  <1> DEFINE I == Inserts(C)
  <1>0. I \subseteq Ops(C) /\ \A a \in I : a.opcode = "+"
    BY DEF Inserts
  <1>1. v \in Seq(I)
    OBVIOUS
  <1> HIDE DEF I
  <1>2. Len(v) \in Nat /\ \A i \in 1 .. Len(v) : v[i] \in I
    BY <1>1
  <1>3. \A i \in 1 .. Len(v) - 1 : v[i] \in I /\ v[i + 1] \in I
    BY <1>2
  <1>4. \A a, b \in I : <<a, b>> \in InOrder(C)
    BY <1>0 DEF InOrder
  <1>5. Chained(v, InOrder(C))
    BY <1>3, <1>4 DEF Chained
  <1>6. v \in Seq(Ops(C))
    BY <1>0, <1>1, SeqMonotonic
  <1>7. v # <<>> => Last(v) \in I /\ v[1] \in I
    <2> HAVE v # <<>>
    <2>1. Len(v) \in 1 .. Len(v) /\ 1 \in 1 .. Len(v)
      BY <1>1, <1>2
    <2> QED BY <1>2, <2>1 DEF Last
  <1> QED BY <1>0, <1>5, <1>6, <1>7 DEF I

LEMMA ReorderedInOrder ==
    ASSUME NEW C, NEW ops \in Seq(Ops(C)), Chained(ops, InOrder(C)), NEW e \in Loose(C)
    PROVE  Chained(Reordered(ops, e), InOrder(C))
  <1> DEFINE S == Ops(C)
             R == InOrder(C)
  <1>0. \A a, b \in S : a.opcode # "+" \/ b.opcode # "-" => <<a, b>> \in R
    BY DEF InOrder
  <1>1. CASE e.n = 0
    BY <1>1 DEF Reordered
  <1>2. CASE e.n # 0 /\ e.opcode # "-"
    <2>1. Reordered(ops, e) = Append(ops, e) /\ e \in S
      BY <1>2, LooseFields DEF Reordered
    <2>2. ops # <<>> => Last(ops) \in S
      <3> HIDE DEF S
      <3>1. ops \in Seq(S)
        BY DEF S
      <3> QED BY <3>1 DEF Last
    <2>3. ops # <<>> => <<Last(ops), e>> \in R
      BY <1>0, <1>2, <2>1, <2>2
    <2>4. ops \in Seq(S) /\ Chained(ops, R)
      OBVIOUS
    <2> HIDE DEF S, R
    <2>5. Chained(Append(ops, e), R)
      BY <2>1, <2>3, <2>4, ChainedAppend
    <2> QED BY <2>1, <2>5 DEF R
  <1>3. CASE e.n # 0 /\ e.opcode = "-"
    <2>1. e \in S /\ PutBefore(C, ops, e, Reordered(ops, e))
      BY <1>3, LooseFields, ReorderedIs
    <2>2. PICK u \in Seq(S), v \in Seq(Inserts(C)) :
               /\ ops = u \o v /\ Reordered(ops, e) = (u \o <<e>>) \o v
               /\ u # <<>> => Last(u).opcode # "+"
      BY <2>1 DEF PutBefore
    <2> DEFINE w == Append(u, e)
    <2>3. /\ Chained(v, R) /\ v \in Seq(S) /\ (v # <<>> => v[1] \in S)
      BY InsertsChained DEF Inserts
    <2>4. Chained(u, R)
      <3>1. Chained(u \o v, R)
        BY <2>2
      <3> HIDE DEF R, S
      <3> QED BY <2>3, <3>1, ChainedConcat
    <2>5. u # <<>> => <<Last(u), e>> \in R
      <3>1. u # <<>> => Last(u) \in S
        <4> HIDE DEF S
        <4> QED BY DEF Last
      <3> QED BY <1>0, <2>1, <2>2, <3>1
    <2>6. w \in Seq(S) /\ w = u \o <<e>> /\ Last(w) = e
      <3>1. u \in Seq(S) /\ e \in S
        BY <2>1
      <3> HIDE DEF S
      <3> QED BY <3>1, AppendProperties, AppendIsConcat DEF Last
    <2>7. Chained(w, R)
      <3> HIDE DEF R, S
      <3> QED BY <2>1, <2>4, <2>5, ChainedAppend
    <2> HIDE DEF w
    <2>8. v # <<>> => <<Last(w), v[1]>> \in R
      BY <1>0, <1>3, <2>1, <2>3, <2>6
    <2>9. Chained(w \o v, R)
      <3> HIDE DEF R, S
      <3> QED BY <2>3, <2>6, <2>7, <2>8, ChainedConcat
    <2> QED BY <2>2, <2>6, <2>9
  <1> QED BY <1>1, <1>2, <1>3

LEMMA ReorderInOrder ==
    ASSUME NEW C
    PROVE  \A s \in Seq(Loose(C)) : Chained(Reorder(s), InOrder(C))
  <1> DEFINE S == Loose(C)
             R == InOrder(C)
             P == {s \in Seq(S) : Chained(Reorder(s), R)}
  <1>1. <<>> \in P
    BY ReorderEmpty, ChainedEmpty
  <1>2. ASSUME NEW s \in Seq(S), NEW e \in S, s \in P
        PROVE  Append(s, e) \in P
    <2>1. Reorder(s) \in Seq(Ops(C)) /\ Chained(Reorder(s), R)
      BY <1>2, ReorderActs
    <2>2. Reorder(Append(s, e)) = Reordered(Reorder(s), e)
      <3> HIDE DEF S
      <3> QED BY ReorderAppend
    <2>3. Append(s, e) \in Seq(S)
      <3> HIDE DEF S
      <3> QED OBVIOUS
    <2>4. Chained(Reordered(Reorder(s), e), R)
      BY <2>1, ReorderedInOrder
    <2> QED BY <2>2, <2>3, <2>4
  <1>3. Seq(S) \subseteq P
    <2> HIDE DEF P, S
    <2> QED BY <1>1, <1>2, SeqInduction
  <1> QED BY <1>3

\* What is in order stays as it is.
LEMMA ReorderedSame ==
    ASSUME NEW C, NEW s \in Seq(Ops(C)), NEW e \in Ops(C), s # <<>> => <<Last(s), e>> \in InOrder(C)
    PROVE  Reordered(s, e) = Append(s, e)
  <1> DEFINE S == Ops(C)
  <1>0. e.n # 0
    BY OpFields
  <1>1. CASE e.opcode # "-"
    BY <1>0, <1>1 DEF Reordered
  <1>2. CASE e.opcode = "-"
    <2>1. PutBefore(C, s, e, Reordered(s, e))
      BY <1>2, ReorderedIs
    <2>2. PICK u \in Seq(S), v \in Seq(Inserts(C)) :
               /\ s = u \o v /\ Reordered(s, e) = (u \o <<e>>) \o v
      BY <2>1 DEF PutBefore
    <2>3. s # <<>> => Last(s).opcode # "+"
      BY <1>2 DEF InOrder
    <2>4. v \in Seq(S) /\ (v # <<>> => Last(v).opcode = "+")
      BY InsertsChained
    <2>5. v = <<>>
      <3> SUFFICES ASSUME v # <<>>
                   PROVE  FALSE
        OBVIOUS
      <3>1. s # <<>> /\ Last(s) = Last(v)
        <4> HIDE DEF S
        <4>1. Len(s) = Len(u) + Len(v) /\ Len(v) \in Nat /\ Len(v) # 0 /\ Len(u) \in Nat
          BY <2>2, <2>4
        <4>2. s[Len(s)] = v[Len(v)]
          <5>1. Len(s) \in 1 .. Len(u) + Len(v) /\ ~(Len(s) <= Len(u)) /\ Len(s) - Len(u) = Len(v)
            BY <4>1
          <5> QED BY <2>2, <2>4, <5>1, ConcatProperties
        <4> QED BY <4>1, <4>2 DEF Last
      <3> QED BY <2>3, <2>4, <3>1
    <2>6. (u \o <<e>>) \o v = Append(u, e) /\ s = u
      <3>1. u \in Seq(S) /\ e \in S
        OBVIOUS
      <3> HIDE DEF S
      <3>2. Append(u, e) = u \o <<e>> /\ Append(u, e) \in Seq(S)
        BY <3>1, AppendIsConcat
      <3> DEFINE w == Append(u, e)
      <3> HIDE DEF w
      <3>3. w \o <<>> = w /\ u \o <<>> = u
        BY <3>2, ConcatEmptySeq DEF w
      <3> QED BY <2>2, <2>5, <3>2, <3>3 DEF w
    <2> QED BY <2>2, <2>6
  <1> QED BY <1>1, <1>2

LEMMA ReorderSame ==
    ASSUME NEW C
    PROVE  \A s \in Seq(Ops(C)) : Chained(s, InOrder(C)) => Reorder(s) = s
  <1> DEFINE S == Ops(C)
             R == InOrder(C)
             P == {s \in Seq(S) : Chained(s, R) => Reorder(s) = s}
  <1>1. <<>> \in P
    BY ReorderEmpty
  <1>2. ASSUME NEW s \in Seq(S), NEW e \in S, s \in P
        PROVE  Append(s, e) \in P
    <2>1. Append(s, e) \in Seq(S) /\ Reorder(Append(s, e)) = Reordered(Reorder(s), e)
      <3> HIDE DEF S
      <3> QED BY ReorderAppend
    <2>2. ASSUME Chained(Append(s, e), R)
          PROVE  Reorder(Append(s, e)) = Append(s, e)
      <3>1. Chained(s, R) /\ (s # <<>> => <<Last(s), e>> \in R)
        <4> HIDE DEF S, R
        <4> QED BY <2>2, ChainedAppend
      <3>2. Reordered(s, e) = Append(s, e)
        BY <3>1, ReorderedSame
      <3> QED BY <1>2, <2>1, <3>1, <3>2
    <2> QED BY <2>1, <2>2
  <1>3. Seq(S) \subseteq P
    <2> HIDE DEF P, S
    <2> QED BY <1>1, <1>2, SeqInduction
  <1> QED BY <1>3

-----------------------------------------------------------------------------
(* Then ops that do the same are merged. *)

\* An op is merged with the last one, or is put behind it.
MergedInto(C, ops, op, res) ==
    \/ /\ res = Append(ops, op)
       /\ ops # <<>> => <<Last(ops), op>> \in Apart(C)
    \/ \E f \in Seq(Ops(C)), l \in Ops(C) :
           /\ ops = Append(f, l) /\ l.opcode = op.opcode /\ l.bold = op.bold
           /\ res = Append(f, Joined(l, op))

LEMMA FrontLast ==
    ASSUME NEW S, NEW s \in Seq(S), s # <<>>
    PROVE  Front(s) \in Seq(S) /\ Last(s) \in S /\ s = Append(Front(s), Last(s))
  <1>1. PICK f \in Seq(S), l \in S : s = Append(f, l)
    BY SequenceEmptyOrAppend
  <1> DEFINE t == Append(f, l)
             m == Len(f)
  <1>2. t \in Seq(S) /\ m \in Nat /\ Len(t) = m + 1 /\ t[m + 1] = l /\ \A i \in 1 .. m : t[i] = f[i]
    BY AppendProperties
  <1> HIDE DEF t, m
  <1>3. Last(t) = l
    BY <1>2 DEF Last
  <1>4. Front(t) = f
    <2>1. Len(t) - 1 = m
      BY <1>2
    <2>2. Front(t) = SubSeq(t, 1, m)
      BY <2>1 DEF Front
    <2>3. SubSeq(t, 1, m) \in Seq(S) /\ Len(SubSeq(t, 1, m)) = m
          /\ \A i \in 1 .. m : SubSeq(t, 1, m)[i] = t[i]
      <3>1. m \in 0 .. Len(t)
        BY <1>2
      <3> QED BY <1>2, <3>1, TakeDrop DEF Take
    <2> DEFINE v == SubSeq(t, 1, m)
    <2> HIDE DEF v
    <2>4. v = f
      BY <1>2, <2>3, SeqEqual DEF v, m
    <2> QED BY <2>2, <2>4 DEF v
  <1> QED BY <1>1, <1>3, <1>4 DEF t

LEMMA MergedIs ==
    ASSUME NEW C, NEW ops \in Seq(Ops(C)), NEW op \in Ops(C)
    PROVE  MergedInto(C, ops, op, Merged(ops, op))
  <1> DEFINE S == Ops(C)
  <1>1. ops # <<>> => Front(ops) \in Seq(S) /\ Last(ops) \in S /\ ops = Append(Front(ops), Last(ops))
    <2> HIDE DEF S
    <2>1. ops \in Seq(S)
      BY DEF S
    <2> QED BY <2>1, FrontLast
  <1>2. CASE ops # <<>> /\ Last(ops).opcode = op.opcode /\ Last(ops).bold = op.bold
    <2> DEFINE f == Front(ops)
               l == Last(ops)
    <2>1. Merged(ops, op) = Append(f, Joined(l, op))
      BY <1>2 DEF Merged, Joined
    <2>2. f \in Seq(S) /\ l \in S /\ ops = Append(f, l) /\ l.opcode = op.opcode /\ l.bold = op.bold
      BY <1>1, <1>2
    <2> HIDE DEF f, l
    <2> QED BY <2>1, <2>2 DEF MergedInto
  <1>3. CASE ~(ops # <<>> /\ Last(ops).opcode = op.opcode /\ Last(ops).bold = op.bold)
    <2>1. Merged(ops, op) = Append(ops, op)
      BY <1>3 DEF Merged
    <2>2. ops # <<>> => <<Last(ops), op>> \in Apart(C)
      BY <1>1, <1>3 DEF Apart
    <2> QED BY <2>1, <2>2 DEF MergedInto
  <1> QED BY <1>2, <1>3

LEMMA AppendTyped ==
    ASSUME NEW C, NEW s \in Seq(Ops(C)), NEW e \in Ops(C)
    PROVE  /\ Append(s, e) \in Seq(Ops(C)) /\ s \in Seq(Loose(C)) /\ e \in Loose(C)
           /\ Append(s, e) # <<>> /\ Last(Append(s, e)) = e
  <1> DEFINE S == Ops(C)
  <1>1. s \in Seq(S) /\ e \in S
    OBVIOUS
  <1> HIDE DEF S
  <1>2. Append(s, e) \in Seq(S) /\ Append(s, e) # <<>> /\ Last(Append(s, e)) = e
    BY <1>1, AppendProperties DEF Last
  <1> QED BY <1>2, OpsLoose DEF S

LEMMA MergedActs ==
    ASSUME NEW C, NEW ops \in Seq(Ops(C)), NEW op \in Ops(C)
    PROVE  /\ Merged(ops, op) \in Seq(Ops(C)) /\ Merged(ops, op) # <<>>
           /\ Last(Merged(ops, op)).opcode = op.opcode
           /\ \A x \in States(C) : After(Merged(ops, op), x) = Act(op, After(ops, x))
  <1>1. MergedInto(C, ops, op, Merged(ops, op))
    BY MergedIs
  <1>2. CASE Merged(ops, op) = Append(ops, op)
    BY <1>2, AppendTyped, AfterAppend
  <1>3. ASSUME NEW f \in Seq(Ops(C)), NEW l \in Ops(C),
               ops = Append(f, l), l.opcode = op.opcode, l.bold = op.bold,
               Merged(ops, op) = Append(f, Joined(l, op))
        PROVE  /\ Merged(ops, op) \in Seq(Ops(C)) /\ Merged(ops, op) # <<>>
               /\ Last(Merged(ops, op)).opcode = op.opcode
               /\ \A x \in States(C) : After(Merged(ops, op), x) = Act(op, After(ops, x))
    <2> DEFINE j == Joined(l, op)
    <2>1. j \in Ops(C) /\ j.opcode = op.opcode
      <3>1. /\ j \in Ops(C)
            /\ j = [opcode |-> op.opcode, n |-> l.n + op.n, text |-> l.text \o op.text, bold |-> op.bold]
        BY <1>3, JoinedIs
      <3> HIDE DEF j
      <3> QED BY <3>1
    <2>2. \A x \in States(C) : Act(op, Act(l, x)) = Act(j, x)
      BY <1>3, ActJoined
    <2> HIDE DEF j
    <2>3. \A x \in States(C) : After(f, x) \in States(C) /\ After(Append(f, j), x) = Act(j, After(f, x))
                               /\ After(ops, x) = Act(l, After(f, x))
      BY <1>3, <2>1, AppendTyped, AfterAppend, AfterTyped
    <2>4. Append(f, j) \in Seq(Ops(C)) /\ Append(f, j) # <<>> /\ Last(Append(f, j)) = j
      BY <2>1, AppendTyped
    <2> QED BY <1>3, <2>1, <2>2, <2>3, <2>4 DEF j
  <1> QED BY <1>1, <1>2, <1>3 DEF MergedInto

LEMMA MergeAppend ==
    ASSUME NEW S, NEW s \in Seq(S), NEW e \in S
    PROVE  Merge(Append(s, e)) = Merged(Merge(s), e)
  <1>1. Fold("merge", Append(s, e), <<>>) = Through("merge", e, Fold("merge", s, <<>>))
    BY FoldAppend
  <1>2. Append(s, e) \in Seq(S)
    OBVIOUS
  <1>3. Merge(s) = Fold("merge", s, <<>>) /\ Merge(Append(s, e)) = Fold("merge", Append(s, e), <<>>)
    BY <1>2, MergeIs DEF Fold
  <1> QED BY <1>1, <1>3 DEF Through

LEMMA MergeEmpty == Merge(<<>>) = <<>>
  <1> DEFINE s == <<>>
  <1>1. s \in Seq({})
    OBVIOUS
  <1>2. Fold("merge", s, <<>>) = <<>>
    BY FoldEmpty
  <1> HIDE DEF s
  <1>3. Merge(s) = Fold("merge", s, <<>>)
    BY <1>1, MergeIs DEF Fold
  <1> QED BY <1>2, <1>3 DEF s

\* Merged ops do what they did.
LEMMA MergeActs ==
    ASSUME NEW C
    PROVE  \A s \in Seq(Ops(C)) :
               /\ Merge(s) \in Seq(Ops(C))
               /\ s # <<>> => Merge(s) # <<>> /\ Last(Merge(s)).opcode = Last(s).opcode
               /\ \A x \in States(C) : After(Merge(s), x) = After(s, x)
  <1> DEFINE S == Ops(C)
             Q(s) == /\ Merge(s) \in Seq(S)
                     /\ s # <<>> => Merge(s) # <<>> /\ Last(Merge(s)).opcode = Last(s).opcode
                     /\ \A x \in States(C) : After(Merge(s), x) = After(s, x)
             P == {s \in Seq(S) : Q(s)}
  <1>1. <<>> \in P
    BY MergeEmpty, OpsLoose
  <1>2. ASSUME NEW s \in Seq(S), NEW e \in S, s \in P
        PROVE  Append(s, e) \in P
    <2> DEFINE r == Merge(s)
               t == Append(s, e)
    <2>1. r \in Seq(S) /\ \A x \in States(C) : After(r, x) = After(s, x)
      BY <1>2
    <2>2. Merge(t) = Merged(r, e)
      <3> HIDE DEF S
      <3> QED BY MergeAppend
    <2>3. t \in Seq(S) /\ t # <<>> /\ Last(t) = e /\ \A x \in States(C) : After(t, x) = Act(e, After(s, x))
      BY AppendTyped, AfterAppend
    <2> HIDE DEF r, t
    <2>4. /\ Merged(r, e) \in Seq(S) /\ Merged(r, e) # <<>>
          /\ Last(Merged(r, e)).opcode = e.opcode
          /\ \A x \in States(C) : After(Merged(r, e), x) = Act(e, After(r, x))
      BY <2>1, MergedActs
    <2> QED BY <2>1, <2>2, <2>3, <2>4 DEF t
  <1>3. Seq(S) \subseteq P
    <2> HIDE DEF P, S
    <2> QED BY <1>1, <1>2, SeqInduction
  <1> QED BY <1>3

\* The last op may be replaced by one that has the same opcode and style.
LEMMA ChainedLast ==
    ASSUME NEW C, NEW f \in Seq(Ops(C)), NEW l \in Ops(C), NEW j \in Ops(C),
           l.opcode = j.opcode, l.bold = j.bold, NEW R \in {InOrder(C), Apart(C)},
           Chained(Append(f, l), R)
    PROVE  Chained(Append(f, j), R)
  <1> DEFINE S == Ops(C)
  <1>1. \A a \in S : <<a, l>> \in R => <<a, j>> \in R
    BY DEF InOrder, Apart
  <1>2. f # <<>> => Last(f) \in S
    <2> HIDE DEF S
    <2>1. f \in Seq(S)
      BY DEF S
    <2> QED BY <2>1 DEF Last
  <1> HIDE DEF S
  <1>3. f \in Seq(S) /\ l \in S /\ j \in S
    BY DEF S
  <1>4. Chained(f, R) /\ (f # <<>> => <<Last(f), l>> \in R)
    BY <1>3, ChainedAppend
  <1> QED BY <1>1, <1>2, <1>3, <1>4, ChainedAppend

LEMMA MergedChained ==
    ASSUME NEW C, NEW ops \in Seq(Ops(C)), NEW op \in Ops(C),
           Chained(ops, InOrder(C)), Chained(ops, Apart(C)),
           ops # <<>> => <<Last(ops), op>> \in InOrder(C)
    PROVE  Chained(Merged(ops, op), InOrder(C)) /\ Chained(Merged(ops, op), Apart(C))
  <1> DEFINE S == Ops(C)
             O == InOrder(C)
             A == Apart(C)
  <1>1. MergedInto(C, ops, op, Merged(ops, op))
    BY MergedIs
  <1>2. CASE Merged(ops, op) = Append(ops, op) /\ (ops # <<>> => <<Last(ops), op>> \in A)
    <2>1. ops \in Seq(S) /\ op \in S /\ Chained(ops, O) /\ Chained(ops, A)
          /\ (ops # <<>> => <<Last(ops), op>> \in O)
      OBVIOUS
    <2> HIDE DEF S, O, A
    <2>2. Chained(Append(ops, op), O) /\ Chained(Append(ops, op), A)
      BY <1>2, <2>1, ChainedAppend
    <2> QED BY <1>2, <2>2 DEF O, A
  <1>3. ASSUME NEW f \in Seq(Ops(C)), NEW l \in Ops(C),
               ops = Append(f, l), l.opcode = op.opcode, l.bold = op.bold,
               Merged(ops, op) = Append(f, Joined(l, op))
        PROVE  Chained(Merged(ops, op), O) /\ Chained(Merged(ops, op), A)
    <2> DEFINE j == Joined(l, op)
    <2>1. j \in Ops(C) /\ j.opcode = op.opcode /\ j.bold = op.bold
      <3>1. /\ j \in Ops(C)
            /\ j = [opcode |-> op.opcode, n |-> l.n + op.n, text |-> l.text \o op.text, bold |-> op.bold]
        BY <1>3, JoinedIs
      <3> HIDE DEF j
      <3> QED BY <3>1
    <2> HIDE DEF j
    <2>2. Chained(Append(f, l), O) /\ Chained(Append(f, l), A) /\ O \in {InOrder(C), Apart(C)} /\ A \in {InOrder(C), Apart(C)}
      BY <1>3
    <2> HIDE DEF O, A
    <2>3. Chained(Append(f, j), O) /\ Chained(Append(f, j), A)
      BY <1>3, <2>1, <2>2, ChainedLast
    <2> QED BY <1>3, <2>3 DEF j
  <1> QED BY <1>1, <1>2, <1>3 DEF MergedInto

LEMMA MergeChained ==
    ASSUME NEW C
    PROVE  \A s \in Seq(Ops(C)) : Chained(s, InOrder(C)) =>
               Chained(Merge(s), InOrder(C)) /\ Chained(Merge(s), Apart(C))
  <1> DEFINE S == Ops(C)
             O == InOrder(C)
             A == Apart(C)
             Q(s) == Chained(s, O) => Chained(Merge(s), O) /\ Chained(Merge(s), A)
             P == {s \in Seq(S) : Q(s)}
  <1>1. <<>> \in P
    BY MergeEmpty, ChainedEmpty
  <1>2. ASSUME NEW s \in Seq(S), NEW e \in S, s \in P
        PROVE  Append(s, e) \in P
    <2>1. Append(s, e) \in Seq(S) /\ Merge(Append(s, e)) = Merged(Merge(s), e)
      <3> HIDE DEF S
      <3> QED BY MergeAppend
    <2>2. ASSUME Chained(Append(s, e), O)
          PROVE  Chained(Merge(Append(s, e)), O) /\ Chained(Merge(Append(s, e)), A)
      <3>1. Chained(s, O) /\ (s # <<>> => <<Last(s), e>> \in O)
        <4> HIDE DEF S, O
        <4> QED BY <2>2, ChainedAppend
      <3> DEFINE m == Merge(s)
      <3>2. m \in Seq(S) /\ (s # <<>> => m # <<>> /\ Last(m).opcode = Last(s).opcode)
        BY MergeActs
      <3>3. Chained(m, O) /\ Chained(m, A)
        BY <1>2, <3>1
      <3>4. s = <<>> => m = <<>>
        BY MergeEmpty
      <3> HIDE DEF m
      <3>5. m # <<>> => Last(m) \in S
        <4> HIDE DEF S
        <4> QED BY <3>2 DEF Last
      <3>6. m # <<>> => <<Last(m), e>> \in O
        BY <3>1, <3>2, <3>4, <3>5 DEF InOrder
      <3> QED BY <2>1, <3>2, <3>3, <3>6, MergedChained DEF m
    <2> QED BY <2>1, <2>2
  <1>3. Seq(S) \subseteq P
    <2> HIDE DEF P, S
    <2> QED BY <1>1, <1>2, SeqInduction
  <1> QED BY <1>3

-----------------------------------------------------------------------------
(* Lists of lists made one. *)

LEMMA FlattenIs ==
    ASSUME NEW Z, NEW g \in Seq(Seq(Z))
    PROVE  FlattenSeq(g) = Fold("concat", g, <<>>)
  <1> DEFINE n == Len(g)
             P(f) == f = [i \in 1 .. n |-> IF i = 1 THEN g[i] ELSE f[i - 1] \o g[i]]
             q == CHOOSE f : P(f)
             h == [i \in 0 .. n |-> FoldTo("concat", g, <<>>, i)]
             f0 == [i \in 1 .. n |-> FoldTo("concat", g, <<>>, i)]
  <1>0. n \in Nat /\ \A i \in 1 .. n : g[i] \in Seq(Z)
    OBVIOUS
  <1>1. FlattenSeq(g) = IF n = 0 THEN g ELSE q[n]
    BY DEF FlattenSeq
  <1>2. CASE n = 0
    <2>1. g = <<>>
      BY <1>2
    <2>2. Fold("concat", g, <<>>) = <<>>
      BY <2>1, FoldEmpty
    <2> QED BY <1>1, <1>2, <2>1, <2>2
  <1>3. CASE n # 0
    <2>1. \A i \in 1 .. n : /\ i - 1 \in Nat
                            /\ FoldTo("concat", g, <<>>, i) = FoldTo("concat", g, <<>>, i - 1) \o g[i]
      <3> TAKE i \in 1 .. n
      <3> DEFINE m == i - 1
      <3>1. m \in Nat /\ i = m + 1
        BY <1>0
      <3> HIDE DEF m
      <3>2. FoldTo("concat", g, <<>>, i) = Through("concat", g[i], FoldTo("concat", g, <<>>, m))
        BY <3>1, FoldToNext
      <3> QED BY <3>1, <3>2 DEF Through, m
    <2>2. FoldTo("concat", g, <<>>, 0) = <<>>
      BY FoldToFirst
    <2>3. 1 \in 1 .. n /\ FoldTo("concat", g, <<>>, 1) = g[1]
      <3>1. 1 \in 1 .. n
        BY <1>0, <1>3
      <3>2. g[1] \in Seq(Z)
        BY <1>0, <3>1
      <3>3. FoldTo("concat", g, <<>>, 1) = <<>> \o g[1]
        <4>1. 1 - 1 = 0
          OBVIOUS
        <4> QED BY <2>1, <2>2, <3>1, <4>1
      <3> QED BY <3>1, <3>2, <3>3, ConcatEmptySeq
    <2> DEFINE w(i) == FoldTo("concat", g, <<>>, i)
    <2>4. P(f0)
      <3>1. \A i \in 1 .. n : w(i) = IF i = 1 THEN g[i] ELSE f0[i - 1] \o g[i]
        <4> TAKE i \in 1 .. n
        <4>1. CASE i = 1
          BY <2>3, <4>1
        <4>2. CASE i # 1
          <5>1. i - 1 \in 1 .. n
            BY <1>0, <4>2
          <5>2. f0[i - 1] = w(i - 1)
            BY <5>1
          <5> QED BY <2>1, <4>2, <5>2
        <4> QED BY <4>1, <4>2
      <3>2. f0 = [i \in 1 .. n |-> w(i)]
        OBVIOUS
      <3> HIDE DEF f0, w, n
      <3> QED BY <3>1, <3>2
    <2>5. P(q)
      <3> HIDE DEF P, f0
      <3> QED BY <2>4
    <2>6. \A i \in 1 .. n : q[i] = IF i = 1 THEN g[i] ELSE q[i - 1] \o g[i]
      <3> HIDE DEF q, n
      <3> QED BY <2>5
    <2> DEFINE In(i) == i \in 1 .. n
               Same(i) == q[i] = w(i)
               E == {i \in Nat : In(i) => Same(i)}
    <2>7. 0 \in E
      OBVIOUS
    <2>8. \A i \in Nat : i \in E => i + 1 \in E
      <3> SUFFICES ASSUME NEW i \in Nat, i \in E, i + 1 \in 1 .. n
                   PROVE  q[i + 1] = w(i + 1)
        <4>1. \A i \in Nat : i \in E /\ In(i + 1) => Same(i + 1)
          <5> HIDE DEF In, Same, E
          <5> QED BY DEF In, Same
        <4>2. \A i \in Nat : i + 1 \in Nat
          OBVIOUS
        <4> HIDE DEF In, Same
        <4> QED BY <4>1, <4>2
      <3>1. CASE i = 0
        <4>1. i + 1 = 1
          BY <3>1
        <4> QED BY <2>3, <2>6, <4>1, Zenon
      <3>2. CASE i # 0
        <4>1. i \in 1 .. n /\ i + 1 # 1 /\ (i + 1) - 1 = i
          BY <3>2
        <4>2. q[i] = w(i)
          BY <4>1
        <4>3. q[i + 1] = q[i] \o g[i + 1]
          <5> HIDE DEF q
          <5> QED BY <2>6, <4>1
        <4>4. w(i + 1) = w(i) \o g[i + 1]
          <5>1. w(i + 1) = FoldTo("concat", g, <<>>, (i + 1) - 1) \o g[i + 1]
            BY <2>1
          <5> QED BY <4>1, <5>1
        <4> QED BY <4>2, <4>3, <4>4, Zenon
      <3> QED BY <3>1, <3>2
    <2>9. Nat \subseteq E
      <3> HIDE DEF E
      <3> QED BY <2>7, <2>8, NumberInduction
    <2>10. q[n] = w(n)
      <3>1. n \in 1 .. n
        BY <1>0, <1>3
      <3> QED BY <1>0, <2>9, <3>1
    <2> QED BY <1>1, <1>3, <2>10 DEF Fold
  <1> QED BY <1>2, <1>3

LEMMA FlattenAppend ==
    ASSUME NEW Z, NEW g \in Seq(Seq(Z)), NEW h \in Seq(Z)
    PROVE  FlattenSeq(Append(g, h)) = FlattenSeq(g) \o h
  <1> DEFINE S == Seq(Z)
  <1>1. g \in Seq(S) /\ h \in S
    OBVIOUS
  <1>2. Fold("concat", Append(g, h), <<>>) = Through("concat", h, Fold("concat", g, <<>>))
    <2> HIDE DEF S
    <2> QED BY <1>1, FoldAppend
  <1>3. Append(g, h) \in Seq(S)
    <2> HIDE DEF S
    <2> QED BY <1>1
  <1>4. FlattenSeq(g) = Fold("concat", g, <<>>) /\ FlattenSeq(Append(g, h)) = Fold("concat", Append(g, h), <<>>)
    BY <1>1, <1>3, FlattenIs
  <1> QED BY <1>2, <1>4 DEF Through

LEMMA FlattenEmpty == FlattenSeq(<<>>) = <<>>
  <1>1. Len(<<>>) = 0
    OBVIOUS
  <1> QED BY <1>1 DEF FlattenSeq

-----------------------------------------------------------------------------
(* Insertions are written up to their last newline and from there. *)

Spelled(s) == FlattenSeq([i \in DOMAIN s |-> Written(s[i])])

\* The ops without a plain keep that ends them.
Trimmed(m) ==
    IF m # <<>> /\ Last(m).opcode = "=" /\ Last(m).bold = "none" THEN Front(m) ELSE m

LEMMA AssembleIs ==
    ASSUME NEW ops
    PROVE  Assemble(ops) = Spelled(Trimmed(Merge(Reorder(ops))))
  BY DEF Assemble, Spelled, Trimmed

LEMMA LastNewlineIs ==
    ASSUME NEW C, NEW t \in Seq(C)
    PROVE  LastNewline(t) \in 0 .. Len(t)
  <1> DEFINE Q(m) == \A i \in m + 1 .. Len(t) : t[i] # Newline
             S == {m \in 0 .. Len(t) : Q(m)}
  <1>0. Len(t) \in Nat
    OBVIOUS
  <1>1. Len(t) \in S
    BY <1>0
  <1>2. PICK m \in S : \A n \in S : m <= n
    <2>1. S \in SUBSET Nat /\ S # {}
      BY <1>0, <1>1
    <2> HIDE DEF S
    <2> QED BY <2>1, LeastNumber
  <1>3. m > 0 => t[m] = Newline
    <2> SUFFICES ASSUME m > 0, t[m] # Newline
                 PROVE  FALSE
      OBVIOUS
    <2>1. m \in 0 .. Len(t) /\ Q(m)
      OBVIOUS
    <2>2. m - 1 \in 0 .. Len(t) /\ ~(m <= m - 1)
      BY <1>0, <2>1
    <2>3. Q(m - 1)
      BY <1>0, <2>1
    <2> QED BY <1>2, <2>2, <2>3
  <1>4. \E j \in 0 .. Len(t) : (j > 0 => t[j] = Newline) /\ Q(j)
    BY <1>3
  <1> QED BY <1>4 DEF LastNewline

\* An op is written as it is, or in two that have its opcode and style.
WrittenAs(C, e, w) ==
    \/ w = <<e>>
    \/ \E a, b \in Ops(C) :
           /\ w = <<a>> \o <<b>> /\ Joined(a, b) = e
           /\ a.opcode = e.opcode /\ b.opcode = e.opcode /\ a.bold = e.bold /\ b.bold = e.bold
           /\ a.opcode = "+"

LEMMA WrittenIs ==
    ASSUME NEW C, NEW e \in Ops(C)
    PROVE  WrittenAs(C, e, Written(e))
  <1> DEFINE k == LastNewline(e.text)
  <1>1. CASE e.opcode # "+" \/ k \in {0, e.n}
    BY <1>1 DEF Written, WrittenAs
  <1>2. CASE e.opcode = "+" /\ k # 0 /\ k # e.n
    <2>1. e.n \in Nat /\ e.text \in Seq(C) /\ Len(e.text) = e.n
      BY <1>2, OpFields
    <2>2. k \in 0 .. Len(e.text)
      BY <2>1, LastNewlineIs
    <2> DEFINE a == UpTo(e, k)
               b == From(e, k)
    <2>3. Written(e) = <<a, b>>
      BY <1>2 DEF Written
    <2> HIDE DEF k
    <2>4. k \in Nat /\ 0 < k /\ k < e.n
      BY <1>2, <2>1, <2>2
    <2>5. /\ a \in Ops(C) /\ b \in Ops(C) /\ Joined(a, b) = e
          /\ a.opcode = e.opcode /\ b.opcode = e.opcode /\ a.bold = e.bold /\ b.bold = e.bold
      BY <2>4, OpCut
    <2> HIDE DEF a, b
    <2>6. <<a, b>> = <<a>> \o <<b>>
      <3> DEFINE S == {a, b}
                 g == <<a>>
                 h == <<b>>
                 v == <<a, b>>
      <3>1. g \in Seq(S) /\ h \in Seq(S) /\ Len(g) = 1 /\ Len(h) = 1 /\ g[1] = a /\ h[1] = b
        OBVIOUS
      <3>2. v \in Seq(S) /\ Len(v) = 2 /\ v[1] = a /\ v[2] = b
        OBVIOUS
      <3> HIDE DEF g, h, v, S
      <3>3. g \o h \in Seq(S) /\ Len(g \o h) = 2 /\ (g \o h)[1] = a /\ (g \o h)[2] = b
        BY <3>1, ConcatProperties
      <3>4. \A i \in 1 .. Len(v) : v[i] = (g \o h)[i]
        <4>1. \A i \in 1 .. Len(v) : i = 1 \/ i = 2
          BY <3>2
        <4> QED BY <3>2, <3>3, <4>1
      <3>5. v = g \o h
        BY <3>2, <3>3, <3>4, SeqEqual
      <3> QED BY <3>5 DEF v, g, h
    <2> QED BY <1>2, <2>3, <2>5, <2>6 DEF WrittenAs
  <1> QED BY <1>1, <1>2

LEMMA SingleTyped ==
    ASSUME NEW C, NEW e \in Ops(C)
    PROVE  <<e>> \in Seq(Ops(C)) /\ <<e>> \in Seq(Loose(C)) /\ Len(<<e>>) = 1 /\ <<e>>[1] = e
  <1> DEFINE S == Ops(C)
             g == <<e>>
  <1>1. e \in S
    OBVIOUS
  <1> HIDE DEF S
  <1>2. g \in Seq(S) /\ Len(g) = 1 /\ g[1] = e
    BY <1>1
  <1> HIDE DEF g
  <1> QED BY <1>2, OpsLoose DEF S, g

IsPair(w, a, b) == w = <<a>> \o <<b>>

LEMMA PairTyped ==
    ASSUME NEW C, NEW a \in Ops(C), NEW b \in Ops(C), NEW w, IsPair(w, a, b)
    PROVE  /\ w \in Seq(Ops(C)) /\ w \in Seq(Loose(C)) /\ Len(w) = 2 /\ w[1] = a /\ w[2] = b
           /\ \A s \in Seq(Ops(C)) : s \o w = Append(Append(s, a), b)
           /\ \A x : After(w, x) = Act(b, Act(a, x))
  <1> DEFINE S == Ops(C)
             g == <<a>>
             h == <<b>>
  <1>1. g \in Seq(S) /\ h \in Seq(S) /\ g \in Seq(Loose(C)) /\ h \in Seq(Loose(C))
    BY SingleTyped
  <1>2. a \in S /\ b \in S
    OBVIOUS
  <1> HIDE DEF S
  <1>0. w = g \o h
    BY DEF IsPair
  <1>3. w \in Seq(S) /\ Len(w) = 2 /\ w[1] = a /\ w[2] = b
    <2>1. Len(g) = 1 /\ Len(h) = 1 /\ g[1] = a /\ h[1] = b
      OBVIOUS
    <2> HIDE DEF g, h
    <2> QED BY <1>0, <1>1, <2>1, ConcatProperties
  <1>4. \A s \in Seq(S) : s \o w = Append(Append(s, a), b)
    <2> TAKE s \in Seq(S)
    <2>1. Append(s, a) = s \o g /\ Append(s, a) \in Seq(S)
      BY <1>2, AppendIsConcat, AppendProperties
    <2> DEFINE v == Append(s, a)
    <2> HIDE DEF v
    <2>2. Append(v, b) = v \o h
      BY <1>2, <2>1, AppendIsConcat DEF v
    <2> HIDE DEF g, h
    <2>3. (s \o g) \o h = s \o (g \o h)
      BY <1>1, ConcatAssociative
    <2> QED BY <1>0, <2>1, <2>2, <2>3 DEF v
  <1>5. \A x : After(w, x) = Act(b, Act(a, x))
    <2> TAKE x
    <2>1. After(g, x) = Act(a, x) /\ After(h, Act(a, x)) = Act(b, Act(a, x))
      BY AfterOne
    <2>2. w = g \o h
      BY <1>0
    <2> HIDE DEF g, h
    <2>3. After(g \o h, x) = After(h, After(g, x))
      BY <1>1, AfterConcat
    <2> QED BY <2>1, <2>2, <2>3
  <1> QED BY <1>3, <1>4, <1>5, OpsLoose DEF S

LEMMA WrittenActs ==
    ASSUME NEW C, NEW e \in Ops(C)
    PROVE  /\ Written(e) \in Seq(Ops(C)) /\ Written(e) # <<>>
           /\ Written(e)[1].opcode = e.opcode /\ Last(Written(e)).opcode = e.opcode
           /\ Chained(Written(e), InOrder(C))
           /\ \A x \in States(C) : After(Written(e), x) = Act(e, x)
  <1> DEFINE w == Written(e)
  <1>1. WrittenAs(C, e, w)
    BY WrittenIs
  <1> HIDE DEF w
  <1>2. CASE w = <<e>>
    <2>1. w \in Seq(Ops(C)) /\ Len(w) = 1 /\ w[1] = e
      BY <1>2, SingleTyped
    <2>2. \A x : After(w, x) = Act(e, x)
      BY <1>2, AfterOne
    <2>3. Chained(w, InOrder(C))
      BY <2>1 DEF Chained
    <2> QED BY <2>1, <2>2, <2>3, SMTT(30) DEF w, Last
  <1>3. ASSUME NEW a \in Ops(C), NEW b \in Ops(C), w = <<a>> \o <<b>>, Joined(a, b) = e,
               a.opcode = e.opcode, b.opcode = e.opcode, a.bold = e.bold, b.bold = e.bold, a.opcode = "+"
        PROVE  /\ w \in Seq(Ops(C)) /\ w # <<>>
               /\ w[1].opcode = e.opcode /\ Last(w).opcode = e.opcode
               /\ Chained(w, InOrder(C))
               /\ \A x \in States(C) : After(w, x) = Act(e, x)
    <2>1. /\ w \in Seq(Ops(C)) /\ Len(w) = 2 /\ w[1] = a /\ w[2] = b
          /\ \A x : After(w, x) = Act(b, Act(a, x))
      <3>1. IsPair(w, a, b)
        BY <1>3 DEF IsPair
      <3> QED BY <3>1, PairTyped
    <2>2. \A x \in States(C) : Act(b, Act(a, x)) = Act(e, x)
      BY <1>3, ActJoined
    <2>3. <<a, b>> \in InOrder(C)
      BY <1>3 DEF InOrder
    <2>4. Chained(w, InOrder(C))
      <3>1. \A i \in 1 .. Len(w) - 1 : i = 1 /\ i + 1 = 2
        BY <2>1
      <3>2. \A i \in 1 .. Len(w) - 1 : w[i] = a /\ w[i + 1] = b
        BY <2>1, <3>1
      <3> QED BY <2>3, <3>2 DEF Chained
    <2>5. w # <<>> /\ Last(w) = b
      <3>1. w # <<>>
        <4> DEFINE S == Ops(C)
        <4>1. w \in Seq(S) /\ Len(w) = 2
          BY <2>1
        <4> HIDE DEF S
        <4> QED BY <4>1
      <3>2. Last(w) = w[2]
        BY <2>1 DEF Last
      <3> QED BY <2>1, <3>1, <3>2
    <2> QED BY <1>3, <2>1, <2>2, <2>4, <2>5
  <1> QED BY <1>1, <1>2, <1>3 DEF WrittenAs, w

LEMMA SpelledAppend ==
    ASSUME NEW C, NEW s \in Seq(Ops(C)), NEW e \in Ops(C)
    PROVE  Spelled(Append(s, e)) = Spelled(s) \o Written(e)
  <1> DEFINE Z == Ops(C)
             S == Seq(Z)
             g == [i \in DOMAIN s |-> Written(s[i])]
             t == Append(s, e)
             h == [i \in DOMAIN t |-> Written(t[i])]
             w == Written(e)
  <1>1. \A a \in Z : Written(a) \in S
    BY WrittenActs
  <1>2. s \in Seq(Z) /\ e \in Z
    OBVIOUS
  <1> HIDE DEF Z, S
  <1>3. g \in Seq(S) /\ w \in S /\ Len(g) = Len(s)
    <2>1. Len(s) \in Nat /\ DOMAIN s = 1 .. Len(s) /\ \A i \in 1 .. Len(s) : s[i] \in Z
      BY <1>2
    <2> QED BY <1>1, <1>2, <2>1
  <1>4. h = Append(g, w)
    <2>1. /\ Len(s) \in Nat /\ DOMAIN s = 1 .. Len(s) /\ DOMAIN t = 1 .. Len(s) + 1
          /\ t[Len(s) + 1] = e /\ \A i \in 1 .. Len(s) : t[i] = s[i]
      BY <1>2, AppendProperties
    <2>2. /\ DOMAIN Append(g, w) = 1 .. Len(s) + 1 /\ Append(g, w)[Len(s) + 1] = w
          /\ \A i \in 1 .. Len(s) : Append(g, w)[i] = g[i]
          /\ Append(g, w) \in Seq(S)
      <3> HIDE DEF g, w
      <3> QED BY <1>3, AppendProperties
    <2>3. \A i \in 1 .. Len(s) + 1 : h[i] = Append(g, w)[i]
      <3> TAKE i \in 1 .. Len(s) + 1
      <3>1. CASE i = Len(s) + 1
        BY <2>1, <2>2, <3>1
      <3>2. CASE i # Len(s) + 1
        <4>1. i \in 1 .. Len(s)
          BY <2>1, <3>2
        <4>2. g[i] = Written(s[i]) /\ h[i] = Written(t[i])
          BY <2>1, <4>1
        <4> QED BY <2>1, <2>2, <4>1, <4>2
      <3> QED BY <3>1, <3>2
    <2>4. DOMAIN h = 1 .. Len(s) + 1 /\ h = [i \in DOMAIN h |-> h[i]]
      BY <2>1
    <2> DEFINE v == Append(g, w)
    <2>5. v = [i \in DOMAIN v |-> v[i]]
      <3> HIDE DEF v
      <3>1. v \in Seq(S)
        BY <2>2 DEF v
      <3> QED BY <3>1
    <2> HIDE DEF h, g, w, v
    <2>6. v = h
      BY <2>2, <2>3, <2>4, <2>5 DEF v
    <2> QED BY <2>6 DEF v
  <1>5. FlattenSeq(Append(g, w)) = FlattenSeq(g) \o w
    <2> HIDE DEF g, w
    <2> QED BY <1>3, FlattenAppend DEF S
  <1> QED BY <1>4, <1>5 DEF Spelled

LEMMA LastConcat ==
    ASSUME NEW S, NEW s \in Seq(S), NEW t \in Seq(S), t # <<>>
    PROVE  s \o t \in Seq(S) /\ s \o t # <<>> /\ Last(s \o t) = Last(t)
  <1>1. Len(s) \in Nat /\ Len(t) \in Nat /\ Len(t) # 0
    OBVIOUS
  <1> DEFINE u == s \o t
             n == Len(u)
  <1>2. u \in Seq(S) /\ n = Len(s) + Len(t)
        /\ \A i \in 1 .. Len(s) + Len(t) : u[i] = IF i <= Len(s) THEN s[i] ELSE t[i - Len(s)]
    BY ConcatProperties
  <1> HIDE DEF u, n
  <1>3. n \in 1 .. Len(s) + Len(t) /\ ~(n <= Len(s)) /\ n - Len(s) = Len(t)
    BY <1>1, <1>2
  <1>4. u[n] = t[Len(t)]
    BY <1>2, <1>3
  <1>5. u # <<>>
    BY <1>1, <1>2 DEF n
  <1> QED BY <1>2, <1>4, <1>5 DEF Last, u, n

LEMMA SpelledEmpty == Spelled(<<>>) = <<>>
  <1> DEFINE s == <<>>
             g == [i \in DOMAIN s |-> Written(s[i])]
  <1>1. DOMAIN s = {}
    OBVIOUS
  <1>2. g = <<>>
    <2> HIDE DEF s
    <2>1. g = [i \in {} |-> Written(s[i])]
      BY <1>1
    <2> QED BY <2>1
  <1> HIDE DEF g
  <1>3. FlattenSeq(g) = <<>>
    BY <1>2, FlattenEmpty
  <1> QED BY <1>3 DEF Spelled, g

\* Written ops do what the ops do.
LEMMA SpelledActs ==
    ASSUME NEW C
    PROVE  \A s \in Seq(Ops(C)) :
               /\ Spelled(s) \in Seq(Ops(C))
               /\ s # <<>> => Spelled(s) # <<>> /\ Last(Spelled(s)).opcode = Last(s).opcode
               /\ \A x \in States(C) : After(Spelled(s), x) = After(s, x)
               /\ Chained(s, InOrder(C)) => Chained(Spelled(s), InOrder(C))
  <1> DEFINE S == Ops(C)
             O == InOrder(C)
             Q(s) == /\ Spelled(s) \in Seq(S)
                     /\ s # <<>> => Spelled(s) # <<>> /\ Last(Spelled(s)).opcode = Last(s).opcode
                     /\ \A x \in States(C) : After(Spelled(s), x) = After(s, x)
                     /\ Chained(s, O) => Chained(Spelled(s), O)
             P == {s \in Seq(S) : Q(s)}
  <1>1. <<>> \in P
    BY SpelledEmpty, OpsLoose, ChainedEmpty
  <1>2. ASSUME NEW s \in Seq(S), NEW e \in S, s \in P
        PROVE  Append(s, e) \in P
    <2> DEFINE r == Spelled(s)
               w == Written(e)
               t == Append(s, e)
               u == r \o w
    <2>1. /\ r \in Seq(S) /\ (s # <<>> => r # <<>> /\ Last(r).opcode = Last(s).opcode)
          /\ \A x \in States(C) : After(r, x) = After(s, x)
          /\ Chained(s, O) => Chained(r, O)
      BY <1>2
    <2>2. Spelled(t) = u
      BY SpelledAppend
    <2>3. t \in Seq(S) /\ t # <<>> /\ Last(t) = e /\ \A x \in States(C) : After(t, x) = Act(e, After(s, x))
      BY AppendTyped, AfterAppend
    <2>4. /\ w \in Seq(S) /\ w # <<>> /\ w[1].opcode = e.opcode /\ Last(w).opcode = e.opcode
          /\ Chained(w, O)
          /\ \A x \in States(C) : After(w, x) = Act(e, x)
      BY WrittenActs
    <2>5. s = <<>> => r = <<>>
      BY SpelledEmpty
    <2>6. r \in Seq(Loose(C)) /\ w \in Seq(Loose(C)) /\ s \in Seq(Loose(C))
      BY <2>1, <2>4, OpsLoose
    <2> HIDE DEF r, w
    <2>7. \A x \in States(C) : After(u, x) = Act(e, After(s, x))
      <3> TAKE x \in States(C)
      <3>1. After(u, x) = After(w, After(r, x))
        BY <2>6, AfterConcat
      <3>2. After(s, x) \in States(C)
        BY <2>6, AfterTyped
      <3> QED BY <2>1, <2>4, <3>1, <3>2
    <2>8. u \in Seq(S) /\ u # <<>> /\ Last(u) = Last(w)
      <3>1. r \in Seq(S) /\ w \in Seq(S) /\ w # <<>>
        BY <2>1, <2>4
      <3> HIDE DEF S
      <3> QED BY <3>1, LastConcat
    <2>9. ASSUME Chained(t, O)
          PROVE  Chained(u, O)
      <3>1. Chained(s, O) /\ (s # <<>> => <<Last(s), e>> \in O)
        <4> HIDE DEF S, O, t
        <4> QED BY <2>9, ChainedAppend DEF t
      <3>2. w[1] \in S /\ (r # <<>> => Last(r) \in S)
        <4> HIDE DEF S
        <4>1. Len(w) # 0 /\ Len(w) \in Nat /\ (r # <<>> => Len(r) # 0) /\ Len(r) \in Nat
          BY <2>1, <2>4
        <4> QED BY <2>1, <2>4, <4>1 DEF Last
      <3>3. r # <<>> => <<Last(r), w[1]>> \in O
        BY <2>1, <2>4, <2>5, <3>1, <3>2 DEF InOrder
      <3> HIDE DEF S, O
      <3> QED BY <2>1, <2>4, <3>1, <3>3, ChainedConcat
    <2> HIDE DEF t, u
    <2>10. Q(t)
      BY <2>2, <2>3, <2>4, <2>7, <2>8, <2>9
    <2> QED BY <2>3, <2>10 DEF t
  <1>3. Seq(S) \subseteq P
    <2> HIDE DEF P, S
    <2> QED BY <1>1, <1>2, SeqInduction
  <1> QED BY <1>3

\* What is written is merged again.
LEMMA MergedApart ==
    ASSUME NEW C, NEW s \in Seq(Ops(C)), NEW e \in Ops(C), NEW a \in Ops(C),
           a.opcode = e.opcode, a.bold = e.bold, s # <<>> => <<Last(s), e>> \in Apart(C)
    PROVE  Merged(s, a) = Append(s, a)
  BY DEF Merged, Apart

LEMMA MergedPair ==
    ASSUME NEW C, NEW s \in Seq(Ops(C)), NEW a \in Ops(C), NEW b \in Ops(C),
           a.opcode = b.opcode, a.bold = b.bold
    PROVE  Merged(Append(s, a), b) = Append(s, Joined(a, b))
  <1> DEFINE t == Append(s, a)
             S == Ops(C)
  <1>1. t # <<>> /\ Last(t) = a
    BY AppendTyped
  <1>2. Front(t) = s
    <2>1. s \in Seq(S) /\ a \in S
      OBVIOUS
    <2> HIDE DEF S, t
    <2>2. t \in Seq(S) /\ t # <<>>
      BY <2>1, AppendProperties DEF t
    <2>3. Front(t) \in Seq(S) /\ Last(t) \in S /\ t = Append(Front(t), Last(t))
      BY <2>2, FrontLast
    <2> QED BY <2>1, <2>3, AppendInjective DEF t
  <1> HIDE DEF t
  <1> QED BY <1>1, <1>2 DEF Merged, Joined, t

LEMMA SpelledMerge ==
    ASSUME NEW C
    PROVE  \A s \in Seq(Ops(C)) : Chained(s, Apart(C)) => Merge(Spelled(s)) = s
  <1> DEFINE S == Ops(C)
             A == Apart(C)
             P == {s \in Seq(S) : Chained(s, A) => Merge(Spelled(s)) = s}
  <1>1. <<>> \in P
    BY SpelledEmpty, MergeEmpty
  <1>2. ASSUME NEW s \in Seq(S), NEW e \in S, s \in P
        PROVE  Append(s, e) \in P
    <2> DEFINE r == Spelled(s)
               t == Append(s, e)
               w == Written(e)
    <2>1. t \in Seq(S) /\ r \in Seq(S)
      BY AppendTyped, SpelledActs
    <2>2. Spelled(t) = r \o w
      BY SpelledAppend
    <2>3. ASSUME Chained(t, A)
          PROVE  Merge(Spelled(t)) = t
      <3>1. Chained(s, A) /\ (s # <<>> => <<Last(s), e>> \in A)
        <4> HIDE DEF S, A
        <4> QED BY <2>3, ChainedAppend
      <3>2. Merge(r) = s
        BY <1>2, <3>1
      <3>3. WrittenAs(C, e, w)
        BY WrittenIs
      <3> HIDE DEF r, w
      <3>4. CASE w = <<e>>
        <4>1. r \o w = Append(r, e)
          <5> HIDE DEF S
          <5> QED BY <2>1, <3>4, AppendIsConcat
        <4>2. Merge(Append(r, e)) = Merged(Merge(r), e)
          <5> HIDE DEF S
          <5> QED BY <2>1, MergeAppend
        <4>3. Merged(s, e) = Append(s, e)
          BY <3>1, MergedApart
        <4> QED BY <2>2, <3>2, <4>1, <4>2, <4>3
      <3>5. ASSUME NEW a \in Ops(C), NEW b \in Ops(C), w = <<a>> \o <<b>>, Joined(a, b) = e,
                   a.opcode = e.opcode, b.opcode = e.opcode, a.bold = e.bold, b.bold = e.bold
            PROVE  Merge(Spelled(t)) = t
        <4>1. IsPair(w, a, b)
          BY <3>5 DEF IsPair
        <4>2. r \o w = Append(Append(r, a), b)
          BY <2>1, <4>1, PairTyped
        <4>3. Merge(Append(Append(r, a), b)) = Merged(Merged(Merge(r), a), b)
          <5>1. a \in S /\ b \in S
            OBVIOUS
          <5> HIDE DEF S
          <5>2. Merge(Append(r, a)) = Merged(Merge(r), a) /\ Append(r, a) \in Seq(S)
            BY <2>1, <5>1, MergeAppend, AppendProperties
          <5> QED BY <5>1, <5>2, MergeAppend
        <4>4. Merged(s, a) = Append(s, a)
          BY <3>1, <3>5, MergedApart
        <4>5. Merged(Append(s, a), b) = Append(s, e)
          BY <3>5, MergedPair
        <4> QED BY <2>2, <3>2, <4>2, <4>3, <4>4, <4>5
      <3> QED BY <3>3, <3>4, <3>5 DEF WrittenAs
    <2> QED BY <2>1, <2>3
  <1>3. Seq(S) \subseteq P
    <2> HIDE DEF P, S
    <2> QED BY <1>1, <1>2, SeqInduction
  <1> QED BY <1>3

LEMMA TrimmedIs ==
    ASSUME NEW C, NEW m \in Seq(Ops(C))
    PROVE  \/ Trimmed(m) = m /\ (m = <<>> \/ Last(m).opcode # "=" \/ Last(m).bold # "none")
           \/ \E f \in Seq(Ops(C)), l \in Ops(C) :
                  m = Append(f, l) /\ l.opcode = "=" /\ l.bold = "none" /\ Trimmed(m) = f
  <1> DEFINE S == Ops(C)
  <1>1. m # <<>> => Front(m) \in Seq(S) /\ Last(m) \in S /\ m = Append(Front(m), Last(m))
    <2> HIDE DEF S
    <2>1. m \in Seq(S)
      BY DEF S
    <2> QED BY <2>1, FrontLast
  <1>2. CASE m # <<>> /\ Last(m).opcode = "=" /\ Last(m).bold = "none"
    <2>1. Trimmed(m) = Front(m)
      BY <1>2 DEF Trimmed
    <2> QED BY <1>1, <1>2, <2>1
  <1>3. CASE ~(m # <<>> /\ Last(m).opcode = "=" /\ Last(m).bold = "none")
    BY <1>3 DEF Trimmed
  <1> QED BY <1>2, <1>3

\* A plain keep changes nothing.
LEMMA PlainKeep ==
    ASSUME NEW C, NEW l \in Ops(C), l.opcode = "=", l.bold = "none", NEW y \in States(C), Act(l, y).ok
    PROVE  y.ok /\ Act(l, y).out \o Act(l, y).in = y.out \o y.in
  <1>1. y.ok
    BY ActOk
  <1> DEFINE o == y.out
             i == y.in
             z == State(o, i)
             p == Take(i, l.n)
             d == Drop(i, l.n)
  <1>2. y = z /\ o \in Seq(Cells(C)) /\ i \in Seq(Cells(C))
    BY <1>1, StateIs
  <1> HIDE DEF o, i
  <1>3. Act(l, z) = IF l.n > Len(i) THEN Stuck ELSE State(o \o Styled(p, l.bold), d)
    BY ActKeep
  <1>4. ~(l.n > Len(i)) /\ l.n \in Nat
    BY <1>2, <1>3, StuckFields, OpFields
  <1>5. p \in Seq(Cells(C)) /\ d \in Seq(Cells(C)) /\ p \o d = i
    BY <1>2, <1>4, CellsCut
  <1> HIDE DEF p, d, z
  <1>6. Styled(p, l.bold) = p
    BY <1>5, StyledNot
  <1>7. Act(l, y) = State(o \o p, d)
    BY <1>2, <1>3, <1>4, <1>6
  <1>8. (o \o p) \o d = o \o i
    <2>1. o \in Texts(C) /\ p \in Texts(C) /\ d \in Texts(C)
      BY <1>2, <1>5 DEF Texts
    <2>2. Cat(Cat(o, p), d) = Cat(o, Cat(p, d))
      BY <2>1, CatLaws
    <2>3. (o \o p) \o d = o \o (p \o d)
      BY <2>2 DEF Cat
    <2> QED BY <1>5, <2>3
  <1>9. Act(l, y).out = o \o p /\ Act(l, y).in = d
    <2> DEFINE v == o \o p
               u == Act(l, y)
    <2>1. u = State(v, d)
      BY <1>7
    <2> HIDE DEF v, u
    <2>2. u.out = v /\ u.in = d
      BY <2>1, StateFields
    <2> QED BY <2>2 DEF v, u
  <1> QED BY <1>1, <1>8, <1>9 DEF o, i

LEMMA TrimmedActs ==
    ASSUME NEW C, NEW m \in Seq(Ops(C)), NEW x \in States(C), After(m, x).ok
    PROVE  /\ Trimmed(m) \in Seq(Ops(C)) /\ After(Trimmed(m), x).ok
           /\ After(Trimmed(m), x).out \o After(Trimmed(m), x).in = After(m, x).out \o After(m, x).in
  <1>1. CASE Trimmed(m) = m
    BY <1>1
  <1>2. ASSUME NEW f \in Seq(Ops(C)), NEW l \in Ops(C),
               m = Append(f, l), l.opcode = "=", l.bold = "none", Trimmed(m) = f
        PROVE  /\ Trimmed(m) \in Seq(Ops(C)) /\ After(Trimmed(m), x).ok
               /\ After(Trimmed(m), x).out \o After(Trimmed(m), x).in = After(m, x).out \o After(m, x).in
    <2> DEFINE y == After(f, x)
    <2>1. After(m, x) = Act(l, y) /\ y \in States(C)
      BY <1>2, AppendTyped, AfterAppend, AfterTyped
    <2> HIDE DEF y
    <2>2. y.ok /\ Act(l, y).out \o Act(l, y).in = y.out \o y.in
      BY <1>2, <2>1, PlainKeep
    <2> QED BY <1>2, <2>1, <2>2 DEF y
  <1> QED BY <1>1, <1>2, TrimmedIs

\* Merged ops that are trimmed do not end in a plain keep, and stay merged.
LEMMA TrimmedChained ==
    ASSUME NEW C, NEW m \in Seq(Ops(C)), Chained(m, InOrder(C)), Chained(m, Apart(C)),
           NEW k, k = Trimmed(m)
    PROVE  /\ k \in Seq(Ops(C)) /\ Chained(k, InOrder(C)) /\ Chained(k, Apart(C))
           /\ Trimmed(k) = k
  <1> DEFINE S == Ops(C)
             O == InOrder(C)
             A == Apart(C)
  <1>1. CASE Trimmed(m) = m
    BY <1>1
  <1>2. ASSUME NEW f \in Seq(Ops(C)), NEW l \in Ops(C),
               m = Append(f, l), l.opcode = "=", l.bold = "none", Trimmed(m) = f
        PROVE  k \in Seq(S) /\ Chained(k, O) /\ Chained(k, A) /\ Trimmed(k) = k
    <2>1. f \in Seq(S) /\ l \in S /\ Chained(Append(f, l), O) /\ Chained(Append(f, l), A)
      BY <1>2
    <2>2. Chained(f, O) /\ Chained(f, A) /\ (f # <<>> => <<Last(f), l>> \in A)
      <3> HIDE DEF S, O, A
      <3> QED BY <2>1, ChainedAppend
    <2>3. f # <<>> => Last(f).opcode # "=" \/ Last(f).bold # "none"
      BY <1>2, <2>2 DEF Apart
    <2>4. Trimmed(f) = f
      BY <2>3 DEF Trimmed
    <2> QED BY <1>2, <2>2, <2>4
  <1> QED BY <1>1, <1>2, TrimmedIs

\* What an assembler makes of ops does what they do, to every text they fit.
LEMMA AssembleActs ==
    ASSUME NEW C, NEW s \in Seq(Loose(C)), NEW t \in Seq(Cells(C)), FitsOn(s, t)
    PROVE  FitsOn(Assemble(s), t) /\ Makes(Assemble(s), t) = Makes(s, t)
  <1> DEFINE x == State(<<>>, t)
             r == Reorder(s)
             m == Merge(r)
             k == Trimmed(m)
             nil == <<>>
  <1>0. x \in States(C)
    <2>1. nil \in Seq(Cells(C))
      OBVIOUS
    <2>2. State(nil, t) \in States(C)
      <3> HIDE DEF nil
      <3> QED BY <2>1, StateTyped
    <2> QED BY <2>2
  <1> HIDE DEF x
  <1>1. r \in Seq(Ops(C)) /\ After(r, x) = After(s, x)
    BY <1>0, ReorderActs
  <1> HIDE DEF r
  <1>2. m \in Seq(Ops(C)) /\ After(m, x) = After(s, x)
    BY <1>0, <1>1, MergeActs
  <1> HIDE DEF m
  <1>3. After(s, x).ok
    BY DEF FitsOn, x
  <1>4. /\ k \in Seq(Ops(C)) /\ After(k, x).ok
        /\ After(k, x).out \o After(k, x).in = After(s, x).out \o After(s, x).in
    BY <1>0, <1>2, <1>3, TrimmedActs
  <1> HIDE DEF k
  <1>5. After(Spelled(k), x) = After(k, x)
    BY <1>0, <1>4, SpelledActs
  <1>6. Assemble(s) = Spelled(k)
    BY AssembleIs DEF k, m, r
  <1> QED BY <1>4, <1>5, <1>6 DEF FitsOn, Makes, x

LEMMA AssembleTyped ==
    ASSUME NEW C, NEW s \in Seq(Loose(C))
    PROVE  Assemble(s) \in Seq(Ops(C)) /\ Assemble(Assemble(s)) = Assemble(s)
  <1> DEFINE r == Reorder(s)
             m == Merge(r)
             k == Trimmed(m)
             w == Spelled(k)
  <1>1. r \in Seq(Ops(C)) /\ Chained(r, InOrder(C))
    BY ReorderActs, ReorderInOrder
  <1>0. Assemble(s) = w
    BY AssembleIs
  <1> HIDE DEF r
  <1>2. m \in Seq(Ops(C)) /\ Chained(m, InOrder(C)) /\ Chained(m, Apart(C))
    BY <1>1, MergeActs, MergeChained
  <1> HIDE DEF m
  <1>3. k \in Seq(Ops(C)) /\ Chained(k, InOrder(C)) /\ Chained(k, Apart(C)) /\ Trimmed(k) = k
    BY <1>2, TrimmedChained
  <1> HIDE DEF k
  <1>4. w \in Seq(Ops(C)) /\ Chained(w, InOrder(C)) /\ Merge(w) = k
    BY <1>3, SpelledActs, SpelledMerge
  <1> HIDE DEF w
  <1>5. Reorder(w) = w
    BY <1>4, ReorderSame
  <1>6. Assemble(w) = Spelled(Trimmed(Merge(Reorder(w))))
    BY AssembleIs
  <1>7. Assemble(w) = w
    BY <1>3, <1>4, <1>5, <1>6 DEF w
  <1> QED BY <1>0, <1>4, <1>7

-----------------------------------------------------------------------------
(* Following.  Of two changesets of one text, each is turned into what it is *)
(* after the other; q is the order of insertions on the other side.          *)

LEMMA FollowInserts ==
    ASSUME NEW C, NEW e1 \in Ops(C), e1.opcode = "+", NEW e2 \in Ops(C) \cup {NoOp},
           NEW r \in BOOLEAN, NEW q \in BOOLEAN, q # r,
           e2.opcode # "+" \/ InsertsFirst(e1, e2, r)
    PROVE  /\ followOps(e1, e2, r) = Result(keep(e1.n, "none"), NoOp, e2)
           /\ followOps(e2, e1, q) = Result(e1, e2, NoOp)
  <1>1. followInsert(e1, e2, r) = Result(keep(e1.n, "none"), NoOp, e2)
    BY DEF followInsert
  <1>2. e2.opcode = "+" => ~InsertsFirst(e2, e1, q)
    BY DEF InsertsFirst
  <1>3. followInsert(e2, e1, q) = Result(e1, e2, NoOp)
    BY <1>2 DEF followInsert
  <1>4. followOps(e1, e2, r) = followInsert(e1, e2, r) /\ followOps(e2, e1, q) = followInsert(e2, e1, q)
    BY DEF followOps
  <1> QED BY <1>1, <1>3, <1>4

LEMMA EitherFirst ==
    ASSUME NEW e1, NEW e2, NEW r \in BOOLEAN, NEW q \in BOOLEAN, q # r
    PROVE  InsertsFirst(e1, e2, r) \/ InsertsFirst(e2, e1, q)
  BY DEF InsertsFirst

LEMMA FollowEnds ==
    ASSUME NEW C, NEW e \in Ops(C), e.opcode # "+", NEW r \in BOOLEAN
    PROVE  /\ followOps(NoOp, e, r) = Result(e, NoOp, NoOp)
           /\ followOps(e, NoOp, r) = Result(NoOp, NoOp, NoOp)
  BY NoOpFields, OpFields DEF followOps

FollowOut(e1, e2, k) ==
    IF e1.opcode = "-" THEN NoOp
    ELSE IF e2.opcode = "-" THEN UpTo(e2, k)
    ELSE keep(k, followAttributes(e1.bold, e2.bold))

LEMMA FollowCuts ==
    ASSUME NEW C, NEW e1 \in Ops(C), NEW e2 \in Ops(C), e1.opcode # "+", e2.opcode # "+",
           NEW r \in BOOLEAN, NEW k, k = Shorter(e1, e2)
    PROVE  /\ followOps(e1, e2, r) = Result(FollowOut(e1, e2, k), From(e1, k), From(e2, k))
           /\ k = Shorter(e2, e1)
  <1>1. e1.opcode \in {"-", "="} /\ e2.opcode \in {"-", "="} /\ e1.n \in Nat /\ e2.n \in Nat
    BY OpFields
  <1>2. followOps(e1, e2, r) = Result(FollowOut(e1, e2, k), From(e1, k), From(e2, k))
    BY <1>1 DEF followOps, FollowOut
  <1>3. Shorter(e1, e2) = Shorter(e2, e1)
    <2> DEFINE m == e1.n
               n == e2.n
    <2>1. m \in Nat /\ n \in Nat /\ Shorter(e1, e2) = (IF m <= n THEN m ELSE n)
          /\ Shorter(e2, e1) = (IF n <= m THEN n ELSE m)
      BY <1>1 DEF Shorter
    <2> HIDE DEF m, n
    <2>2. (IF m <= n THEN m ELSE n) = (IF n <= m THEN n ELSE m)
      BY <2>1
    <2> QED BY <2>1, <2>2
  <1> QED BY <1>2, <1>3

-----------------------------------------------------------------------------
(* The two sides, step by step: x and y are where they are in their texts,  *)
(* and r1 and r2 what is left of the two changesets.  The texts are of the  *)
(* characters in G.                                                         *)

\* Both have made the same of what both changesets have passed.
Abreast(C, G, x, y, r1, r2) ==
    \E o, i \in Seq(G) :
        /\ FitsOn(r1, i) /\ FitsOn(r2, i) /\ Makes(r1, i) \in Seq(G) /\ Makes(r2, i) \in Seq(G)
        /\ x = State(o, Makes(r1, i)) /\ y = State(o, Makes(r2, i))

\* The first changeset has ended: its side makes what is left of the second of
\* its text, the other side has its text already.
Ended(C, G, x, y, r1, r2) ==
    /\ r1 = Nil
    /\ \E o, i, p, j \in Texts(C) :
           /\ x = State(o, i) /\ y = State(p, j) /\ FitsOn(r2, i)
           /\ Cat(o, Makes(r2, i)) = Cat(p, j) /\ Cat(p, j) \in Seq(G)
           /\ Len(p) <= Len(o)

Joint(C, G, x, y, r1, r2) ==
    Abreast(C, G, x, y, r1, r2) \/ Ended(C, G, x, y, r1, r2) \/ Ended(C, G, y, x, r2, r1)

LEMMA AbreastMirror ==
    ASSUME NEW C, NEW G, NEW x, NEW y, NEW r1, NEW r2, Abreast(C, G, x, y, r1, r2)
    PROVE  Abreast(C, G, y, x, r2, r1)
  BY DEF Abreast

LEMMA SomeTexts ==
    ASSUME NEW C, NEW G \in SUBSET Cells(C)
    PROVE  /\ Seq(G) \subseteq Texts(C) /\ Nil \in Seq(G)
           /\ \A p, q \in Texts(C) : Cat(p, q) \in Seq(G) <=> p \in Seq(G) /\ q \in Seq(G)
  <1>1. Seq(G) \subseteq Texts(C) /\ Nil \in Seq(G)
    BY SeqMonotonic DEF Texts, Nil
  <1>2. ASSUME NEW p \in Texts(C), NEW q \in Texts(C)
        PROVE  Cat(p, q) \in Seq(G) <=> p \in Seq(G) /\ q \in Seq(G)
    <2> DEFINE u == p \o q
    <2>1. p \in Seq(Cells(C)) /\ q \in Seq(Cells(C))
      BY DEF Texts
    <2>2. /\ u \in Seq(Cells(C)) /\ Len(u) = Len(p) + Len(q) /\ Len(p) \in Nat /\ Len(q) \in Nat
          /\ \A i \in 1 .. Len(p) + Len(q) : u[i] = IF i <= Len(p) THEN p[i] ELSE q[i - Len(p)]
      BY <2>1, ConcatProperties
    <2>3. p \in Seq(G) /\ q \in Seq(G) => u \in Seq(G)
      BY ConcatProperties
    <2> HIDE DEF u
    <2>4. ASSUME u \in Seq(G)
          PROVE  p \in Seq(G) /\ q \in Seq(G)
      <3>1. \A i \in 1 .. Len(p) + Len(q) : u[i] \in G
        BY <2>2, <2>4
      <3>2. \A i \in 1 .. Len(p) : p[i] \in G
        <4> TAKE i \in 1 .. Len(p)
        <4>1. i \in 1 .. Len(p) + Len(q) /\ i <= Len(p)
          BY <2>2
        <4> QED BY <2>2, <3>1, <4>1
      <3>3. \A i \in 1 .. Len(q) : q[i] \in G
        <4> TAKE i \in 1 .. Len(q)
        <4> DEFINE j == Len(p) + i
        <4>1. j \in 1 .. Len(p) + Len(q) /\ ~(j <= Len(p)) /\ j - Len(p) = i
          BY <2>2
        <4> HIDE DEF j
        <4>2. u[j] = q[j - Len(p)] /\ u[j] \in G
          BY <2>2, <3>1, <4>1
        <4> QED BY <4>1, <4>2
      <3>4. p = [i \in 1 .. Len(p) |-> p[i]] /\ q = [i \in 1 .. Len(q) |-> q[i]]
        BY <2>1
      <3>5. Len(p) \in Nat /\ Len(q) \in Nat
        BY <2>2
      <3>6. p \in Seq(G)
        BY <3>2, <3>4, <3>5
      <3>7. q \in Seq(G)
        BY <3>3, <3>4, <3>5
      <3> QED BY <3>6, <3>7
    <2> QED BY <2>3, <2>4 DEF u, Cat
  <1> QED BY <1>1, <1>2

\* An op that takes just what stands first.
LEMMA ActOn ==
    ASSUME NEW C, NEW e \in Ops(C), e.opcode # "+", NEW p \in Texts(C), NEW w \in Texts(C),
           Len(p) = e.n, NEW o \in Texts(C)
    PROVE  Act(e, State(o, Cat(p, w))) =
               State(IF e.opcode = "-" THEN o ELSE Cat(o, Styled(p, e.bold)), w)
  <1> DEFINE m == Cat(p, w)
             v == IF e.opcode = "-" THEN Nil ELSE Styled(p, e.bold)
  <1>1. Enough(e, m) /\ Leaves(e, m) = w /\ Puts(e, m) = v
    BY PutsOnIs
  <1>2. m \in Texts(C) /\ e \in Loose(C)
    BY CatLaws, OpFields
  <1> HIDE DEF m, v
  <1>3. Act(e, State(Nil, m)) = State(v, w) /\ v \in Texts(C)
    <2>1. m \in Seq(Cells(C))
      BY <1>2 DEF Texts
    <2>2. Puts(e, m) \in Seq(Cells(C)) /\ Act(e, State(<<>>, m)) = State(Puts(e, m), Leaves(e, m))
      BY <1>1, <2>1, ActPuts
    <2> QED BY <1>1, <2>2 DEF Nil, Texts
  <1>4. Act(e, State(o, m)) = State(Cat(o, v), w)
    BY <1>2, <1>3, ActBehind
  <1>5. Cat(o, Nil) = o
    BY CatLaws
  <1> QED BY <1>4, <1>5 DEF m, v

LEMMA FollowInsertStep ==
    ASSUME NEW C, NEW G \in SUBSET Cells(C), NEW e \in Ops(C), e.opcode = "+",
           NEW t \in Lists(C), NEW r2 \in Lists(C), NEW x, NEW y, Abreast(C, G, x, y, Led(e, t), r2),
           NEW k, k = keep(e.n, "none")
    PROVE  Abreast(C, G, Act(k, x), Act(e, y), t, r2)
  <1>1. PICK o \in Seq(G), i \in Seq(G) :
            /\ FitsOn(Led(e, t), i) /\ FitsOn(r2, i)
            /\ Makes(Led(e, t), i) \in Seq(G) /\ Makes(r2, i) \in Seq(G)
            /\ x = State(o, Makes(Led(e, t), i)) /\ y = State(o, Makes(r2, i))
    BY DEF Abreast
  <1> DEFINE p == Puts(e, i)
             w == Makes(t, i)
             v == Makes(r2, i)
  <1>2. o \in Texts(C) /\ i \in Texts(C) /\ v \in Texts(C) /\ e \in Loose(C)
    BY <1>1, SomeTexts, OpFields
  <1>3. /\ Act(e, State(Nil, v)) = State(p, v) /\ Leaves(e, i) = i /\ p \in Texts(C)
    <2> HIDE DEF v
    <2>1. \A u : Puts(e, u) = Puts(e, i)
      BY <1>2, InsertIs
    <2>2. Act(e, State(Nil, v)) = State(Puts(e, v), v) /\ Leaves(e, i) = i /\ p \in Texts(C)
      BY <1>2, InsertIs
    <2> QED BY <2>1, <2>2
  <1>4. Enough(e, i) /\ FitsOn(t, i) /\ Makes(Led(e, t), i) = Cat(p, w) /\ w \in Texts(C)
    <2>1. /\ Enough(e, i) /\ FitsOn(t, Leaves(e, i)) /\ Makes(Led(e, t), i) = Cat(p, Makes(t, Leaves(e, i)))
          /\ Makes(t, Leaves(e, i)) \in Texts(C)
      BY <1>1, <1>2, HeadIs
    <2> QED BY <1>3, <2>1
  <1>5. Len(p) = e.n
    <2>1. i \in Seq(Cells(C))
      BY <1>2 DEF Texts
    <2> QED BY <1>4, <2>1, PutsLen
  <1> HIDE DEF p, w, v
  <1>6. p \in Seq(G) /\ w \in Seq(G)
    BY <1>1, <1>3, <1>4, SomeTexts, SMTT(30)
  <1>7. k \in Ops(C) /\ k.opcode = "=" /\ k.n = e.n /\ k.bold = "none"
    <2> DEFINE b == "none"
               n == e.n
    <2>1. n \in Nat /\ 0 < n
      <3>1. e.n \in Nat /\ e.n >= 1
        BY OpFields
      <3> HIDE DEF n
      <3>2. n \in Nat /\ n >= 1
        BY <3>1 DEF n
      <3> QED BY <3>2
    <2>2. b \in Bolds
      BY DEF Bolds
    <2> HIDE DEF b, n
    <2>3. keep(n, b) \in Ops(C) /\ keep(n, b).opcode = "=" /\ keep(n, b).n = n /\ keep(n, b).bold = b
      BY <2>1, <2>2, KeepRemove
    <2> QED BY <2>3 DEF b, n
  <1>8. Act(k, State(o, Cat(p, w))) = State(Cat(o, p), w)
    <2>1. Act(k, State(o, Cat(p, w))) = State(Cat(o, Styled(p, k.bold)), w)
      BY <1>2, <1>3, <1>4, <1>5, <1>7, ActOn
    <2>2. Styled(p, "none") = p
      BY <1>3, StyledNot DEF Texts
    <2> QED BY <1>7, <2>1, <2>2
  <1>9. Act(e, State(o, v)) = State(Cat(o, p), v)
    BY <1>2, <1>3, ActBehind
  <1> DEFINE c == Cat(o, p)
  <1>10. c \in Seq(G)
    BY <1>2, <1>3, <1>6, SomeTexts
  <1> HIDE DEF c
  <1>11. /\ FitsOn(t, i) /\ FitsOn(r2, i) /\ Makes(t, i) \in Seq(G) /\ Makes(r2, i) \in Seq(G)
         /\ Act(k, x) = State(c, Makes(t, i)) /\ Act(e, y) = State(c, Makes(r2, i))
    BY <1>1, <1>4, <1>6, <1>8, <1>9 DEF w, v, c
  <1> QED BY <1>1, <1>10, <1>11 DEF Abreast

\* What becomes of b behind a, when both take the same characters, and what
\* becomes of these.
Cutter(a, b) ==
    IF a.opcode = "-" THEN NoOp
    ELSE IF b.opcode = "-" THEN b ELSE keep(a.n, followAttributes(a.bold, b.bold))
CutText(a, b, p) ==
    IF a.opcode = "-" \/ b.opcode = "-" THEN Nil
    ELSE Styled(Styled(p, a.bold), followAttributes(a.bold, b.bold))

LEMMA CutterActs ==
    ASSUME NEW C, NEW a \in Ops(C), NEW b \in Ops(C), a.opcode # "+", b.opcode # "+", a.n = b.n,
           NEW p \in Texts(C), Len(p) = a.n, NEW w \in Texts(C), NEW o \in Texts(C),
           NEW v, v = IF a.opcode = "-" THEN Nil ELSE Styled(p, a.bold)
    PROVE  /\ Act(Cutter(a, b), State(o, Cat(v, w))) = State(Cat(o, CutText(a, b, p)), w)
           /\ CutText(a, b, p) \in Texts(C)
  <1>0. /\ a.opcode \in {"-", "="} /\ b.opcode \in {"-", "="} /\ a.bold \in Bolds /\ b.bold \in Bolds
        /\ p \in Seq(Cells(C))
    BY OpFields DEF Texts
  <1>1. CASE a.opcode = "-"
    <2>1. Cat(v, w) = w /\ Cat(o, Nil) = o /\ Nil \in Texts(C)
      BY <1>1, CatLaws, NilTyped
    <2>2. Act(NoOp, State(o, w)) = State(o, w)
      BY ActNothing, NoOpFields
    <2> QED BY <1>1, <2>1, <2>2 DEF Cutter, CutText
  <1>2. CASE a.opcode = "=" /\ b.opcode = "-"
    <2>1. v \in Texts(C) /\ Len(v) = b.n
      <3> DEFINE s == Styled(p, a.bold)
      <3>1. s \in Seq(Cells(C)) /\ Len(s) = Len(p)
        BY <1>0, StyledSeq
      <3>2. v = s
        BY <1>2
      <3> HIDE DEF s
      <3> QED BY <3>1, <3>2 DEF Texts
    <2>2. Act(b, State(o, Cat(v, w))) = State(o, w)
      BY <1>2, <2>1, ActOn
    <2>3. Cat(o, Nil) = o /\ Nil \in Texts(C)
      BY CatLaws, NilTyped
    <2> QED BY <1>2, <2>2, <2>3 DEF Cutter, CutText
  <1>3. CASE a.opcode = "=" /\ b.opcode = "="
    <2> DEFINE s == Styled(p, a.bold)
               f == followAttributes(a.bold, b.bold)
               n == a.n
               c == keep(n, f)
    <2>1. s \in Texts(C) /\ Len(s) = n /\ v = s
      <3>1. s \in Seq(Cells(C)) /\ Len(s) = Len(p)
        BY <1>0, StyledSeq
      <3> QED BY <1>3, <3>1 DEF Texts
    <2>2. f \in Bolds
      BY <1>0 DEF followAttributes, Bolds
    <2>3. n \in Nat /\ 0 < n
      <3>1. a.n \in Nat /\ a.n >= 1
        BY OpFields
      <3> HIDE DEF n
      <3>2. n \in Nat /\ n >= 1
        BY <3>1 DEF n
      <3> QED BY <3>2
    <2> HIDE DEF n, f
    <2>4. c \in Ops(C) /\ c.opcode = "=" /\ c.n = n /\ c.bold = f
      BY <2>2, <2>3, KeepRemove
    <2> HIDE DEF s, c
    <2>5. Act(c, State(o, Cat(s, w))) = State(Cat(o, Styled(s, f)), w)
      BY <2>1, <2>4, ActOn
    <2>6. Styled(s, f) \in Texts(C)
      BY <2>1, <2>2, StyledSeq DEF Texts
    <2>7. Cutter(a, b) = c /\ CutText(a, b, p) = Styled(s, f)
      BY <1>3 DEF Cutter, CutText, c, f, n, s
    <2> QED BY <2>1, <2>5, <2>6, <2>7
  <1> QED BY <1>0, <1>1, <1>2, <1>3

LEMMA FollowCutStep ==
    ASSUME NEW C, NEW G \in SUBSET Cells(C), NEW a \in Ops(C), NEW b \in Ops(C),
           a.opcode # "+", b.opcode # "+", a.n = b.n, NEW u1 \in Lists(C), NEW u2 \in Lists(C),
           NEW x, NEW y, Abreast(C, G, x, y, Led(a, u1), Led(b, u2))
    PROVE  Abreast(C, G, Act(Cutter(a, b), x), Act(Cutter(b, a), y), u1, u2)
  <1>1. PICK o \in Seq(G), i \in Seq(G) :
            /\ FitsOn(Led(a, u1), i) /\ FitsOn(Led(b, u2), i)
            /\ Makes(Led(a, u1), i) \in Seq(G) /\ Makes(Led(b, u2), i) \in Seq(G)
            /\ x = State(o, Makes(Led(a, u1), i)) /\ y = State(o, Makes(Led(b, u2), i))
    BY DEF Abreast
  <1> DEFINE p  == Take(i, a.n)
             j  == Drop(i, a.n)
             v1 == Puts(a, i)
             v2 == Puts(b, i)
             w1 == Makes(u1, j)
             w2 == Makes(u2, j)
             q  == CutText(a, b, p)
  <1>2. o \in Texts(C) /\ i \in Texts(C) /\ Seq(G) \subseteq Texts(C)
    BY <1>1, SomeTexts
  <1>3. Leaves(a, i) = j /\ Leaves(b, i) = j
    BY DEF Leaves
  <1>4. /\ Enough(a, i) /\ v1 \in Texts(C) /\ FitsOn(u1, j) /\ w1 \in Texts(C)
        /\ Makes(Led(a, u1), i) = Cat(v1, w1)
    <2>1. /\ Enough(a, i) /\ Puts(a, i) \in Texts(C) /\ FitsOn(u1, Leaves(a, i))
          /\ Makes(u1, Leaves(a, i)) \in Texts(C)
          /\ Makes(Led(a, u1), i) = Cat(Puts(a, i), Makes(u1, Leaves(a, i)))
      BY <1>1, <1>2, HeadIs
    <2> QED BY <1>3, <2>1
  <1>5. /\ v2 \in Texts(C) /\ FitsOn(u2, j) /\ w2 \in Texts(C)
        /\ Makes(Led(b, u2), i) = Cat(v2, w2)
    <2>1. /\ Puts(b, i) \in Texts(C) /\ FitsOn(u2, Leaves(b, i))
          /\ Makes(u2, Leaves(b, i)) \in Texts(C)
          /\ Makes(Led(b, u2), i) = Cat(Puts(b, i), Makes(u2, Leaves(b, i)))
      BY <1>1, <1>2, HeadIs
    <2> QED BY <1>3, <2>1
  <1>6. /\ v1 = (IF a.opcode = "-" THEN Nil ELSE Styled(p, a.bold))
        /\ v2 = (IF b.opcode = "-" THEN Nil ELSE Styled(p, b.bold))
    BY DEF Puts, Nil
  <1>7. p \in Texts(C) /\ j \in Texts(C) /\ Len(p) = a.n /\ Cat(p, j) = i
    <2>1. ~(a.n > Len(i)) /\ a.n \in Nat /\ i \in Seq(Cells(C))
      BY <1>2, <1>4, OpFields DEF Enough, Texts
    <2> QED BY <2>1, CellsCut DEF Texts, Cat
  <1> HIDE DEF p, j, w1, w2, v1, v2
  <1>8. /\ p \in Seq(G) /\ j \in Seq(G) /\ v1 \in Seq(G) /\ w1 \in Seq(G) /\ v2 \in Seq(G) /\ w2 \in Seq(G)
    BY <1>1, <1>4, <1>5, <1>7, SomeTexts, SMTT(30)
  <1>9. Act(Cutter(a, b), State(o, Cat(v1, w1))) = State(Cat(o, q), w1) /\ q \in Texts(C)
    BY <1>2, <1>4, <1>6, <1>7, CutterActs
  <1>10. Act(Cutter(b, a), State(o, Cat(v2, w2))) = State(Cat(o, CutText(b, a, p)), w2)
    <2>1. b.n = a.n /\ Len(p) = b.n
      BY <1>7
    <2> QED BY <1>2, <1>5, <1>6, <1>7, <2>1, CutterActs
  <1>11. q \in Seq(G) /\ CutText(b, a, p) = q
    <2>1. CASE a.opcode = "-" \/ b.opcode = "-"
      BY <2>1, SomeTexts DEF CutText
    <2>2. CASE a.opcode # "-" /\ b.opcode # "-"
      <3>1. Styled(p, a.bold) \in Seq(G) /\ Styled(p, b.bold) \in Seq(G) /\ a.bold \in Bolds /\ b.bold \in Bolds
        BY <1>6, <1>8, <2>2, OpFields
      <3>2. /\ Styled(Styled(p, a.bold), followAttributes(a.bold, b.bold)) \in Seq(G)
            /\ Styled(Styled(p, a.bold), followAttributes(a.bold, b.bold))
                 = Styled(Styled(p, b.bold), followAttributes(b.bold, a.bold))
        BY <1>8, <3>1, StyledMerges, ZenonT(60)
      <3> QED BY <2>2, <3>2 DEF CutText
    <2> QED BY <2>1, <2>2
  <1> HIDE DEF q
  <1> DEFINE c == Cat(o, q)
  <1>12. c \in Seq(G)
    BY <1>2, <1>9, <1>11, SomeTexts
  <1> HIDE DEF c
  <1>13. /\ FitsOn(u1, j) /\ FitsOn(u2, j) /\ Makes(u1, j) \in Seq(G) /\ Makes(u2, j) \in Seq(G)
         /\ Act(Cutter(a, b), x) = State(c, Makes(u1, j)) /\ Act(Cutter(b, a), y) = State(c, Makes(u2, j))
    BY <1>1, <1>4, <1>5, <1>8, <1>9, <1>10, <1>11 DEF w1, w2, c
  <1> QED BY <1>8, <1>12, <1>13 DEF Abreast

LEMMA AbreastCut ==
    ASSUME NEW C, NEW G \in SUBSET Cells(C), NEW e \in Ops(C), NEW s \in Lists(C), NEW r,
           NEW k \in Nat, 0 < k, k <= e.n, NEW x, NEW y, Abreast(C, G, x, y, Led(e, s), r)
    PROVE  /\ Abreast(C, G, x, y, Led(UpTo(e, k), Ahead(From(e, k), s)), r)
           /\ Ahead(From(e, k), s) \in Lists(C)
  <1> DEFINE u == Led(e, s)
             v == Led(UpTo(e, k), Ahead(From(e, k), s))
  <1>1. \A i \in Seq(G) : (FitsOn(u, i) <=> FitsOn(v, i)) /\ Makes(u, i) = Makes(v, i)
    <2> TAKE i \in Seq(G)
    <2>1. i \in Texts(C)
      BY SomeTexts
    <2> QED BY <2>1, CutIs
  <1>2. Ahead(From(e, k), s) \in Lists(C)
    <2>1. Nil \in Texts(C)
      BY NilTyped
    <2> QED BY <2>1, CutIs
  <1>3. Abreast(C, G, x, y, u, r)
    OBVIOUS
  <1> HIDE DEF u, v
  <1>4. Abreast(C, G, x, y, v, r)
    BY <1>1, <1>3 DEF Abreast
  <1> QED BY <1>2, <1>4 DEF v

LEMMA FollowCutsBoth ==
    ASSUME NEW C, NEW G \in SUBSET Cells(C), NEW e1 \in Ops(C), NEW e2 \in Ops(C),
           e1.opcode # "+", e2.opcode # "+", NEW t1 \in Lists(C), NEW t2 \in Lists(C),
           NEW k, k = Shorter(e1, e2),
           NEW x, NEW y, Abreast(C, G, x, y, Led(e1, t1), Led(e2, t2))
    PROVE  Abreast(C, G, Act(FollowOut(e1, e2, k), x), Act(FollowOut(e2, e1, k), y),
                   Ahead(From(e1, k), t1), Ahead(From(e2, k), t2))
  <1> DEFINE a == UpTo(e1, k)
             b == UpTo(e2, k)
             u1 == Ahead(From(e1, k), t1)
             u2 == Ahead(From(e2, k), t2)
  <1>1. /\ k \in Nat /\ 0 < k /\ k <= e1.n /\ k <= e2.n
        /\ a \in Ops(C) /\ b \in Ops(C) /\ a.n = k /\ b.n = k
        /\ a.opcode = e1.opcode /\ b.opcode = e2.opcode /\ a.bold = e1.bold /\ b.bold = e2.bold
    BY ShorterCuts
  <1>2. Abreast(C, G, x, y, Led(a, u1), Led(e2, t2)) /\ u1 \in Lists(C)
    BY <1>1, AbreastCut
  <1>3. Abreast(C, G, y, x, Led(e2, t2), Led(a, u1))
    BY <1>2, AbreastMirror
  <1> DEFINE d == Led(a, u1)
  <1>4. Abreast(C, G, y, x, Led(b, u2), Led(a, u1)) /\ u2 \in Lists(C)
    <2> HIDE DEF d
    <2>1. Abreast(C, G, y, x, Led(e2, t2), d)
      BY <1>3 DEF d
    <2>2. Abreast(C, G, y, x, Led(b, u2), d) /\ u2 \in Lists(C)
      BY <1>1, <2>1, AbreastCut
    <2> QED BY <2>2 DEF d
  <1>5. Abreast(C, G, x, y, Led(a, u1), Led(b, u2))
    BY <1>4, AbreastMirror
  <1>6. FollowOut(e1, e2, k) = Cutter(a, b) /\ FollowOut(e2, e1, k) = Cutter(b, a)
    BY <1>1 DEF FollowOut, Cutter
  <1> HIDE DEF a, b, u1, u2
  <1>7. a.opcode # "+" /\ b.opcode # "+" /\ a.n = b.n
    BY <1>1
  <1>8. Abreast(C, G, Act(Cutter(a, b), x), Act(Cutter(b, a), y), u1, u2)
    BY <1>1, <1>2, <1>4, <1>5, <1>7, FollowCutStep
  <1> QED BY <1>6, <1>8 DEF u1, u2

\* When one changeset has ended.
LEMMA EndedFirst ==
    ASSUME NEW C, NEW G \in SUBSET Cells(C), NEW r \in Lists(C), NEW x, NEW y,
           Abreast(C, G, x, y, Nil, r)
    PROVE  Ended(C, G, x, y, Nil, r)
  <1>1. PICK o \in Seq(G), i \in Seq(G) :
            /\ FitsOn(Nil, i) /\ FitsOn(r, i)
            /\ Makes(Nil, i) \in Seq(G) /\ Makes(r, i) \in Seq(G)
            /\ x = State(o, Makes(Nil, i)) /\ y = State(o, Makes(r, i))
    BY DEF Abreast
  <1> DEFINE j == Makes(r, i)
  <1>2. o \in Texts(C) /\ i \in Texts(C) /\ j \in Texts(C)
    BY <1>1, SomeTexts
  <1>3. Makes(Nil, i) = i
    BY <1>2, NilMakes
  <1>4. Cat(o, j) \in Seq(G)
    BY <1>1, <1>2, SomeTexts
  <1>5. Len(o) \in Nat
    BY <1>1
  <1> QED BY <1>1, <1>2, <1>3, <1>4, <1>5 DEF Ended

LEMMA CatLen ==
    ASSUME NEW C, NEW p \in Texts(C), NEW q \in Texts(C)
    PROVE  Len(Cat(p, q)) = Len(p) + Len(q) /\ Len(p) \in Nat /\ Len(q) \in Nat
  BY CellsConcat DEF Texts, Cat

LEMMA CutText2 ==
    ASSUME NEW C, NEW t \in Texts(C), NEW n \in Nat, n <= Len(t)
    PROVE  \E p, q \in Texts(C) : t = Cat(p, q) /\ Len(p) = n
  <1> DEFINE p == Take(t, n)
             q == Drop(t, n)
  <1>1. ~(n > Len(t)) /\ t \in Seq(Cells(C))
    BY CatLen DEF Texts
  <1>2. p \in Texts(C) /\ q \in Texts(C) /\ Len(p) = n /\ Cat(p, q) = t
    BY <1>1, CellsCut DEF Texts, Cat
  <1> QED BY <1>2

LEMMA EndedStep ==
    ASSUME NEW C, NEW G \in SUBSET Cells(C), NEW e \in Ops(C), NEW s \in Lists(C),
           NEW x, NEW y, Ended(C, G, x, y, Nil, Led(e, s)),
           NEW k, k = IF e.opcode = "+" THEN keep(e.n, "none") ELSE NoOp
    PROVE  Ended(C, G, Act(e, x), Act(k, y), Nil, s)
  <1>1. PICK o, i, p, j \in Texts(C) :
           /\ x = State(o, i) /\ y = State(p, j) /\ FitsOn(Led(e, s), i)
           /\ Cat(o, Makes(Led(e, s), i)) = Cat(p, j) /\ Cat(p, j) \in Seq(G)
           /\ Len(p) <= Len(o)
    BY DEF Ended
  <1> DEFINE v == Puts(e, i)
             i2 == Leaves(e, i)
             w == Makes(s, i2)
             o2 == Cat(o, v)
  <1>2. /\ Enough(e, i) /\ v \in Texts(C) /\ i2 \in Texts(C) /\ FitsOn(s, i2) /\ w \in Texts(C)
        /\ Makes(Led(e, s), i) = Cat(v, w) /\ Act(e, State(Nil, i)) = State(v, i2) /\ e \in Loose(C)
    BY <1>1, HeadIs, OpFields
  <1>3. e.opcode = "+" => Len(v) = e.n
    BY <1>2, PutsLen DEF Texts
  <1> HIDE DEF v, i2
  <1>4. Act(e, x) = State(o2, i2)
    BY <1>1, <1>2, ActBehind
  <1> HIDE DEF w
  <1>5. o2 \in Texts(C) /\ Cat(o2, w) = Cat(p, j)
    BY <1>1, <1>2, CatLaws
  <1>6. Len(o2) = Len(o) + Len(v) /\ Len(o) \in Nat /\ Len(v) \in Nat /\ Len(p) \in Nat
    BY <1>1, <1>2, CatLen
  <1> HIDE DEF o2
  <1>7. CASE e.opcode # "+"
    <2>1. Act(k, y) = y
      BY <1>7, ActNothing, NoOpFields
    <2>2. Len(p) <= Len(o2)
      BY <1>1, <1>6
    <2> QED BY <1>1, <1>2, <1>4, <1>5, <2>1, <2>2 DEF Ended, w
  <1>8. CASE e.opcode = "+"
    <2> DEFINE n == e.n
    <2>1. n \in Nat /\ 0 < n /\ Len(v) = n
      <3>1. e.n \in Nat /\ e.n >= 1
        BY OpFields
      <3> HIDE DEF n
      <3>2. n \in Nat /\ n >= 1 /\ Len(v) = n
        BY <1>3, <1>8, <3>1 DEF n
      <3> QED BY <3>2
    <2>2. k \in Ops(C) /\ k.opcode = "=" /\ k.n = n /\ k.bold = "none"
      <3> DEFINE b == "none"
      <3>1. b \in Bolds
        BY DEF Bolds
      <3>2. k = keep(n, b)
        BY <1>8
      <3> HIDE DEF b, n
      <3>3. keep(n, b) \in Ops(C) /\ keep(n, b).opcode = "=" /\ keep(n, b).n = n /\ keep(n, b).bold = b
        BY <2>1, <3>1, KeepRemove
      <3> QED BY <3>2, <3>3 DEF b
    <2> HIDE DEF n
    <2>3. n <= Len(j)
      <3>1. /\ Len(Cat(o2, w)) = Len(o2) + Len(w) /\ Len(w) \in Nat
            /\ Len(Cat(p, j)) = Len(p) + Len(j) /\ Len(j) \in Nat
        BY <1>1, <1>2, <1>5, CatLen
      <3>2. Len(o2) + Len(w) = Len(p) + Len(j)
        BY <1>5, <3>1
      <3> DEFINE a == Len(o)
                 b == Len(p)
                 c == Len(w)
                 d == Len(j)
                 f == Len(o2)
      <3>3. a \in Nat /\ b \in Nat /\ c \in Nat /\ d \in Nat /\ f = a + n /\ f + c = b + d /\ b <= a
        BY <1>1, <1>6, <2>1, <3>1, <3>2
      <3> HIDE DEF a, b, c, d, f
      <3>4. n <= d
        BY <2>1, <3>3
      <3> QED BY <3>4 DEF d
    <2>4. PICK u, j2 \in Texts(C) : j = Cat(u, j2) /\ Len(u) = n
      BY <2>1, <2>3, CutText2
    <2> DEFINE p2 == Cat(p, u)
    <2>5. Act(k, y) = State(p2, j2)
      <3>1. Act(k, State(p, Cat(u, j2))) = State(Cat(p, Styled(u, k.bold)), j2)
        BY <2>2, <2>4, ActOn
      <3>2. Styled(u, "none") = u
        BY StyledNot DEF Texts
      <3> QED BY <1>1, <2>2, <2>4, <3>1, <3>2
    <2>6. p2 \in Texts(C) /\ Cat(p2, j2) = Cat(p, j)
      BY <2>4, CatLaws
    <2>7. Len(p2) <= Len(o2)
      <3>1. Len(p2) = Len(p) + n
        BY <2>4, CatLen
      <3> DEFINE a == Len(o)
                 b == Len(p)
                 f == Len(o2)
                 g == Len(p2)
      <3>2. a \in Nat /\ b \in Nat /\ f = a + n /\ g = b + n /\ b <= a
        BY <1>1, <1>6, <2>1, <3>1
      <3> HIDE DEF a, b, f, g
      <3>3. g <= f
        BY <2>1, <3>2
      <3> QED BY <3>3 DEF g, f
    <2> HIDE DEF p2
    <2> QED BY <1>1, <1>2, <1>4, <1>5, <2>5, <2>6, <2>7 DEF Ended, w
  <1> QED BY <1>7, <1>8

LEMMA JointMirror ==
    ASSUME NEW C, NEW G, NEW x, NEW y, NEW r1, NEW r2, Joint(C, G, x, y, r1, r2)
    PROVE  Joint(C, G, y, x, r2, r1)
  BY AbreastMirror DEF Joint

\* A step of both sides, that take e1 and e2 and leave t1 and t2.
Onward(C, G, x, y, e1, t1, e2, t2, r, q) ==
    LET a == followOps(e1, e2, r)
        b == followOps(e2, e1, q)
    IN  /\ a.op1 = b.op2 /\ a.op2 = b.op1
        /\ Joint(C, G, Act(a.out, x), Act(b.out, y), Ahead(a.op1, t1), Ahead(a.op2, t2))

LEMMA OnwardMirror ==
    ASSUME NEW C, NEW G, NEW x, NEW y, NEW e1, NEW t1, NEW e2, NEW t2, NEW r, NEW q,
           Onward(C, G, x, y, e1, t1, e2, t2, r, q)
    PROVE  Onward(C, G, y, x, e2, t2, e1, t1, q, r)
<1> DEFINE a == followOps(e1, e2, r)
           b == followOps(e2, e1, q)
<1>1. a.op1 = b.op2 /\ a.op2 = b.op1
  BY DEF Onward
<1>2. Joint(C, G, Act(a.out, x), Act(b.out, y), Ahead(a.op1, t1), Ahead(a.op2, t2))
  BY DEF Onward
<1>3. Joint(C, G, Act(b.out, y), Act(a.out, x), Ahead(b.op1, t2), Ahead(b.op2, t1))
  BY <1>1, <1>2, JointMirror
<1> QED BY <1>1, <1>3 DEF Onward

LEMMA JointInsert ==
    ASSUME NEW C, NEW G \in SUBSET Cells(C), NEW e1 \in Ops(C), e1.opcode = "+", NEW t1 \in Lists(C),
           NEW r2 \in Lists(C), NEW x, NEW y, Joint(C, G, x, y, Led(e1, t1), r2),
           NEW k, k = keep(e1.n, "none")
    PROVE  Joint(C, G, Act(k, x), Act(e1, y), t1, r2)
<1>0. Led(e1, t1) # Nil
  BY DEF Led, Nil
<1>1. CASE Abreast(C, G, x, y, Led(e1, t1), r2)
  BY <1>1, FollowInsertStep DEF Joint
<1>2. CASE Ended(C, G, x, y, Led(e1, t1), r2)
  BY <1>2, <1>0 DEF Ended
<1>3. CASE Ended(C, G, y, x, r2, Led(e1, t1))
  <2>1. r2 = Nil
    BY <1>3 DEF Ended
  <2>2. Ended(C, G, y, x, Nil, Led(e1, t1))
    BY <1>3, <2>1
  <2>3. k = IF e1.opcode = "+" THEN keep(e1.n, "none") ELSE NoOp
    OBVIOUS
  <2>4. Ended(C, G, Act(e1, y), Act(k, x), Nil, t1)
    BY <2>2, <2>3, EndedStep
  <2> QED BY <2>1, <2>4 DEF Joint
<1> QED BY <1>1, <1>2, <1>3 DEF Joint

LEMMA OnwardInsert ==
    ASSUME NEW C, NEW G \in SUBSET Cells(C), NEW e1 \in Ops(C), e1.opcode = "+", NEW t1 \in Lists(C),
           NEW e2 \in Ops(C) \cup {NoOp}, NEW t2, NEW r2, Taken(C, r2, e2, t2),
           NEW r \in BOOLEAN, NEW q \in BOOLEAN, q # r,
           e2.opcode # "+" \/ InsertsFirst(e1, e2, r),
           NEW x, NEW y, Joint(C, G, x, y, Led(e1, t1), r2)
    PROVE  Onward(C, G, x, y, e1, t1, e2, t2, r, q)
<1> DEFINE k == keep(e1.n, "none")
<1> HIDE DEF k
<1>1. /\ followOps(e1, e2, r) = Result(k, NoOp, e2)
      /\ followOps(e2, e1, q) = Result(e1, e2, NoOp)
  BY FollowInserts DEF k
<1>2. r2 = Ahead(e2, t2) /\ r2 \in Lists(C)
  BY TakenLength, AheadTyped DEF Lists
<1>3. Joint(C, G, Act(k, x), Act(e1, y), t1, r2)
  BY <1>2, JointInsert DEF k
<1>4. t1 = Ahead(NoOp, t1)
  BY DEF Ahead
<1> DEFINE a == followOps(e1, e2, r)
           b == followOps(e2, e1, q)
<1>5. a.op1 = NoOp /\ a.op2 = e2 /\ a.out = k /\ b.op1 = e2 /\ b.op2 = NoOp /\ b.out = e1
  BY <1>1, ResultFields
<1> HIDE DEF a, b
<1>6. Joint(C, G, Act(a.out, x), Act(b.out, y), Ahead(a.op1, t1), Ahead(a.op2, t2))
  BY <1>2, <1>3, <1>4, <1>5
<1> QED BY <1>5, <1>6 DEF Onward, a, b


LEMMA OnwardEnd ==
    ASSUME NEW C, NEW G \in SUBSET Cells(C), NEW e \in Ops(C), e.opcode # "+", NEW t \in Lists(C),
           NEW r \in BOOLEAN, NEW q \in BOOLEAN, NEW x, NEW y, Joint(C, G, x, y, Nil, Led(e, t))
    PROVE  Onward(C, G, x, y, NoOp, Nil, e, t, r, q)
<1>1. /\ followOps(NoOp, e, r) = Result(e, NoOp, NoOp)
      /\ followOps(e, NoOp, q) = Result(NoOp, NoOp, NoOp)
  BY FollowEnds
<1>2. Led(e, t) # Nil
  BY DEF Led, Nil
<1>3. Ended(C, G, x, y, Nil, Led(e, t))
  <2>1. Led(e, t) \in Lists(C)
    BY OpsLoose DEF Led, Lists
  <2>2. CASE Abreast(C, G, x, y, Nil, Led(e, t))
    BY <2>1, <2>2, EndedFirst
  <2>3. CASE Ended(C, G, y, x, Led(e, t), Nil)
    BY <2>3, <1>2 DEF Ended
  <2> QED BY <2>2, <2>3 DEF Joint
<1> DEFINE k == IF e.opcode = "+" THEN keep(e.n, "none") ELSE NoOp
<1>4. k = NoOp
  OBVIOUS
<1>5. Ended(C, G, Act(e, x), Act(k, y), Nil, t)
  BY <1>3, EndedStep
<1>6. Joint(C, G, Act(e, x), Act(NoOp, y), Nil, t)
  BY <1>4, <1>5 DEF Joint
<1>7. t = Ahead(NoOp, t) /\ Nil = Ahead(NoOp, Nil)
  BY DEF Ahead
<1> DEFINE a == followOps(NoOp, e, r)
           b == followOps(e, NoOp, q)
<1>8. a.op1 = NoOp /\ a.op2 = NoOp /\ a.out = e /\ b.op1 = NoOp /\ b.op2 = NoOp /\ b.out = NoOp
  BY <1>1, ResultFields
<1> HIDE DEF a, b
<1>9. Joint(C, G, Act(a.out, x), Act(b.out, y), Ahead(a.op1, Nil), Ahead(a.op2, t))
  BY <1>6, <1>7, <1>8
<1> QED BY <1>8, <1>9 DEF Onward, a, b

LEMMA OnwardCut ==
    ASSUME NEW C, NEW G \in SUBSET Cells(C), NEW e1 \in Ops(C), NEW e2 \in Ops(C),
           e1.opcode # "+", e2.opcode # "+", NEW t1 \in Lists(C), NEW t2 \in Lists(C),
           NEW r \in BOOLEAN, NEW q \in BOOLEAN,
           NEW x, NEW y, Joint(C, G, x, y, Led(e1, t1), Led(e2, t2))
    PROVE  Onward(C, G, x, y, e1, t1, e2, t2, r, q)
<1> DEFINE k == Shorter(e1, e2)
<1> HIDE DEF k
<1>1. /\ followOps(e1, e2, r) = Result(FollowOut(e1, e2, k), From(e1, k), From(e2, k))
      /\ k = Shorter(e2, e1)
  BY FollowCuts DEF k
<1>2. followOps(e2, e1, q) = Result(FollowOut(e2, e1, k), From(e2, k), From(e1, k))
  BY <1>1, FollowCuts
<1>3. Led(e1, t1) # Nil /\ Led(e2, t2) # Nil
  BY DEF Led, Nil
<1>4. Abreast(C, G, x, y, Led(e1, t1), Led(e2, t2))
  BY <1>3 DEF Joint, Ended
<1>5. Abreast(C, G, Act(FollowOut(e1, e2, k), x), Act(FollowOut(e2, e1, k), y),
              Ahead(From(e1, k), t1), Ahead(From(e2, k), t2))
  BY <1>4, FollowCutsBoth DEF k
<1> DEFINE a == followOps(e1, e2, r)
           b == followOps(e2, e1, q)
<1>6. /\ a.op1 = From(e1, k) /\ a.op2 = From(e2, k) /\ a.out = FollowOut(e1, e2, k)
      /\ b.op1 = From(e2, k) /\ b.op2 = From(e1, k) /\ b.out = FollowOut(e2, e1, k)
  BY <1>1, <1>2, ResultFields
<1> HIDE DEF a, b
<1>7. Joint(C, G, Act(a.out, x), Act(b.out, y), Ahead(a.op1, t1), Ahead(a.op2, t2))
  BY <1>5, <1>6 DEF Joint
<1> QED BY <1>6, <1>7 DEF Onward, a, b

LEMMA TakenLed ==
    ASSUME NEW C, NEW r, NEW e, NEW t, Taken(C, r, e, t)
    PROVE  /\ t \in Lists(C) /\ e \in Ops(C) \cup {NoOp} /\ r \in Lists(C)
           /\ e # NoOp => e \in Ops(C) /\ r = Led(e, t)
           /\ e = NoOp => r = Nil /\ t = Nil /\ e.opcode # "+"
<1>1. e \in Ops(C) => e # NoOp
  BY OpsLoose
<1>2. r \in Lists(C)
  <2>1. e \in Ops(C) \cup {NoOp} /\ t \in Seq(Ops(C)) /\ r = Ahead(e, t)
    BY TakenLength
  <2>2. e = NoOp \/ e \in Ops(C)
    BY <2>1
  <2>3. Ahead(e, t) \in Seq(Ops(C))
    BY <2>1, <2>2, AheadTyped
  <2> QED BY <2>1, <2>3 DEF Lists
<1> QED BY <1>1, <1>2, NoOpFields DEF Taken, Led, Nil, Lists

LEMMA OnwardStep ==
    ASSUME NEW C, NEW G \in SUBSET Cells(C), NEW r1, NEW e1, NEW t1, Taken(C, r1, e1, t1),
           NEW r2, NEW e2, NEW t2, Taken(C, r2, e2, t2), e1 # NoOp \/ e2 # NoOp,
           NEW r \in BOOLEAN, NEW q \in BOOLEAN, q # r,
           NEW x, NEW y, Joint(C, G, x, y, r1, r2)
    PROVE  Onward(C, G, x, y, e1, t1, e2, t2, r, q)
<1>1. /\ t1 \in Lists(C) /\ e1 \in Ops(C) \cup {NoOp} /\ r1 \in Lists(C)
      /\ e1 # NoOp => e1 \in Ops(C) /\ r1 = Led(e1, t1)
      /\ e1 = NoOp => r1 = Nil /\ t1 = Nil /\ e1.opcode # "+"
  BY TakenLed
<1>2. /\ t2 \in Lists(C) /\ e2 \in Ops(C) \cup {NoOp} /\ r2 \in Lists(C)
      /\ e2 # NoOp => e2 \in Ops(C) /\ r2 = Led(e2, t2)
      /\ e2 = NoOp => r2 = Nil /\ t2 = Nil /\ e2.opcode # "+"
  BY TakenLed
<1>3. Joint(C, G, y, x, r2, r1)
  BY JointMirror
<1>4. CASE e1.opcode = "+" /\ (e2.opcode # "+" \/ InsertsFirst(e1, e2, r))
  <2>1. e1 \in Ops(C) /\ r1 = Led(e1, t1)
    BY <1>1, <1>4
  <2> QED BY <1>1, <1>2, <1>4, <2>1, OnwardInsert
<1>5. CASE e2.opcode = "+" /\ (e1.opcode # "+" \/ InsertsFirst(e2, e1, q))
  <2>1. e2 \in Ops(C) /\ r2 = Led(e2, t2)
    BY <1>2, <1>5
  <2>2. Onward(C, G, y, x, e2, t2, e1, t1, q, r)
    BY <1>1, <1>2, <1>3, <1>5, <2>1, OnwardInsert
  <2> QED BY <2>2, OnwardMirror
<1>6. CASE e1.opcode # "+" /\ e2.opcode # "+"
  <2>1. CASE e1 = NoOp
    <3>1. e2 \in Ops(C) /\ r2 = Led(e2, t2) /\ r1 = Nil /\ t1 = Nil
      BY <1>1, <1>2, <2>1
    <3>2. Joint(C, G, x, y, Nil, Led(e2, t2))
      BY <3>1
    <3>3. Onward(C, G, x, y, NoOp, Nil, e2, t2, r, q)
      BY <1>2, <1>6, <3>1, <3>2, OnwardEnd
    <3> QED BY <2>1, <3>1, <3>3
  <2>2. CASE e2 = NoOp
    <3>1. e1 \in Ops(C) /\ r1 = Led(e1, t1) /\ r2 = Nil /\ t2 = Nil
      BY <1>1, <1>2, <2>2
    <3>2. Joint(C, G, y, x, Nil, Led(e1, t1))
      BY <1>3, <3>1
    <3>3. Onward(C, G, y, x, NoOp, Nil, e1, t1, q, r)
      BY <1>1, <1>6, <3>1, <3>2, OnwardEnd
    <3>4. Onward(C, G, y, x, e2, t2, e1, t1, q, r)
      BY <2>2, <3>1, <3>3
    <3> QED BY <3>4, OnwardMirror
  <2>3. CASE e1 # NoOp /\ e2 # NoOp
    BY <1>1, <1>2, <1>6, <2>3, OnwardCut
  <2> QED BY <2>1, <2>2, <2>3
<1>7. InsertsFirst(e1, e2, r) \/ InsertsFirst(e2, e1, q)
  BY EitherFirst
<1> QED BY <1>4, <1>5, <1>6, <1>7

-----------------------------------------------------------------------------
(* The two zips that turn the changesets into what they are after each other *)
(* go in step.                                                               *)

LEMMA TakenOnce ==
    ASSUME NEW C, NEW r, NEW e, NEW t, NEW f, NEW s, Taken(C, r, e, t), Taken(C, r, f, s)
    PROVE  e = f /\ t = s
<1>1. \A a, b : \A u, v \in Lists(C) : Led(a, u) = Led(b, v) => a = b /\ u = v
  <2>1. ASSUME NEW a, NEW u \in Lists(C)
        PROVE  Head(Led(a, u)) = a /\ Tail(Led(a, u)) = u /\ Led(a, u) # Nil
    BY DEF Led, Lists, Nil
  <2>2. ASSUME NEW a, NEW b, NEW u \in Lists(C), NEW v \in Lists(C), Led(a, u) = Led(b, v)
        PROVE  a = b /\ u = v
    <3> DEFINE h == Led(a, u)
    <3>1. Head(h) = a /\ Tail(h) = u
      BY <2>1
    <3>2. Head(Led(b, v)) = b /\ Tail(Led(b, v)) = v
      BY <2>1
    <3>3. Head(h) = b /\ Tail(h) = v
      BY <2>2, <3>2
    <3> QED BY <3>1, <3>3
  <2> QED BY <2>2
<1>2. t \in Lists(C) /\ (e # NoOp => r = Led(e, t)) /\ (e = NoOp => r = Nil /\ t = Nil)
  BY TakenLed
<1>3. s \in Lists(C) /\ (f # NoOp => r = Led(f, s)) /\ (f = NoOp => r = Nil /\ s = Nil)
  BY TakenLed
<1>4. \A a : \A u \in Lists(C) : Led(a, u) # Nil
  BY DEF Led, Lists, Nil
<1> QED BY <1>1, <1>2, <1>3, <1>4

LEMMA WayIs ==
    ASSUME NEW r \in BOOLEAN
    PROVE  Way(r) \in ZipKinds /\ \A e1, e2 : Turned(Way(r), e1, e2) = followOps(e1, e2, r)
  BY DEF Way, ZipKinds, Turned

\* Two zips in step: what is left of one is what is left of the other.
InStep(C, G, u, v, z, y) ==
    /\ Rest1(z) = Rest2(y) /\ Rest2(z) = Rest1(y)
    /\ Joint(C, G, After(z.out, u), After(y.out, v), Rest1(z), Rest2(z))

LEMMA OutNext ==
    ASSUME NEW C, NEW kind, NEW z, NEW y, NEW e1, NEW t1, NEW e2, NEW t2,
           Steps(C, kind, z, y, e1, t1, e2, t2), NEW x
    PROVE  After(y.out, x) = Act(Turned(kind, e1, e2).out, After(z.out, x))
  BY AfterAppend DEF Steps, Answers

LEMMA InStepBoth ==
    ASSUME NEW C, NEW G \in SUBSET Cells(C), NEW r \in BOOLEAN, NEW q \in BOOLEAN, q # r,
           NEW z, NEW y, NEW u, NEW v, InStep(C, G, u, v, z, y), NEW zz, NEW yy,
           NEW e1, NEW t1, NEW e2, NEW t2,
           Steps(C, Way(r), z, zz, e1, t1, e2, t2), Steps(C, Way(q), y, yy, e2, t2, e1, t1)
    PROVE  InStep(C, G, u, v, zz, yy)
<1> DEFINE a == followOps(e1, e2, r)
           b == followOps(e2, e1, q)
<1> HIDE DEF a, b
<1>7. Turned(Way(r), e1, e2) = a /\ Turned(Way(q), e2, e1) = b
  BY WayIs DEF a, b
<1>8. /\ Rest1(zz) = Ahead(a.op1, t1) /\ Rest2(zz) = Ahead(a.op2, t2)
      /\ Rest1(yy) = Ahead(b.op1, t2) /\ Rest2(yy) = Ahead(b.op2, t1)
  BY <1>7 DEF Steps
<1>9. After(zz.out, u) = Act(a.out, After(z.out, u)) /\ After(yy.out, v) = Act(b.out, After(y.out, v))
  <2>1. After(zz.out, u) = Act(Turned(Way(r), e1, e2).out, After(z.out, u))
    BY OutNext
  <2>2. After(yy.out, v) = Act(Turned(Way(q), e2, e1).out, After(y.out, v))
    BY OutNext
  <2> QED BY <1>7, <2>1, <2>2
<1>10. Joint(C, G, After(z.out, u), After(y.out, v), Rest1(z), Rest2(z))
  BY DEF InStep
<1>3. Taken(C, Rest1(z), e1, t1) /\ Taken(C, Rest2(z), e2, t2) /\ (e1 # NoOp \/ e2 # NoOp)
  BY DEF Steps
<1>11. Onward(C, G, After(z.out, u), After(y.out, v), e1, t1, e2, t2, r, q)
  BY <1>3, <1>10, OnwardStep
<1>12. /\ a.op1 = b.op2 /\ a.op2 = b.op1
       /\ Joint(C, G, Act(a.out, After(z.out, u)), Act(b.out, After(y.out, v)),
                Ahead(a.op1, t1), Ahead(a.op2, t2))
  BY <1>11 DEF Onward, a, b
<1> QED BY <1>8, <1>9, <1>12 DEF InStep

LEMMA InStepNext ==
    ASSUME NEW C, NEW G \in SUBSET Cells(C), NEW r \in BOOLEAN, NEW q \in BOOLEAN, q # r,
           NEW z \in ZipStates(C), NEW y \in ZipStates(C), NEW u, NEW v, InStep(C, G, u, v, z, y),
           NEW n, NEW zz, zz = Through(Way(r), n, z), NEW yy, yy = Through(Way(q), n, y)
    PROVE  InStep(C, G, u, v, zz, yy)
<1>1. /\ Way(r) \in ZipKinds /\ \A e1, e2 : Turned(Way(r), e1, e2) = followOps(e1, e2, r)
      /\ Way(q) \in ZipKinds /\ \A e1, e2 : Turned(Way(q), e1, e2) = followOps(e1, e2, q)
  BY WayIs
<1>2. \/ Rest1(z) = <<>> /\ Rest2(z) = <<>> /\ zz = z
      \/ \E e1, t1, e2, t2 : Steps(C, Way(r), z, zz, e1, t1, e2, t2)
  BY <1>1, ZipStep
<1>3. \/ Rest1(y) = <<>> /\ Rest2(y) = <<>> /\ yy = y
      \/ \E e1, t1, e2, t2 : Steps(C, Way(q), y, yy, e1, t1, e2, t2)
  BY <1>1, ZipStep
<1>4. ASSUME NEW kind, NEW a, NEW b, NEW e1, NEW t1, NEW e2, NEW t2, Steps(C, kind, a, b, e1, t1, e2, t2)
      PROVE  ~(Rest1(a) = <<>> /\ Rest2(a) = <<>>)
  <2>1. Taken(C, Rest1(a), e1, t1) /\ Taken(C, Rest2(a), e2, t2) /\ (e1 # NoOp \/ e2 # NoOp)
    BY <1>4 DEF Steps
  <2>2. (e1 # NoOp => Rest1(a) = Led(e1, t1)) /\ (e2 # NoOp => Rest2(a) = Led(e2, t2))
        /\ t1 \in Lists(C) /\ t2 \in Lists(C)
    BY <2>1, TakenLed
  <2>3. \A e : \A t \in Lists(C) : Led(e, t) # Nil
    BY DEF Led, Lists, Nil
  <2> QED BY <2>1, <2>2, <2>3 DEF Nil
<1>5. Rest1(z) = Rest2(y) /\ Rest2(z) = Rest1(y)
  BY DEF InStep
<1>6. CASE Rest1(z) = <<>> /\ Rest2(z) = <<>>
  <2>1. zz = z
    BY <1>2, <1>4, <1>6
  <2>2. yy = y
    BY <1>3, <1>4, <1>5, <1>6
  <2> QED BY <2>1, <2>2
<1>7. CASE ~(Rest1(z) = <<>> /\ Rest2(z) = <<>>)
  <2>1. PICK e1, t1, e2, t2 : Steps(C, Way(r), z, zz, e1, t1, e2, t2)
    BY <1>2, <1>7
  <2>2. PICK f1, s1, f2, s2 : Steps(C, Way(q), y, yy, f1, s1, f2, s2)
    BY <1>3, <1>5, <1>7
  <2>3. Taken(C, Rest1(z), e1, t1) /\ Taken(C, Rest2(z), e2, t2) /\ (e1 # NoOp \/ e2 # NoOp)
    BY <2>1 DEF Steps
  <2>4. Taken(C, Rest2(z), f1, s1) /\ Taken(C, Rest1(z), f2, s2)
    BY <1>5, <2>2 DEF Steps
  <2>5. f1 = e2 /\ s1 = t2 /\ f2 = e1 /\ s2 = t1
    BY <2>3, <2>4, TakenOnce
  <2>6. Steps(C, Way(q), y, yy, e2, t2, e1, t1)
    BY <2>2, <2>5
  <2> QED BY <2>1, <2>6, InStepBoth
<1> QED BY <1>6, <1>7


\* A text made of what is put out and what is left.
JointEnds(G, x, y) ==
    x.ok /\ y.ok /\ Cat(x.out, x.in) = Cat(y.out, y.in) /\ Cat(x.out, x.in) \in Seq(G)

LEMMA JointEnd ==
    ASSUME NEW C, NEW G \in SUBSET Cells(C), NEW x, NEW y, Joint(C, G, x, y, Nil, Nil)
    PROVE  JointEnds(G, x, y)
<1>1. ASSUME NEW o \in Texts(C), NEW i \in Texts(C), NEW p \in Texts(C), NEW j \in Texts(C),
             Cat(o, i) = Cat(p, j), Cat(p, j) \in Seq(G)
      PROVE  JointEnds(G, State(o, i), State(p, j)) /\ JointEnds(G, State(p, j), State(o, i))
  <2> DEFINE w == State(o, i)
             z == State(p, j)
  <2>1. w.out = o /\ w.in = i /\ w.ok = TRUE /\ z.out = p /\ z.in = j /\ z.ok = TRUE
    BY StateFields
  <2> HIDE DEF w, z
  <2>2. JointEnds(G, w, z) /\ JointEnds(G, z, w)
    BY <1>1, <2>1 DEF JointEnds
  <2> QED BY <2>2 DEF w, z
<1>3. ASSUME NEW w, NEW z, Ended(C, G, w, z, Nil, Nil)
      PROVE  JointEnds(G, w, z) /\ JointEnds(G, z, w)
  <2>1. PICK o \in Texts(C), i \in Texts(C), p \in Texts(C), j \in Texts(C) :
             /\ w = State(o, i) /\ z = State(p, j) /\ FitsOn(Nil, i)
             /\ Cat(o, Makes(Nil, i)) = Cat(p, j) /\ Cat(p, j) \in Seq(G)
    BY <1>3 DEF Ended
  <2>2. Makes(Nil, i) = i
    BY NilMakes, Zenon
  <2> QED BY <1>1, <2>1, <2>2
<1> QED BY <1>3, EndedFirst, NilTyped DEF Joint

\* Two changesets of one text, each followed by what the other becomes behind it,
\* make the same of it.
LEMMA FollowLaw ==
    ASSUME NEW C, NEW G \in SUBSET Cells(C), NEW c1 \in Lists(C), NEW c2 \in Lists(C),
           NEW t \in Seq(G), FitsOn(c1, t), FitsOn(c2, t), Makes(c1, t) \in Seq(G), Makes(c2, t) \in Seq(G),
           NEW r \in BOOLEAN, NEW q \in BOOLEAN, q # r,
           NEW a, a = ZipEnd(Way(r), c1, c2).out, NEW b, b = ZipEnd(Way(q), c2, c1).out
    PROVE  /\ a \in Seq(Loose(C)) /\ b \in Seq(Loose(C))
           /\ FitsOn(a, Makes(c1, t)) /\ FitsOn(b, Makes(c2, t))
           /\ Makes(a, Makes(c1, t)) = Makes(b, Makes(c2, t)) /\ Makes(a, Makes(c1, t)) \in Seq(G)
<1> DEFINE u == State(Nil, Makes(c1, t))
           v == State(Nil, Makes(c2, t))
           zA(n) == ZipTo(Way(r), c1, c2, n)
           zB(n) == ZipTo(Way(q), c2, c1, n)
           P == {n \in Nat : InStep(C, G, u, v, zA(n), zB(n))}
<1>1. Way(r) \in ZipKinds /\ Way(q) \in ZipKinds
  BY WayIs
<1>2. c1 \in Seq(Ops(C)) /\ c2 \in Seq(Ops(C))
  BY DEF Lists
<1>3. \A n \in Nat : zA(n) \in ZipStates(C) /\ zB(n) \in ZipStates(C)
  BY <1>1, <1>2, ZipTyped
<1>4. 0 \in P
  <2>1. zA(0) = ZipStart(c1, c2) /\ zB(0) = ZipStart(c2, c1)
    BY FoldToFirst DEF ZipTo
  <2>2. /\ zA(0).out = Nil /\ Rest1(zA(0)) = c1 /\ Rest2(zA(0)) = c2
        /\ zB(0).out = Nil /\ Rest1(zB(0)) = c2 /\ Rest2(zB(0)) = c1
    BY <1>2, <2>1, ZipStartIs DEF Nil
  <2>3. After(Nil, u) = u /\ After(Nil, v) = v
    BY AfterNothing DEF Nil
  <2>4. Abreast(C, G, u, v, c1, c2)
    BY SomeTexts DEF Abreast
  <2>5. Joint(C, G, u, v, c1, c2)
    BY <2>4 DEF Joint
  <2> HIDE DEF u, v, zA, zB
  <2>6. InStep(C, G, u, v, zA(0), zB(0))
    BY <2>2, <2>3, <2>5 DEF InStep
  <2> QED BY <2>6
<1>5. ASSUME NEW n \in Nat, n \in P
      PROVE  n + 1 \in P
  <2> DEFINE m == n + 1
  <2>1. m = n + 1 /\ m \in Nat
    OBVIOUS
  <2> HIDE DEF m
  <2>2. zA(m) = Through(Way(r), Nothing(m), zA(n)) /\ zB(m) = Through(Way(q), Nothing(m), zB(n))
    BY <2>1, ZipNext
  <2>3. InStep(C, G, u, v, zA(n), zB(n)) /\ zA(n) \in ZipStates(C) /\ zB(n) \in ZipStates(C)
    BY <1>3, <1>5
  <2> HIDE DEF u, v, zA, zB
  <2>4. InStep(C, G, u, v, zA(m), zB(m))
    BY <2>2, <2>3, InStepNext
  <2> QED BY <2>1, <2>4
<1>6. Nat \subseteq P
  <2> HIDE DEF P
  <2> QED BY <1>4, <1>5, NumberInduction
<1> DEFINE L == Length(c1) + Length(c2)
<1>7. L \in Nat /\ Length(c2) + Length(c1) = L
  <2>1. Length(c1) \in Nat /\ Length(c2) \in Nat
    BY NilTyped, LengthTyped
  <2> QED BY <2>1
<1> HIDE DEF L
<1>8. ZipEnd(Way(r), c1, c2) = zA(L) /\ ZipEnd(Way(q), c2, c1) = zB(L)
  BY <1>7 DEF ZipEnd, L
<1>9. InStep(C, G, u, v, zA(L), zB(L))
  BY <1>6, <1>7
<1>10. Rest1(zA(L)) = Nil /\ Rest2(zA(L)) = Nil
  BY <1>1, <1>2, <1>8, ZipEnds DEF Nil
<1>11. Joint(C, G, After(a, u), After(b, v), Nil, Nil)
  BY <1>8, <1>9, <1>10 DEF InStep
<1>12. JointEnds(G, After(a, u), After(b, v))
  BY <1>11, JointEnd
<1>13. a \in Seq(Loose(C)) /\ b \in Seq(Loose(C))
  <2>1. ZipEnd(Way(r), c1, c2) \in ZipStates(C) /\ ZipEnd(Way(q), c2, c1) \in ZipStates(C)
    BY <1>1, <1>2, ZipEnds
  <2> QED BY <2>1, ZipFields
<1> QED BY <1>12, <1>13 DEF JointEnds, FitsOn, Makes, Nil, Cat

-----------------------------------------------------------------------------
(* How long a changeset makes a text. *)

Grown(C, x, n) ==
    \E o, i \in Texts(C) : x = State(o, i) /\ n = Len(o) + Len(i)

LEMMA GrownIs ==
    ASSUME NEW C, NEW o \in Texts(C), NEW i \in Texts(C), NEW n, n = Len(o) + Len(i)
    PROVE  Grown(C, State(o, i), n)
  BY DEF Grown

LEMMA GrowthIs ==
    ASSUME NEW e
    PROVE  /\ e.opcode = "+" => Growth(e) = e.n
           /\ e.opcode = "-" => Growth(e) = -e.n
           /\ e.opcode # "+" /\ e.opcode # "-" => Growth(e) = 0
<1>1. CASE e.opcode = "+"
  BY <1>1 DEF Growth
<1>2. CASE e.opcode = "-"
  BY <1>2 DEF Growth
<1>3. CASE e.opcode # "+" /\ e.opcode # "-"
  BY <1>3 DEF Growth
<1> QED BY <1>1, <1>2, <1>3

LEMMA ActGrows ==
    ASSUME NEW C, NEW e \in Loose(C), NEW x, NEW n, Grown(C, x, n), Act(e, x).ok,
           NEW m, m = n + Growth(e)
    PROVE  Grown(C, Act(e, x), m)
<1>0. PICK o \in Texts(C), i \in Texts(C) : x = State(o, i) /\ n = Len(o) + Len(i)
  BY DEF Grown
<1> DEFINE y == Act(e, State(o, i))
<1>1. /\ o \in Seq(Cells(C)) /\ i \in Seq(Cells(C)) /\ Len(o) \in Nat /\ Len(i) \in Nat
      /\ y.ok /\ y = Act(e, x)
  BY <1>0 DEF Texts
<1> SUFFICES Grown(C, y, m)
  BY <1>1
<1>2. CASE e.n = 0
  <2>1. y = State(o, i)
    BY <1>2, ActNothing
  <2>2. Growth(e) = 0
    BY <1>2, GrowthIs
  <2>3. m = Len(o) + Len(i)
    BY <1>0, <1>1, <2>2
  <2> QED BY <2>1, <2>3, GrownIs
<1>3. CASE e.n # 0
  <2>1. e \in Ops(C) /\ e.n \in Nat
    BY <1>3, LooseFields
  <2>2. CASE e.opcode = "+"
    <3> DEFINE c == CellsOf(e.text, e.bold)
               w == o \o c
    <3>1. y = State(w, i) /\ Growth(e) = e.n
      BY <2>1, <2>2, ActInsert, GrowthIs
    <3>2. c \in Seq(Cells(C)) /\ Len(c) = e.n
      BY <2>1, <2>2, OpFields, CellsOfSeq
    <3>3. Len(w) = Len(o) + e.n /\ w \in Texts(C)
      BY <1>1, <3>2, CellsConcat DEF Texts
    <3> HIDE DEF c, w, y
    <3>4. m = Len(w) + Len(i)
      BY <1>0, <1>1, <2>1, <3>1, <3>3
    <3> QED BY <3>1, <3>3, <3>4, GrownIs
  <2>3. CASE e.opcode = "-"
    <3> DEFINE j == Drop(i, e.n)
    <3>1. y = IF e.n > Len(i) THEN Stuck ELSE State(o, j)
      BY <2>1, <2>3, ActRemove
    <3>2. ~(e.n > Len(i)) /\ y = State(o, j) /\ Growth(e) = -e.n
      BY <1>1, <3>1, <2>3, StuckFields, GrowthIs
    <3>3. Len(j) = Len(i) - e.n /\ j \in Texts(C)
      BY <1>1, <2>1, <3>2, CellsCut DEF Texts
    <3> HIDE DEF j, y
    <3>4. m = Len(o) + Len(j)
      BY <1>0, <1>1, <2>1, <3>2, <3>3
    <3> QED BY <3>2, <3>3, <3>4, GrownIs
  <2>4. CASE e.opcode = "="
    <3> DEFINE p == Take(i, e.n)
               w == o \o Styled(p, e.bold)
               j == Drop(i, e.n)
    <3>1. y = IF e.n > Len(i) THEN Stuck ELSE State(w, j)
      BY <2>1, <2>4, ActKeep
    <3>2. ~(e.n > Len(i)) /\ y = State(w, j) /\ Growth(e) = 0
      BY <1>1, <3>1, <2>4, StuckFields, GrowthIs
    <3>3. Len(j) = Len(i) - e.n /\ j \in Texts(C) /\ p \in Seq(Cells(C)) /\ Len(p) = e.n
      BY <1>1, <2>1, <3>2, CellsCut DEF Texts
    <3>4. Styled(p, e.bold) \in Seq(Cells(C)) /\ Len(Styled(p, e.bold)) = e.n
      BY <2>1, <3>3, OpFields, StyledSeq
    <3>5. Len(w) = Len(o) + e.n /\ w \in Texts(C)
      BY <1>1, <3>4, CellsConcat DEF Texts
    <3> HIDE DEF w, j, y
    <3>6. m = Len(w) + Len(j)
      BY <1>0, <1>1, <2>1, <3>2, <3>3, <3>5
    <3> QED BY <3>2, <3>3, <3>5, <3>6, GrownIs
  <2> QED BY <2>1, <2>2, <2>3, <2>4, OpFields
<1> QED BY <1>2, <1>3

LEMMA GrowsTo ==
    ASSUME NEW C, NEW t \in Texts(C)
    PROVE  \A s \in Seq(Loose(C)) : After(s, State(Nil, t)).ok =>
               Grown(C, After(s, State(Nil, t)), Fold("newLen", s, Len(t)))
<1> DEFINE u == State(Nil, t)
           P == {s \in Seq(Loose(C)) : After(s, u).ok => Grown(C, After(s, u), Fold("newLen", s, Len(t)))}
<1>0. Nil \in Texts(C) /\ Len(t) = Len(Nil) + Len(t)
  BY NilTyped DEF Texts, Nil
<1>1. Nil \in P
  <2>1. After(Nil, u) = u /\ Fold("newLen", Nil, Len(t)) = Len(t)
    BY AfterNothing, FoldEmpty DEF Nil
  <2>2. Grown(C, u, Len(t))
    BY <1>0, GrownIs
  <2> QED BY <2>1, <2>2 DEF Nil
<1>2. ASSUME NEW s \in Seq(Loose(C)), NEW e \in Loose(C), s \in P
      PROVE  Append(s, e) \in P
  <2> DEFINE w == Append(s, e)
             x == After(s, u)
             k == Fold("newLen", s, Len(t))
  <2>1. w \in Seq(Loose(C))
    OBVIOUS
  <2>2. After(w, u) = Act(e, x)
    BY AfterAppend
  <2>3. Fold("newLen", w, Len(t)) = k + Growth(e)
    <3>1. Fold("newLen", w, Len(t)) = Through("newLen", e, k)
      BY FoldAppend
    <3> HIDE DEF k
    <3> QED BY <3>1 DEF Through
  <2>4. ASSUME After(w, u).ok
        PROVE  Grown(C, After(w, u), Fold("newLen", w, Len(t)))
    <3>1. Act(e, x).ok
      BY <2>2, <2>4
    <3>2. x.ok
      BY <3>1, ActOk
    <3>3. Grown(C, x, k)
      BY <1>2, <3>2
    <3> HIDE DEF x, k
    <3>4. Grown(C, Act(e, x), k + Growth(e))
      BY <3>1, <3>3, ActGrows
    <3> QED BY <2>2, <2>3, <3>4
  <2> QED BY <2>1, <2>4
<1>3. Seq(Loose(C)) \subseteq P
  <2> HIDE DEF P
  <2> QED BY <1>1, <1>2, SeqInduction DEF Nil
<1> QED BY <1>3

LEMMA NewLenLaw ==
    ASSUME NEW C, NEW cs, cs.ops \in Lists(C), NEW t \in Texts(C), cs.oldLen = Len(t), FitsOn(cs.ops, t)
    PROVE  newLen(cs) = Len(Makes(cs.ops, t))
<1> DEFINE s == cs.ops
<1>1. s \in Seq(Loose(C))
  BY NilTyped
<1>2. newLen(cs) = Fold("newLen", s, Len(t))
  BY <1>1, NewLenIs DEF Fold
<1>3. After(s, State(Nil, t)).ok
  BY DEF FitsOn, Nil
<1>4. Grown(C, After(s, State(Nil, t)), newLen(cs))
  BY <1>1, <1>2, <1>3, GrowsTo
<1>5. PICK o \in Texts(C), i \in Texts(C) :
           After(s, State(Nil, t)) = State(o, i) /\ newLen(cs) = Len(o) + Len(i)
  BY <1>4 DEF Grown
<1>6. Makes(s, t) = Cat(o, i)
  BY <1>5, FoundMakes
<1> QED BY <1>5, <1>6, CatLen

-----------------------------------------------------------------------------
(* A text is its body and a final newline, and a changeset of it does not    *)
(* reach into that newline.                                                  *)

End      == <<[char |-> Newline, bold |-> "none"]>>
Whole(b) == Cat(b, End)

Fit(C, G, cs, b) ==
    /\ b \in Seq(G) /\ cs.ops \in Lists(C) /\ Canonical(cs) /\ cs.oldLen = Len(b) + 1
    /\ FitsOn(cs.ops, b) /\ Makes(cs.ops, b) \in Seq(G)

LEMMA WholeIs ==
    ASSUME NEW C, Newline \in C, NEW b \in Texts(C)
    PROVE  End \in Texts(C) /\ Whole(b) \in Texts(C) /\ Len(Whole(b)) = Len(b) + 1 /\ Len(b) \in Nat
<1> DEFINE c == [char |-> Newline, bold |-> "none"]
<1>1. c \in Cells(C)
  BY DEF Cells, Bolds
<1>2. End \in Texts(C) /\ Len(End) = 1
  <2> HIDE DEF c
  <2>1. <<c>> \in Seq(Cells(C)) /\ Len(<<c>>) = 1
    BY <1>1
  <2> QED BY <2>1 DEF c, End, Texts
<1>3. Whole(b) \in Texts(C)
  BY <1>2, CatLaws DEF Whole
<1> QED BY <1>2, <1>3, CatLen DEF Whole

LEMMA FitWhole ==
    ASSUME NEW C, Newline \in C, NEW G \in SUBSET Cells(C), NEW cs, NEW b, Fit(C, G, cs, b)
    PROVE  /\ FitsOn(cs.ops, Whole(b)) /\ Makes(cs.ops, Whole(b)) = Whole(Makes(cs.ops, b))
           /\ b \in Texts(C) /\ cs.ops \in Lists(C) /\ Makes(cs.ops, b) \in Texts(C)
           /\ cs.oldLen = Len(Whole(b)) /\ newLen(cs) = Len(Makes(cs.ops, b)) + 1
<1>1. b \in Texts(C) /\ cs.ops \in Lists(C) /\ Makes(cs.ops, b) \in Texts(C) /\ cs.oldLen = Len(b) + 1
  BY SomeTexts DEF Fit
<1>2. End \in Texts(C) /\ Whole(b) \in Texts(C) /\ Len(Whole(b)) = Len(b) + 1
      /\ Len(Whole(Makes(cs.ops, b))) = Len(Makes(cs.ops, b)) + 1
  BY <1>1, WholeIs
<1> DEFINE s == cs.ops
<1>3. s \in Seq(Loose(C))
  BY <1>1, NilTyped
<1>4. FitsOn(s, b)
  BY DEF Fit
<1>5. FitsOn(s, b \o End) /\ Makes(s, b \o End) = Makes(s, b) \o End
  BY <1>1, <1>2, <1>3, <1>4, MakesBefore DEF Texts
<1>6. FitsOn(s, Whole(b)) /\ Makes(s, Whole(b)) = Whole(Makes(s, b))
  BY <1>5 DEF Whole, Cat
<1>7. newLen(cs) = Len(Makes(s, Whole(b)))
  BY <1>1, <1>2, <1>6, NewLenLaw
<1> QED BY <1>1, <1>2, <1>6, <1>7

\* What an assembler makes of loose ops that fit.
LEMMA PackFits ==
    ASSUME NEW C, NEW G \in SUBSET Cells(C), NEW b \in Seq(G), NEW s \in Seq(Loose(C)), FitsOn(s, b),
           Makes(s, b) \in Seq(G), NEW n, n = Len(b) + 1
    PROVE  /\ Fit(C, G, pack(n, Assemble(s)), b)
           /\ Makes(pack(n, Assemble(s)).ops, b) = Makes(s, b)
<1> DEFINE cs == pack(n, Assemble(s))
<1>1. cs.ops = Assemble(s) /\ cs.oldLen = n
  BY DEF pack
<1>2. b \in Seq(Cells(C))
  BY SomeTexts DEF Texts
<1>3. FitsOn(cs.ops, b) /\ Makes(cs.ops, b) = Makes(s, b)
  BY <1>1, <1>2, AssembleActs
<1>4. cs.ops \in Lists(C) /\ Canonical(cs)
  BY <1>1, AssembleTyped DEF Lists, Canonical
<1> HIDE DEF cs
<1>5. Fit(C, G, cs, b)
  BY <1>1, <1>3, <1>4 DEF Fit
<1> QED BY <1>3, <1>5 DEF cs

LEMMA FollowAs ==
    ASSUME NEW C, NEW c1, NEW c2, c1.ops \in Lists(C), c2.ops \in Lists(C), NEW r \in BOOLEAN
    PROVE  follow(c1, c2, r) = pack(newLen(c1), Assemble(ZipEnd(Way(r), c1.ops, c2.ops).out))
<1> DEFINE n == Length(c1.ops) + Length(c2.ops)
           z == applyZip(c1.ops, c2.ops, LAMBDA op1, op2 : followOps(op1, op2, r))
<1>1. n \in Nat
  BY ZipEnds, WayIs DEF Lists
<1>2. z = Assemble(FoldTo(Way(r), <<>>, ZipStart(c1.ops, c2.ops), n).out)
  BY <1>1, FollowIs
<1>3. FoldTo(Way(r), <<>>, ZipStart(c1.ops, c2.ops), n) = ZipEnd(Way(r), c1.ops, c2.ops)
  BY DEF ZipEnd, ZipTo
<1>4. follow(c1, c2, r) = pack(newLen(c1), z)
  BY DEF follow
<1> QED BY <1>2, <1>3, <1>4

\* The two sides of follow lead to one text: of two changesets of one text, each
\* fits what the other makes of it.
THEOREM FollowMeets ==
    ASSUME NEW C, Newline \in C, NEW G \in SUBSET Cells(C), NEW c1, NEW c2, NEW b,
           Fit(C, G, c1, b), Fit(C, G, c2, b), NEW r \in BOOLEAN, NEW q \in BOOLEAN, q # r
    PROVE  /\ Fit(C, G, follow(c1, c2, r), Makes(c1.ops, b))
           /\ Fit(C, G, follow(c2, c1, q), Makes(c2.ops, b))
           /\ Makes(follow(c1, c2, r).ops, Makes(c1.ops, b)) = Makes(follow(c2, c1, q).ops, Makes(c2.ops, b))
<1> DEFINE d1 == c1.ops
           d2 == c2.ops
           a1 == ZipEnd(Way(r), d1, d2).out
           a2 == ZipEnd(Way(q), d2, d1).out
           b1 == Makes(d1, b)
           b2 == Makes(d2, b)
<1>1. /\ b \in Seq(G) /\ d1 \in Lists(C) /\ d2 \in Lists(C) /\ FitsOn(d1, b) /\ FitsOn(d2, b)
      /\ b1 \in Seq(G) /\ b2 \in Seq(G)
  BY DEF Fit
<1>2. newLen(c1) = Len(b1) + 1 /\ newLen(c2) = Len(b2) + 1
  BY FitWhole
<1>3. /\ follow(c1, c2, r) = pack(newLen(c1), Assemble(a1))
      /\ follow(c2, c1, q) = pack(newLen(c2), Assemble(a2))
  BY <1>1, FollowAs
<1> HIDE DEF d1, d2
<1>4. /\ a1 \in Seq(Loose(C)) /\ a2 \in Seq(Loose(C)) /\ FitsOn(a1, b1) /\ FitsOn(a2, b2)
      /\ Makes(a1, b1) = Makes(a2, b2) /\ Makes(a1, b1) \in Seq(G)
  BY <1>1, FollowLaw
<1> HIDE DEF a1, a2, b1, b2
<1> DEFINE n1 == newLen(c1)
           n2 == newLen(c2)
<1> HIDE DEF n1, n2
<1>5. n1 = Len(b1) + 1 /\ n2 = Len(b2) + 1
  BY <1>2 DEF n1, n2
<1>6. /\ Fit(C, G, pack(n1, Assemble(a1)), b1) /\ Makes(pack(n1, Assemble(a1)).ops, b1) = Makes(a1, b1)
      /\ Fit(C, G, pack(n2, Assemble(a2)), b2) /\ Makes(pack(n2, Assemble(a2)).ops, b2) = Makes(a2, b2)
  BY <1>1, <1>4, <1>5, PackFits, ZenonT(60)
<1> QED BY <1>3, <1>4, <1>6 DEF n1, n2, b1, b2, d1, d2

LEMMA ComposeAs ==
    ASSUME NEW C, NEW in1 \in Lists(C), NEW in2 \in Lists(C)
    PROVE  applyZip(in1, in2, slicerZipperFunc) = Assemble(ZipEnd("slice", in1, in2).out)
<1> DEFINE n == Length(in1) + Length(in2)
<1>1. n \in Nat
  BY ZipEnds DEF Lists, ZipKinds
<1>2. applyZip(in1, in2, slicerZipperFunc) = Assemble(FoldTo("slice", <<>>, ZipStart(in1, in2), n).out)
  BY <1>1, SliceIs
<1> QED BY <1>2 DEF ZipEnd, ZipTo

\* Two changesets that are composed make of a text what they make one after the
\* other.
THEOREM ComposeMakes ==
    ASSUME NEW C, Newline \in C, NEW G \in SUBSET Cells(C), NEW c1, NEW c2, NEW b,
           Fit(C, G, c1, b), Fit(C, G, c2, Makes(c1.ops, b))
    PROVE  /\ Fit(C, G, compose(c1, c2), b)
           /\ Makes(compose(c1, c2).ops, b) = Makes(c2.ops, Makes(c1.ops, b))
<1> DEFINE d1 == c1.ops
           d2 == c2.ops
           a == ZipEnd("slice", d1, d2).out
           n == c1.oldLen
<1>1. /\ b \in Seq(G) /\ d1 \in Lists(C) /\ d2 \in Lists(C) /\ FitsOn(d1, b) /\ n = Len(b) + 1
      /\ FitsOn(d2, Makes(d1, b)) /\ Makes(d2, Makes(d1, b)) \in Seq(G)
  BY DEF Fit
<1>2. compose(c1, c2) = pack(n, Assemble(a))
  BY <1>1, ComposeAs DEF compose
<1> HIDE DEF d1, d2, n
<1>3. b \in Texts(C)
  BY <1>1, SomeTexts
<1>4. a \in Seq(Loose(C)) /\ FitsOn(a, b) /\ Makes(a, b) = Makes(d2, Makes(d1, b))
  BY <1>1, <1>3, SliceLaw
<1>5. Makes(a, b) \in Seq(G)
  BY <1>1, <1>4
<1> HIDE DEF a
<1>6. Fit(C, G, pack(n, Assemble(a)), b) /\ Makes(pack(n, Assemble(a)).ops, b) = Makes(a, b)
  BY <1>1, <1>4, <1>5, PackFits, SMTT(30)
<1> QED BY <1>2, <1>4, <1>6 DEF d1, d2

\* A list of runs shows a text.
Shows(C, s, t) == s \in Lists(C) /\ FitsOn(s, Nil) /\ Makes(s, Nil) = t

LEMMA AssembleShows ==
    ASSUME NEW C, NEW s \in Seq(Loose(C)), FitsOn(s, Nil)
    PROVE  Shows(C, Assemble(s), Makes(s, Nil))
<1>1. Nil \in Seq(Cells(C))
  BY NilTyped DEF Texts
<1> QED BY <1>1, AssembleActs, AssembleTyped DEF Shows, Lists

\* A changeset applied to a text makes of it what its ops make.
THEOREM ApplyMakes ==
    ASSUME NEW C, Newline \in C, NEW G \in SUBSET Cells(C), NEW cs, NEW b, Fit(C, G, cs, b),
           NEW s, Shows(C, s, Whole(b))
    PROVE  Shows(C, applyToAText(cs, s), Whole(Makes(cs.ops, b)))
<1> DEFINE d == cs.ops
           a == ZipEnd("slice", s, d).out
<1>1. d \in Lists(C) /\ FitsOn(d, Whole(b)) /\ Makes(d, Whole(b)) = Whole(Makes(d, b))
  BY FitWhole
<1>2. s \in Lists(C) /\ FitsOn(s, Nil) /\ Makes(s, Nil) = Whole(b) /\ Nil \in Texts(C)
  BY NilTyped DEF Shows
<1>3. applyToAText(cs, s) = Assemble(a)
  BY <1>1, <1>2, ComposeAs DEF applyToAText
<1> HIDE DEF d
<1>4. a \in Seq(Loose(C)) /\ FitsOn(a, Nil) /\ Makes(a, Nil) = Makes(d, Makes(s, Nil))
  BY <1>1, <1>2, SliceLaw
<1> HIDE DEF a
<1>5. Shows(C, Assemble(a), Makes(a, Nil))
  BY <1>4, AssembleShows
<1> QED BY <1>1, <1>2, <1>3, <1>4, <1>5 DEF d

LEMMA AssembleNil == Assemble(Nil) = Nil
<1>1. Reorder(Nil) = Nil /\ Merge(Nil) = Nil
  BY ReorderEmpty, MergeEmpty DEF Nil
<1>2. Trimmed(Nil) = Nil /\ Spelled(Nil) = Nil
  BY SpelledEmpty DEF Trimmed, Nil
<1> QED BY <1>1, <1>2, AssembleIs

LEMMA IdentityFits ==
    ASSUME NEW C, NEW G \in SUBSET Cells(C), NEW b \in Seq(G), NEW n, n = Len(b) + 1
    PROVE  Fit(C, G, identity(n), b) /\ Makes(identity(n).ops, b) = b
<1> DEFINE cs == identity(n)
<1>1. cs.ops = Nil /\ cs.oldLen = n
  BY DEF identity, pack, Nil
<1>2. b \in Texts(C) /\ Nil \in Lists(C) /\ FitsOn(Nil, b) /\ Makes(Nil, b) = b
  BY SomeTexts, NilTyped, NilMakes
<1>3. Assemble(Nil) = Nil
  BY AssembleNil
<1> HIDE DEF cs
<1>4. Fit(C, G, cs, b) /\ Makes(cs.ops, b) = b
  BY <1>1, <1>2, <1>3 DEF Fit, Canonical
<1> QED BY <1>4 DEF cs

-----------------------------------------------------------------------------
(* What a changeset inserts, in the order of its ops. *)

Words(C)     == Seq(C)
Beside(p, q) == p \o q
Said(s)      == Fold("typed", s, <<>>)

LEMMA WordLaws ==
    ASSUME NEW C
    PROVE  /\ Nil \in Words(C)
           /\ \A p \in Words(C) : Beside(p, Nil) = p /\ Beside(Nil, p) = p
           /\ \A p, q \in Words(C) : Beside(p, q) \in Words(C)
           /\ \A p, q, r \in Words(C) : Beside(Beside(p, q), r) = Beside(p, Beside(q, r))
<1>1. Nil \in Words(C) /\ \A p, q \in Words(C) : Beside(p, q) \in Words(C)
  BY DEF Words, Beside, Nil
<1>2. \A p \in Words(C) : Beside(p, Nil) = p /\ Beside(Nil, p) = p
  BY ConcatEmptySeq DEF Words, Beside, Nil
<1>3. \A p, q, r \in Words(C) : Beside(Beside(p, q), r) = Beside(p, Beside(q, r))
  BY ConcatAssociative, SMTT(30) DEF Words, Beside
<1> QED BY <1>1, <1>2, <1>3

LEMMA SaidAppend ==
    ASSUME NEW C, NEW s \in Seq(Loose(C)), NEW e \in Loose(C)
    PROVE  /\ Said(Append(s, e)) = Beside(Said(s), e.text)
           /\ e.text \in Words(C) /\ Append(s, e) \in Seq(Loose(C))
<1>1. Said(Append(s, e)) = Through("typed", e, Said(s))
  BY FoldAppend DEF Said
<1>2. Through("typed", e, Said(s)) = Said(s) \o e.text
  <2> DEFINE x == Said(s)
  <2> HIDE DEF x
  <2> QED BY DEF Through
<1>3. e.text \in Words(C)
  BY LooseFields DEF Words
<1>4. Append(s, e) \in Seq(Loose(C))
  <2> DEFINE L == Loose(C)
  <2> HIDE DEF L
  <2>1. s \in Seq(L) /\ e \in L
    BY DEF L
  <2>2. Append(s, e) \in Seq(L)
    BY <2>1
  <2> QED BY <2>2 DEF L
<1> QED BY <1>1, <1>2, <1>3, <1>4 DEF Beside

LEMMA SaidNil == Said(Nil) = Nil
  BY FoldEmpty DEF Said, Nil

LEMMA SaidTyped ==
    ASSUME NEW C
    PROVE  \A s \in Seq(Loose(C)) : Said(s) \in Words(C)
<1> DEFINE L == Loose(C)
           P == {s \in Seq(L) : Said(s) \in Words(C)}
<1>1. <<>> \in P
  BY SaidNil, WordLaws DEF Nil
<1>2. ASSUME NEW s \in Seq(L), NEW e \in L, s \in P
      PROVE  Append(s, e) \in P
  BY <1>2, SaidAppend, WordLaws
<1>3. Seq(L) \subseteq P
  <2> HIDE DEF P, L
  <2> QED BY <1>1, <1>2, SeqInduction
<1> QED BY <1>3

LEMMA SaidConcat ==
    ASSUME NEW C, NEW s \in Seq(Loose(C))
    PROVE  \A t \in Seq(Loose(C)) : s \o t \in Seq(Loose(C)) /\ Said(s \o t) = Beside(Said(s), Said(t))
<1> DEFINE L == Loose(C)
           P == {t \in Seq(L) : s \o t \in Seq(L) /\ Said(s \o t) = Beside(Said(s), Said(t))}
<1>0. Said(s) \in Words(C)
  BY SaidTyped
<1>1. <<>> \in P
  <2>1. s \o <<>> = s /\ <<>> \in Seq(L)
    <3> HIDE DEF L
    <3>1. s \in Seq(L)
      BY DEF L
    <3> QED BY <3>1, ConcatEmptySeq
  <2> QED BY <1>0, <2>1, SaidNil, WordLaws DEF Nil
<1>2. ASSUME NEW t \in Seq(L), NEW e \in L, t \in P
      PROVE  Append(t, e) \in P
  <2>1. s \o Append(t, e) = Append(s \o t, e) /\ Append(t, e) \in Seq(L)
    <3> HIDE DEF L
    <3>1. s \in Seq(L)
      BY DEF L
    <3> QED BY <3>1
  <2> DEFINE w == s \o t
  <2>2. w \in Seq(L) /\ Said(w) = Beside(Said(s), Said(t))
    BY <1>2
  <2> HIDE DEF w
  <2>3. Said(Append(w, e)) = Beside(Said(w), e.text) /\ Append(w, e) \in Seq(L) /\ e.text \in Words(C)
    BY <2>2, SaidAppend
  <2>4. Said(Append(t, e)) = Beside(Said(t), e.text)
    BY SaidAppend
  <2>5. Said(t) \in Words(C)
    BY SaidTyped
  <2>6. Said(Append(w, e)) = Beside(Said(s), Said(Append(t, e)))
    <3> DEFINE p == Said(s)
               q == Said(t)
               r == e.text
    <3>1. p \in Words(C) /\ q \in Words(C) /\ r \in Words(C)
      BY <1>0, <2>3, <2>5
    <3> HIDE DEF p, q, r
    <3>2. Beside(Beside(p, q), r) = Beside(p, Beside(q, r))
      BY <3>1, WordLaws
    <3> QED BY <2>2, <2>3, <2>4, <3>2 DEF p, q, r
  <2> QED BY <2>1, <2>3, <2>6 DEF w
<1>3. Seq(L) \subseteq P
  <2> HIDE DEF P, L
  <2> QED BY <1>1, <1>2, SeqInduction
<1> QED BY <1>3


\* Reordering, merging and writing ops keeps what they insert.
LEMMA ReorderedSays ==
    ASSUME NEW C, NEW ops \in Seq(Ops(C)), NEW e \in Loose(C)
    PROVE  Said(Reordered(ops, e)) = Beside(Said(ops), e.text)
<1> DEFINE L == Loose(C)
<1>0. ops \in Seq(L) /\ Said(ops) \in Words(C)
  BY OpsLoose, SaidTyped
<1>1. CASE e.n = 0
  <2>1. Reordered(ops, e) = ops /\ e.text = Nil
    BY <1>1, LooseFields DEF Reordered, Nil
  <2> QED BY <1>0, <2>1, WordLaws
<1>2. CASE e.n # 0 /\ e.opcode # "-"
  <2>1. Reordered(ops, e) = Append(ops, e)
    BY <1>2 DEF Reordered
  <2> QED BY <1>0, <2>1, SaidAppend
<1>3. CASE e.n # 0 /\ e.opcode = "-"
  <2>1. e \in Ops(C) /\ e.text = Nil
    BY <1>3, LooseFields, OpFields DEF Nil
  <2>2. PutBefore(C, ops, e, Reordered(ops, e))
    BY <1>3, <2>1, ReorderedIs
  <2>3. PICK u \in Seq(Ops(C)), v \in Seq(Inserts(C)) :
            ops = u \o v /\ Reordered(ops, e) = (u \o <<e>>) \o v
    BY <2>2 DEF PutBefore
  <2>4. u \in Seq(L) /\ v \in Seq(L) /\ <<e>> \in Seq(L)
    <3>1. Inserts(C) \subseteq L /\ Ops(C) \subseteq L
      BY OpsLoose DEF Inserts
    <3> HIDE DEF L
    <3>2. Seq(Inserts(C)) \subseteq Seq(L) /\ Seq(Ops(C)) \subseteq Seq(L)
      BY <3>1, SeqMonotonic
    <3>3. e \in L
      BY <2>1, <3>1
    <3> QED BY <3>2, <3>3
  <2>5. Said(<<e>>) = Nil
    <3>1. <<e>> = Append(<<>>, e) /\ <<>> \in Seq(L)
      <4> HIDE DEF L
      <4> QED OBVIOUS
    <3>2. Said(Append(<<>>, e)) = Beside(Said(<<>>), e.text)
      BY <3>1, SaidAppend
    <3> QED BY <2>1, <3>1, <3>2, SaidNil, WordLaws DEF Nil
  <2>6. Said(u \o <<e>>) = Beside(Said(u), Said(<<e>>)) /\ u \o <<e>> \in Seq(L)
    BY <2>4, SaidConcat
  <2>7. Said(u) \in Words(C)
    BY <2>4, SaidTyped
  <2>8. Said(u \o <<e>>) = Said(u)
    BY <2>5, <2>6, <2>7, WordLaws
  <2>9. Said((u \o <<e>>) \o v) = Beside(Said(u \o <<e>>), Said(v))
    BY <2>4, <2>6, SaidConcat
  <2>10. Said(u \o v) = Beside(Said(u), Said(v))
    BY <2>4, SaidConcat
  <2>11. Said(Reordered(ops, e)) = Said(ops)
    BY <2>3, <2>8, <2>9, <2>10
  <2> QED BY <1>0, <2>1, <2>11, WordLaws
<1> QED BY <1>1, <1>2, <1>3

LEMMA ReorderSays ==
    ASSUME NEW C
    PROVE  \A s \in Seq(Loose(C)) : Said(Reorder(s)) = Said(s)
<1> DEFINE S == Loose(C)
           P == {s \in Seq(S) : Said(Reorder(s)) = Said(s)}
<1>1. <<>> \in P
  BY ReorderEmpty, OpsLoose
<1>2. ASSUME NEW s \in Seq(S), NEW e \in S, s \in P
      PROVE  Append(s, e) \in P
  <2>1. Reorder(s) \in Seq(Ops(C))
    BY ReorderActs
  <2>2. Reorder(Append(s, e)) = Reordered(Reorder(s), e)
    <3> HIDE DEF S
    <3> QED BY ReorderAppend
  <2>3. Said(Reordered(Reorder(s), e)) = Beside(Said(Reorder(s)), e.text)
    BY <2>1, ReorderedSays
  <2>4. Said(Append(s, e)) = Beside(Said(s), e.text) /\ Append(s, e) \in Seq(S)
    BY SaidAppend
  <2> QED BY <1>2, <2>2, <2>3, <2>4
<1>3. Seq(S) \subseteq P
  <2> HIDE DEF P, S
  <2> QED BY <1>1, <1>2, SeqInduction
<1> QED BY <1>3

LEMMA MergedSays ==
    ASSUME NEW C, NEW ops \in Seq(Ops(C)), NEW e \in Ops(C)
    PROVE  Said(Merged(ops, e)) = Beside(Said(ops), e.text)
<1> DEFINE L == Loose(C)
<1>0. ops \in Seq(L) /\ e \in L
  BY OpsLoose
<1>1. MergedInto(C, ops, e, Merged(ops, e))
  BY MergedIs
<1>2. CASE Merged(ops, e) = Append(ops, e)
  BY <1>0, <1>2, SaidAppend
<1>3. ASSUME NEW f \in Seq(Ops(C)), NEW l \in Ops(C), ops = Append(f, l), l.opcode = e.opcode, l.bold = e.bold,
             Merged(ops, e) = Append(f, Joined(l, e))
      PROVE  Said(Merged(ops, e)) = Beside(Said(ops), e.text)
  <2> DEFINE j == Joined(l, e)
  <2>1. j \in Ops(C) /\ j.text = Beside(l.text, e.text)
    <3>1. /\ j \in Ops(C)
          /\ j = [opcode |-> e.opcode, n |-> l.n + e.n, text |-> l.text \o e.text, bold |-> e.bold]
      BY <1>3, JoinedIs
    <3> HIDE DEF j
    <3>2. j.text = l.text \o e.text
      BY <3>1
    <3> QED BY <3>1, <3>2 DEF Beside
  <2> HIDE DEF j
  <2>2. f \in Seq(L) /\ l \in L /\ j \in L
    BY <2>1, OpsLoose
  <2>3. Said(Append(f, j)) = Beside(Said(f), j.text)
    BY <2>2, SaidAppend
  <2>4. Said(ops) = Beside(Said(f), l.text)
    BY <1>3, <2>2, SaidAppend
  <2> DEFINE p == Said(f)
             q == l.text
             r == e.text
  <2>5. p \in Words(C) /\ q \in Words(C) /\ r \in Words(C)
    BY <1>0, <2>2, SaidTyped, SaidAppend
  <2> HIDE DEF p, q, r
  <2>6. Beside(Beside(p, q), r) = Beside(p, Beside(q, r))
    BY <2>5, WordLaws
  <2> QED BY <1>3, <2>1, <2>3, <2>4, <2>6 DEF p, q, r, j
<1> QED BY <1>1, <1>2, <1>3 DEF MergedInto

LEMMA MergeSays ==
    ASSUME NEW C
    PROVE  \A s \in Seq(Ops(C)) : Said(Merge(s)) = Said(s)
<1> DEFINE S == Ops(C)
           P == {s \in Seq(S) : Said(Merge(s)) = Said(s)}
<1>1. <<>> \in P
  BY MergeEmpty, OpsLoose
<1>2. ASSUME NEW s \in Seq(S), NEW e \in S, s \in P
      PROVE  Append(s, e) \in P
  <2>1. Merge(s) \in Seq(Ops(C))
    BY MergeActs
  <2>2. Merge(Append(s, e)) = Merged(Merge(s), e)
    <3> HIDE DEF S
    <3> QED BY MergeAppend
  <2>3. Said(Merged(Merge(s), e)) = Beside(Said(Merge(s)), e.text)
    BY <2>1, MergedSays
  <2>4. s \in Seq(Loose(C)) /\ e \in Loose(C) /\ Append(s, e) \in Seq(S)
    BY AppendTyped
  <2>5. Said(Append(s, e)) = Beside(Said(s), e.text)
    BY <2>4, SaidAppend
  <2> QED BY <1>2, <2>2, <2>3, <2>4, <2>5
<1>3. Seq(S) \subseteq P
  <2> HIDE DEF P, S
  <2> QED BY <1>1, <1>2, SeqInduction
<1> QED BY <1>3


LEMMA SpelledSays ==
    ASSUME NEW C
    PROVE  \A s \in Seq(Ops(C)) : Said(Spelled(s)) = Said(s)
<1> DEFINE S == Ops(C)
           P == {s \in Seq(S) : Said(Spelled(s)) = Said(s)}
<1>1. <<>> \in P
  BY SpelledEmpty, OpsLoose
<1>2. ASSUME NEW s \in Seq(S), NEW e \in S, s \in P
      PROVE  Append(s, e) \in P
  <2>0. s \in Seq(Loose(C)) /\ e \in Loose(C) /\ Append(s, e) \in Seq(S)
    BY AppendTyped
  <2> DEFINE r == Spelled(s)
             w == Written(e)
  <2>1. r \in Seq(Ops(C)) /\ Said(r) = Said(s) /\ w \in Seq(Ops(C))
    BY <1>2, SpelledActs, WrittenActs
  <2>2. Spelled(Append(s, e)) = r \o w
    BY SpelledAppend
  <2>3. WrittenAs(C, e, w)
    BY WrittenIs
  <2>4. Said(Append(s, e)) = Beside(Said(s), e.text) /\ e.text \in Words(C)
    BY <2>0, SaidAppend
  <2> HIDE DEF r, w
  <2>5. r \in Seq(Loose(C)) /\ w \in Seq(Loose(C)) /\ Said(r) \in Words(C)
    BY <2>1, OpsLoose, SaidTyped
  <2>6. Said(w) = e.text
    <3>1. CASE w = <<e>>
      <4>1. <<e>> = Append(<<>>, e) /\ <<>> \in Seq(Loose(C))
        <5> DEFINE L == Loose(C)
        <5> HIDE DEF L
        <5>1. <<e>> = Append(<<>>, e) /\ <<>> \in Seq(L)
          OBVIOUS
        <5> QED BY <5>1 DEF L
      <4>2. Said(Append(<<>>, e)) = Beside(Said(<<>>), e.text)
        BY <2>0, <4>1, SaidAppend
      <4> QED BY <2>4, <3>1, <4>1, <4>2, SaidNil, WordLaws DEF Nil
    <3>2. ASSUME NEW a \in Ops(C), NEW b \in Ops(C), w = <<a>> \o <<b>>, Joined(a, b) = e,
                 a.opcode = b.opcode, a.bold = b.bold
          PROVE  Said(w) = e.text
      <4>1. e.text = Beside(a.text, b.text)
        <5> DEFINE k == a.n + b.n
                   u == a.text \o b.text
        <5>1. e = [opcode |-> b.opcode, n |-> k, text |-> u, bold |-> b.bold]
          BY <3>2, JoinedIs
        <5> HIDE DEF k, u
        <5>2. e.text = u
          BY <5>1
        <5> QED BY <5>2 DEF u, Beside
      <4>2. IsPair(w, a, b)
        BY <3>2 DEF IsPair
      <4> DEFINE nil == <<>>
      <4>3. nil \in Seq(Ops(C)) /\ nil \in Seq(Loose(C)) /\ a \in Loose(C) /\ b \in Loose(C)
        BY OpsLoose
      <4>4. w = Append(Append(nil, a), b)
        <5>1. nil \o w = Append(Append(nil, a), b)
          BY <4>2, <4>3, PairTyped
        <5>2. nil \o w = w
          BY <2>5, ConcatEmptySeq
        <5> QED BY <5>1, <5>2
      <4>5. Said(nil) = Nil /\ a.text \in Words(C)
        BY <4>3, SaidNil, SaidAppend DEF Nil
      <4> HIDE DEF nil
      <4>6. Said(Append(nil, a)) = Beside(Nil, a.text) /\ Append(nil, a) \in Seq(Loose(C))
        BY <4>3, <4>5, SaidAppend
      <4>7. Said(Append(Append(nil, a), b)) = Beside(Said(Append(nil, a)), b.text)
        BY <4>3, <4>6, SaidAppend
      <4> QED BY <4>1, <4>4, <4>5, <4>6, <4>7, WordLaws
    <3> QED BY <2>3, <3>1, <3>2 DEF WrittenAs
  <2>7. Said(r \o w) = Beside(Said(r), Said(w))
    BY <2>5, SaidConcat
  <2> QED BY <2>0, <2>1, <2>2, <2>4, <2>6, <2>7
<1>3. Seq(S) \subseteq P
  <2> HIDE DEF P, S
  <2> QED BY <1>1, <1>2, SeqInduction
<1> QED BY <1>3

LEMMA TrimmedSays ==
    ASSUME NEW C, NEW m \in Seq(Ops(C))
    PROVE  Said(Trimmed(m)) = Said(m) /\ Trimmed(m) \in Seq(Ops(C))
<1>1. CASE Trimmed(m) = m
  BY <1>1
<1>2. ASSUME NEW f \in Seq(Ops(C)), NEW l \in Ops(C), m = Append(f, l), l.opcode = "=", Trimmed(m) = f
      PROVE  Said(Trimmed(m)) = Said(m)
  <2>1. f \in Seq(Loose(C)) /\ l \in Loose(C) /\ l.text = Nil
    BY <1>2, OpsLoose, OpFields DEF Nil
  <2>2. Said(Append(f, l)) = Beside(Said(f), l.text) /\ Said(f) \in Words(C)
    BY <2>1, SaidAppend, SaidTyped
  <2> QED BY <1>2, <2>1, <2>2, WordLaws
<1> QED BY <1>1, <1>2, TrimmedIs

\* An assembler keeps what is inserted.
LEMMA AssembleSays ==
    ASSUME NEW C, NEW s \in Seq(Loose(C))
    PROVE  Said(Assemble(s)) = Said(s)
<1>1. Reorder(s) \in Seq(Ops(C)) /\ Said(Reorder(s)) = Said(s)
  BY ReorderActs, ReorderSays
<1> DEFINE u == Reorder(s)
           m == Merge(u)
           k == Trimmed(m)
<1>2. m \in Seq(Ops(C)) /\ Said(m) = Said(u)
  BY <1>1, MergeActs, MergeSays
<1>3. k \in Seq(Ops(C)) /\ Said(k) = Said(m)
  <2> HIDE DEF m
  <2> QED BY <1>2, TrimmedSays
<1>4. Said(Spelled(k)) = Said(k)
  <2> HIDE DEF k
  <2> QED BY <1>3, SpelledSays
<1> QED BY <1>1, <1>2, <1>3, <1>4, AssembleIs

LEMMA SaidAhead ==
    ASSUME NEW C, NEW e \in Ops(C) \cup {NoOp}, NEW s \in Lists(C)
    PROVE  Said(Ahead(e, s)) = Beside(e.text, Said(s)) /\ e.text \in Words(C) /\ Said(s) \in Words(C)
<1>0. s \in Seq(Loose(C)) /\ Said(s) \in Words(C) /\ e \in Loose(C) /\ e.text \in Words(C)
  BY NilTyped, SaidTyped, MaybeOp, LooseFields DEF Words
<1>1. CASE e = NoOp
  <2>1. Ahead(e, s) = s /\ e.text = Nil
    BY <1>1, NoOpFields DEF Ahead, Nil
  <2> QED BY <1>0, <2>1, WordLaws
<1>2. CASE e # NoOp
  <2>1. Ahead(e, s) = <<e>> \o s
    BY <1>2 DEF Ahead
  <2> DEFINE L == Loose(C)
             nil == <<>>
  <2>2. <<e>> = Append(nil, e) /\ nil \in Seq(L)
    <3> HIDE DEF L
    <3> QED OBVIOUS
  <2>3. Said(nil) = Nil
    BY SaidNil DEF Nil
  <2> HIDE DEF nil
  <2>4. Said(Append(nil, e)) = Beside(Said(nil), e.text) /\ Append(nil, e) \in Seq(L)
    BY <1>0, <2>2, SaidAppend
  <2>5. Said(<<e>>) = e.text /\ <<e>> \in Seq(L)
    BY <1>0, <2>2, <2>3, <2>4, WordLaws
  <2>6. Said(<<e>> \o s) = Beside(Said(<<e>>), Said(s))
    BY <1>0, <2>5, SaidConcat
  <2> QED BY <1>0, <2>1, <2>5, <2>6
<1> QED BY <1>1, <1>2

LEMMA PlainText ==
    ASSUME NEW C, NEW e \in Ops(C) \cup {NoOp}, e.opcode # "+"
    PROVE  e.text = Nil
  BY OpFields, NoOpFields DEF Nil

\* A step of follow puts out what the second op inserts, or leaves it.
LEMMA FollowOpsSay ==
    ASSUME NEW C, NEW e1 \in Ops(C) \cup {NoOp}, NEW e2 \in Ops(C) \cup {NoOp}, e1 # NoOp \/ e2 # NoOp,
           NEW r \in BOOLEAN, NEW res, res = followOps(e1, e2, r)
    PROVE  Beside(res.out.text, res.op2.text) = e2.text
<1>0. e2.text \in Words(C) /\ Nil \in Words(C)
  BY MaybeOp, LooseFields, WordLaws DEF Words
<1>1. ASSUME NEW o, NEW a, NEW b, res = Result(o, a, b), o.text = e2.text, b.text = Nil
      PROVE  Beside(res.out.text, res.op2.text) = e2.text
  BY <1>0, <1>1, ResultFields, WordLaws
<1>2. ASSUME NEW o, NEW a, NEW b, res = Result(o, a, b), o.text = Nil, b.text = e2.text
      PROVE  Beside(res.out.text, res.op2.text) = e2.text
  BY <1>0, <1>2, ResultFields, WordLaws
<1>3. NoOp.text = Nil /\ \A n, b : keep(n, b).text = Nil
  BY NoOpFields DEF keep, Nil
<1>4. CASE e1.opcode = "+" \/ e2.opcode = "+"
  <2>1. res = Result(keep(e1.n, "none"), NoOp, e2) \/ res = Result(e2, e1, NoOp)
    BY <1>4 DEF followOps, followInsert
  <2>2. CASE res = Result(keep(e1.n, "none"), NoOp, e2)
    BY <1>2, <1>3, <2>2
  <2>3. CASE res = Result(e2, e1, NoOp)
    BY <1>1, <1>3, <2>3
  <2> QED BY <2>1, <2>2, <2>3
<1>5. CASE e1.opcode # "+" /\ e2.opcode # "+"
  <2>0. e2.text = Nil
    BY <1>5, PlainText
  <2>1. CASE e1 = NoOp
    <3>1. res = Result(e2, NoOp, NoOp)
      BY <1>5, <2>1, FollowEnds
    <3> QED BY <1>1, <1>3, <3>1
  <2>2. CASE e2 = NoOp
    <3>1. res = Result(NoOp, NoOp, NoOp)
      BY <1>5, <2>2, FollowEnds
    <3> QED BY <1>1, <1>3, <2>0, <3>1
  <2>3. CASE e1 # NoOp /\ e2 # NoOp
    <3> DEFINE k == Shorter(e1, e2)
    <3>0. e1 \in Ops(C) /\ e2 \in Ops(C)
      BY <2>3
    <3>1. res = Result(FollowOut(e1, e2, k), From(e1, k), From(e2, k))
      BY <1>5, <3>0, FollowCuts
    <3>2. /\ k \in Nat /\ 0 < k /\ k <= e2.n /\ From(e2, k) \in Ops(C) \cup {NoOp}
          /\ UpTo(e2, k) \in Ops(C) /\ UpTo(e2, k).opcode = e2.opcode
      BY <3>0, ShorterCuts
    <3> HIDE DEF k
    <3>3. From(e2, k).text = Nil
      <4>1. From(e2, k).opcode # "+"
        <5>1. CASE k = e2.n
          BY <3>0, <3>2, <5>1, CutOp, NoOpFields
        <5>2. CASE k # e2.n
          <6>1. k < e2.n
            BY <3>0, <3>2, <5>2, OpFields
          <6> QED BY <1>5, <3>0, <3>2, <6>1, CutOp
        <5> QED BY <5>1, <5>2
      <4> QED BY <3>2, <4>1, PlainText
    <3>4. UpTo(e2, k).text = Nil
      BY <1>5, <3>2, PlainText
    <3>5. FollowOut(e1, e2, k).text = Nil
      BY <1>3, <3>4 DEF FollowOut
    <3> QED BY <1>1, <2>0, <3>1, <3>3, <3>5
  <2> QED BY <2>1, <2>2, <2>3
<1> QED BY <1>4, <1>5

\* What follow makes of a changeset inserts what that inserts.
LEMMA FollowSays ==
    ASSUME NEW C, NEW in1 \in Lists(C), NEW in2 \in Lists(C), NEW r \in BOOLEAN
    PROVE  Said(ZipEnd(Way(r), in1, in2).out) = Said(in2)
<1> DEFINE g == Said(in2)
           P == {z \in ZipStates(C) : Beside(Said(z.out), Said(Rest2(z))) = g}
           kind == Way(r)
<1>0. kind \in ZipKinds /\ \A e1, e2 : Turned(kind, e1, e2) = followOps(e1, e2, r)
  BY WayIs
<1>1. ZipStart(in1, in2) \in P
  <2>1. /\ ZipStart(in1, in2) \in ZipStates(C) /\ ZipStart(in1, in2).out = Nil
        /\ Rest2(ZipStart(in1, in2)) = in2
    BY ZipStartIs DEF Lists, Nil
  <2>2. g \in Words(C)
    BY NilTyped, SaidTyped
  <2> QED BY <2>1, <2>2, SaidNil, WordLaws
<1>2. ASSUME NEW z \in ZipStates(C), NEW y \in ZipStates(C), NEW e1, NEW t1, NEW e2, NEW t2,
             z \in P, Steps(C, kind, z, y, e1, t1, e2, t2)
      PROVE  y \in P
  <2> DEFINE res == followOps(e1, e2, r)
  <2>1. /\ Taken(C, Rest1(z), e1, t1) /\ Taken(C, Rest2(z), e2, t2) /\ (e1 # NoOp \/ e2 # NoOp)
        /\ Rest2(y) = Ahead(res.op2, t2) /\ y.out = Append(z.out, res.out) /\ z.out \in Seq(Loose(C))
        /\ res.out \in Loose(C) /\ res.op2 \in Ops(C) \cup {NoOp}
    BY <1>0, <1>2 DEF Steps, Answers
  <2>2. e1 \in Ops(C) \cup {NoOp} /\ e2 \in Ops(C) \cup {NoOp} /\ t2 \in Lists(C) /\ Rest2(z) = Ahead(e2, t2)
    BY <2>1, TakenLength, TakenLed
  <2>3. Beside(res.out.text, res.op2.text) = e2.text
    <3>1. e1 # NoOp \/ e2 # NoOp
      BY <2>1
    <3>2. e1 \in Ops(C) \cup {NoOp} /\ e2 \in Ops(C) \cup {NoOp}
      BY <2>2
    <3>3. res = followOps(e1, e2, r)
      OBVIOUS
    <3> HIDE DEF res
    <3> QED BY <3>1, <3>2, <3>3, FollowOpsSay
  <2> HIDE DEF res
  <2> DEFINE o == Said(z.out)
             a == res.out.text
             b == res.op2.text
             s == Said(t2)
  <2>4. Said(y.out) = Beside(o, a) /\ a \in Words(C) /\ o \in Words(C)
    BY <2>1, SaidAppend, SaidTyped
  <2>5. Said(Rest2(y)) = Beside(b, s) /\ b \in Words(C) /\ s \in Words(C)
    BY <2>1, <2>2, SaidAhead
  <2>6. Said(Rest2(z)) = Beside(Beside(a, b), s)
    BY <2>2, <2>3, SaidAhead
  <2>7. Beside(o, Said(Rest2(z))) = g
    BY <1>2
  <2> HIDE DEF o, a, b, s
  <2>8. Beside(Beside(o, a), Beside(b, s)) = Beside(o, Beside(Beside(a, b), s))
    <3>1. Beside(b, s) \in Words(C) /\ Beside(Beside(a, b), s) = Beside(a, Beside(b, s))
      BY <2>4, <2>5, WordLaws
    <3>2. Beside(Beside(o, a), Beside(b, s)) = Beside(o, Beside(a, Beside(b, s)))
      BY <2>4, <3>1, WordLaws
    <3> QED BY <3>1, <3>2
  <2> QED BY <2>4, <2>5, <2>6, <2>7, <2>8
<1>3. ZipEnd(kind, in1, in2) \in P
  <2> HIDE DEF P, kind
  <2>1. in1 \in Seq(Ops(C)) /\ in2 \in Seq(Ops(C))
    BY DEF Lists
  <2> QED BY <1>0, <1>1, <1>2, <2>1, ZipKeeps
<1>4. Rest2(ZipEnd(kind, in1, in2)) = Nil /\ ZipEnd(kind, in1, in2).out \in Seq(Loose(C))
  BY <1>0, ZipEnds, ZipFields DEF Lists, Nil
<1>5. Said(ZipEnd(kind, in1, in2).out) \in Words(C)
  BY <1>4, SaidTyped
<1> QED BY <1>3, <1>4, <1>5, SaidNil, WordLaws
=============================================================================

----------------------- MODULE ChangesetTracker_proofs -----------------------
(***************************************************************************)
(* For every set of authors, text and bound, and with lost submissions:    *)
(* the official text of every browser is the pad's text at its revision    *)
(* (for which browser and server need only rebase by the same calls of     *)
(* follow); every changeset that is kept fits the text it is for, so that  *)
(* no submission is refused; the editor shows the official text, what is   *)
(* submitted and what is typed; what is typed arrives whole; and when all  *)
(* is settled the texts agree.  These rest on the laws of the algebra in   *)
(* Changeset_proofs.                                                       *)
(***************************************************************************)
EXTENDS ChangesetTracker, Changeset_proofs

-----------------------------------------------------------------------------
(* What the recursive definitions yield. *)

LEMMA RebasedCarries ==
    ASSUME NEW revs, NEW cs, NEW b \in Nat
    PROVE  \E f : Carries(f, Nat, "changeset", revs, cs, b) /\ \A r : RebasedTo(revs, cs, b, r) = f[r]
  <1> DEFINE P(f) == f = [i \in Nat |-> IF i <= b THEN cs ELSE follow(revs[i], f[i - 1], FALSE)]
             g == CHOOSE f : P(f)
  <1>1. \A f : P(f) <=> Carries(f, Nat, "changeset", revs, cs, b)
    BY DEF Carries, Through
  <1>2. \A r : RebasedTo(revs, cs, b, r) = g[r]
    BY DEF RebasedTo
  <1> HIDE DEF P
  <1>3. P(g)
    BY <1>1, CarryExists
  <1> HIDE DEF g
  <1> QED BY <1>1, <1>2, <1>3

LEMMA TextCarries ==
    ASSUME NEW revs
    PROVE  \E f : /\ Carries(f, Nat, "text", revs, Runs(Plain(InitialText)), 0)
                  /\ \A r : TextAt(revs, r) = f[r]
  <1> DEFINE x == Runs(Plain(InitialText))
             P(f) == f = [i \in Nat |-> IF i = 0 THEN x ELSE applyToAText(revs[i], f[i - 1])]
             g == CHOOSE f : P(f)
  <1>2. \A r : TextAt(revs, r) = g[r]
    BY DEF TextAt
  <1> HIDE DEF x
  <1>1. \A f : P(f) <=> Carries(f, Nat, "text", revs, x, 0)
    <2> TAKE f
    <2>1. [i \in Nat |-> IF i = 0 THEN x ELSE applyToAText(revs[i], f[i - 1])]
          = [i \in Nat |-> IF i <= 0 THEN x ELSE applyToAText(revs[i], f[i - 1])]
      OBVIOUS
    <2> QED BY <2>1 DEF Carries, Through
  <1> HIDE DEF P
  <1>3. P(g)
    BY <1>1, CarryExists
  <1> HIDE DEF g
  <1>4. Carries(g, Nat, "text", revs, x, 0)
    BY <1>1, <1>3
  <1> QED BY <1>2, <1>4 DEF x

\* A changeset is itself after the revision it is based on, and follows each later one.
LEMMA RebasedFirst ==
    ASSUME NEW revs, NEW cs, NEW b \in Nat
    PROVE  RebasedTo(revs, cs, b, b) = cs
  <1>1. PICK f : Carries(f, Nat, "changeset", revs, cs, b) /\ \A r : RebasedTo(revs, cs, b, r) = f[r]
    BY RebasedCarries
  <1>2. f[b] = cs
    BY <1>1, CarriesAt
  <1> QED BY <1>1, <1>2

LEMMA RebasedNext ==
    ASSUME NEW revs, NEW cs, NEW b \in Nat, NEW r \in Nat, r >= b,
           NEW n, n = r + 1
    PROVE  RebasedTo(revs, cs, b, n) = SubmittedAfter(revs[n], RebasedTo(revs, cs, b, r))
  <1>1. PICK f : Carries(f, Nat, "changeset", revs, cs, b) /\ \A i : RebasedTo(revs, cs, b, i) = f[i]
    BY RebasedCarries
  <1>2. n \in Nat /\ ~(n <= b) /\ n - 1 = r
    OBVIOUS
  <1>3. f[n] = Through("changeset", revs[n], f[n - 1])
    BY <1>1, <1>2, CarriesAt
  <1>4. f[n] = SubmittedAfter(revs[n], f[r])
    BY <1>2, <1>3 DEF Through, SubmittedAfter
  <1> QED BY <1>1, <1>4

LEMMA TextFirst ==
    ASSUME NEW revs
    PROVE  TextAt(revs, 0) = Runs(Plain(InitialText))
  <1> DEFINE x == Runs(Plain(InitialText))
  <1>1. PICK f : Carries(f, Nat, "text", revs, x, 0) /\ \A r : TextAt(revs, r) = f[r]
    BY TextCarries
  <1> HIDE DEF x
  <1>2. f[0] = x
    BY <1>1, CarriesAt
  <1> QED BY <1>1, <1>2 DEF x

LEMMA TextNext ==
    ASSUME NEW revs, NEW r \in Nat, NEW n, n = r + 1
    PROVE  TextAt(revs, n) = applyToAText(revs[n], TextAt(revs, r))
  <1> DEFINE x == Runs(Plain(InitialText))
  <1>1. PICK f : Carries(f, Nat, "text", revs, x, 0) /\ \A i : TextAt(revs, i) = f[i]
    BY TextCarries
  <1> HIDE DEF x
  <1>2. n \in Nat /\ ~(n <= 0) /\ n - 1 = r
    OBVIOUS
  <1>3. f[n] = Through("text", revs[n], f[n - 1])
    BY <1>1, <1>2, CarriesAt
  <1>4. f[n] = applyToAText(revs[n], f[r])
    BY <1>2, <1>3 DEF Through
  <1> QED BY <1>1, <1>4

\* Later revisions change neither.
LEMMA RebasedAlike ==
    ASSUME NEW rs, NEW ss, NEW cs, NEW b \in Nat, NEW n \in Nat, \A i \in b + 1 .. n : rs[i] = ss[i]
    PROVE  RebasedTo(rs, cs, b, n) = RebasedTo(ss, cs, b, n)
  <1>1. PICK f : Carries(f, Nat, "changeset", rs, cs, b) /\ \A r : RebasedTo(rs, cs, b, r) = f[r]
    BY RebasedCarries
  <1>2. PICK g : Carries(g, Nat, "changeset", ss, cs, b) /\ \A r : RebasedTo(ss, cs, b, r) = g[r]
    BY RebasedCarries
  <1>3. 0 .. n \subseteq Nat
    OBVIOUS
  <1>4. f[n] = g[n]
    BY <1>1, <1>2, <1>3, CarryAlike
  <1> QED BY <1>1, <1>2, <1>4

LEMMA TextAlike ==
    ASSUME NEW rs, NEW ss, NEW n \in Nat, \A i \in 1 .. n : rs[i] = ss[i]
    PROVE  TextAt(rs, n) = TextAt(ss, n)
  <1> DEFINE x == Runs(Plain(InitialText))
  <1>1. PICK f : Carries(f, Nat, "text", rs, x, 0) /\ \A r : TextAt(rs, r) = f[r]
    BY TextCarries
  <1>2. PICK g : Carries(g, Nat, "text", ss, x, 0) /\ \A r : TextAt(ss, r) = g[r]
    BY TextCarries
  <1> HIDE DEF x
  <1>3. 0 .. n \subseteq Nat /\ 0 \in Nat /\ \A i \in 0 + 1 .. n : rs[i] = ss[i]
    OBVIOUS
  <1>4. f[n] = g[n]
    BY <1>1, <1>2, <1>3, CarryAlike
  <1> QED BY <1>1, <1>2, <1>4

\* Rebasing may pause anywhere: what is half way rebased by the browser is
\* what the server rebases in one go.
LEMMA RebasedTwice ==
    ASSUME NEW revs, NEW cs, NEW b \in Nat, NEW m \in Nat, NEW n \in Nat, b <= m, m <= n
    PROVE  RebasedTo(revs, RebasedTo(revs, cs, b, m), m, n) = RebasedTo(revs, cs, b, n)
  <1> DEFINE half == RebasedTo(revs, cs, b, m)
             Bad == {i \in m .. n : RebasedTo(revs, half, m, i) # RebasedTo(revs, cs, b, i)}
  <1>1. SUFFICES ASSUME Bad # {} PROVE FALSE
    <2>1. n \in m .. n
      OBVIOUS
    <2> HIDE DEF half
    <2>2. n \notin Bad => RebasedTo(revs, half, m, n) = RebasedTo(revs, cs, b, n)
      BY <2>1
    <2> HIDE DEF Bad
    <2> QED BY <2>2 DEF half
  <1>2. Bad \in SUBSET Nat
    OBVIOUS
  <1>3. PICK i \in Bad : \A j \in Bad : i <= j
    BY <1>1, <1>2, LeastNumber
  <1>4. i \in m .. n /\ i \in Nat /\ RebasedTo(revs, half, m, i) # RebasedTo(revs, cs, b, i)
    BY <1>2, <1>3
  <1>5. i # m
    <2>1. RebasedTo(revs, RebasedTo(revs, cs, b, m), m, m) = RebasedTo(revs, cs, b, m)
      BY RebasedFirst
    <2> QED BY <1>4, <2>1
  <1>6. i - 1 \in m .. n /\ i - 1 \in Nat /\ i - 1 >= m /\ i - 1 >= b /\ i - 1 \notin Bad /\ (i - 1) + 1 = i
    BY <1>3, <1>4, <1>5
  <1>7. RebasedTo(revs, half, m, i - 1) = RebasedTo(revs, cs, b, i - 1)
    BY <1>6
  <1> HIDE DEF Bad, half
  <1>8. PICK k \in Nat : k = i - 1
    BY <1>6
  <1>9. i = k + 1 /\ k >= m /\ k >= b
    BY <1>6, <1>8
  <1>10. RebasedTo(revs, half, m, i) = SubmittedAfter(revs[i], RebasedTo(revs, half, m, k))
    BY <1>9, RebasedNext
  <1>11. RebasedTo(revs, cs, b, i) = SubmittedAfter(revs[i], RebasedTo(revs, cs, b, k))
    BY <1>9, RebasedNext
  <1>12. RebasedTo(revs, half, m, k) = RebasedTo(revs, cs, b, k)
    BY <1>7, <1>8
  <1> QED BY <1>4, <1>10, <1>11, <1>12

-----------------------------------------------------------------------------
(* The invariant. *)

Messages == [type : {"ACCEPT_COMMIT", "NEW_CHANGES"}, newRev : Nat]

\* The pad's history is a sequence, and so is what is on its way to a browser.
Shaped ==
    /\ \E S : revisions \in Seq(S)
    /\ down \in [Authors -> Seq(Messages)]
    /\ \A f \in {base, submitted, user, rev, sent, wire} : DOMAIN f = Authors

\* The revision of a browser once it has received i of the messages on their way.
Reached(a, i) == IF i = 0 THEN rev[a] ELSE down[a][i].newRev

Accepts(a, i) == down[a][i].type = "ACCEPT_COMMIT"

\* The messages bring the browser from revision to revision to the last one.
BroughtUpToDate(a) ==
    /\ rev[a] \in 0 .. Len(revisions)
    /\ Reached(a, Len(down[a])) = Len(revisions)
    /\ \A i \in 1 .. Len(down[a]) :
         /\ Reached(a, i) \in 0 .. Len(revisions)
         /\ \/ Reached(a, i) = Reached(a, i - 1) + 1
            \/ Accepts(a, i) /\ Reached(a, i) = Reached(a, i - 1)

\* One submission is under way, to the server or back.
OneUnderWay(a) ==
    /\ user[a] # None
    /\ sent[a] => submitted[a] # None /\ \A i \in 1 .. Len(down[a]) : ~Accepts(a, i)
    /\ \A i \in 1 .. Len(down[a]) : Accepts(a, i) =>
         /\ submitted[a] # None
         /\ \A j \in 1 .. Len(down[a]) : Accepts(a, j) => i = j

\* What the browser holds of a submission is what was sent, rebased as far as
\* the browser has come.
HeldAsSent(a) ==
    sent[a] => /\ wire[a].baseRev \in 0 .. rev[a]
               /\ submitted[a] = RebasedTo(revisions, wire[a].changeset, wire[a].baseRev, rev[a])

\* Once the browser has rebased it over the messages before the answer, it
\* makes of the text what the accepted revision has made of it.
HeldAsAccepted(a) ==
    \A i \in 1 .. Len(down[a]) : Accepts(a, i) =>
        applyToAText(RebasedTo(revisions, submitted[a], rev[a], Reached(a, i - 1)),
                     TextAt(revisions, Reached(a, i - 1)))
          = TextAt(revisions, Reached(a, i))

BrowserInv(a) == BroughtUpToDate(a) /\ OneUnderWay(a) /\ HeldAsSent(a) /\ HeldAsAccepted(a)

TrackerInv == Shaped /\ BaseIsRevision /\ \A a \in Authors : BrowserInv(a)

LEMMA ChangesetsAreSome ==
    /\ \A n, ops : pack(n, ops) # None
    /\ \A n : identity(n) # None
    /\ \A c1, c2 : compose(c1, c2) # None
    /\ \A c1, c2, first : follow(c1, c2, first) # None
    /\ \A c1, c2 : SubmittedAfter(c1, c2) # None
  <1>1. \A n, ops : pack(n, ops) # None
    <2> TAKE n, ops
    <2>1. "oldLen" \in DOMAIN pack(n, ops) /\ "oldLen" \notin DOMAIN None
      BY DEF pack, None
    <2> QED BY <2>1
  <1> QED BY <1>1 DEF identity, compose, follow, SubmittedAfter

LEMMA HistoryShape ==
    ASSUME Shaped
    PROVE  Len(revisions) \in Nat
  BY DEF Shaped

LEMMA TrackerInit == Init => TrackerInv
  <1> SUFFICES ASSUME Init PROVE TrackerInv
    OBVIOUS
  <1>1. Shaped
    <2>1. revisions \in Seq({}) /\ down \in [Authors -> Seq(Messages)]
      BY DEF Init
    <2> QED BY <2>1 DEF Init, Shaped
  <1>2. BaseIsRevision
    BY TextFirst DEF Init, BaseIsRevision
  <1>3. ASSUME NEW a \in Authors PROVE BrowserInv(a)
    <2>1. rev[a] = 0 /\ down[a] = <<>> /\ Len(down[a]) = 0 /\ Len(revisions) = 0 /\ sent[a] = FALSE
          /\ user[a] # None
      BY ChangesetsAreSome DEF Init
    <2> QED BY <2>1 DEF BrowserInv, BroughtUpToDate, OneUnderWay, HeldAsSent, HeldAsAccepted, Reached
  <1> QED BY <1>1, <1>2, <1>3 DEF TrackerInv

\* A browser that only edits, or does nothing.
LEMMA BrowserQuiet ==
    ASSUME NEW a \in Authors, BrowserInv(a), revisions' = revisions, rev'[a] = rev[a],
           down'[a] = down[a], sent'[a] = sent[a], wire'[a] = wire[a], submitted'[a] = submitted[a],
           user'[a] # None
    PROVE  BrowserInv(a)'
  BY DEF BrowserInv, BroughtUpToDate, OneUnderWay, HeldAsSent, HeldAsAccepted, Reached, Accepts

LEMMA EditKeeps ==
    ASSUME TrackerInv, NEW a \in Authors, NEW cs, NEW text, Edit(a, cs, text)
    PROVE  TrackerInv'
  <1>1. UNCHANGED <<revisions, atext, base, submitted, rev, sent, wire, down>>
        /\ user' = [user EXCEPT ![a] = compose(@, cs)]
    BY DEF Edit
  <1>2. Shaped' /\ BaseIsRevision'
    BY <1>1 DEF TrackerInv, Shaped, BaseIsRevision
  <1>3. ASSUME NEW b \in Authors PROVE BrowserInv(b)'
    <2>1. user'[b] # None
      <3>1. user[b] # None /\ DOMAIN user = Authors
        BY DEF TrackerInv, BrowserInv, OneUnderWay, Shaped
      <3>2. user'[b] = IF b = a THEN compose(user[a], cs) ELSE user[b]
        BY <1>1, <3>1
      <3> QED BY <3>1, <3>2, ChangesetsAreSome
    <2> QED BY <1>1, <2>1, BrowserQuiet DEF TrackerInv
  <1> QED BY <1>2, <1>3 DEF TrackerInv

LEMMA PrepareKeeps ==
    ASSUME TrackerInv, NEW a \in Authors, Prepare(a)
    PROVE  TrackerInv'
  <1> DEFINE cs == ToSubmit(a)
  <1>1. /\ UNCHANGED <<revisions, atext, base, rev, down>>
        /\ submitted' = [submitted EXCEPT ![a] = cs]
        /\ user' = [user EXCEPT ![a] = identity(newLen(cs))]
        /\ sent' = [sent EXCEPT ![a] = TRUE]
        /\ wire' = [wire EXCEPT ![a] = [changeset |-> cs, baseRev |-> rev[a]]]
        /\ ~Waiting(a)
    BY DEF Prepare, MayPrepare
  <1>2. /\ Shaped /\ BaseIsRevision /\ \A b \in Authors : BrowserInv(b)
        /\ down \in [Authors -> Seq(Messages)]
        /\ DOMAIN submitted = Authors /\ DOMAIN user = Authors /\ DOMAIN sent = Authors /\ DOMAIN wire = Authors
    BY DEF TrackerInv, Shaped
  <1>3. cs # None
    BY <1>2, ChangesetsAreSome DEF ToSubmit, BrowserInv, OneUnderWay
  <1> HIDE DEF cs
  <1>4. Shaped' /\ BaseIsRevision'
    BY <1>1, <1>2 DEF Shaped, BaseIsRevision
  <1>5. BrowserInv(a)'
    <2>1. /\ submitted'[a] = cs /\ user'[a] = identity(newLen(cs)) /\ sent'[a] = TRUE
          /\ wire'[a].changeset = cs /\ wire'[a].baseRev = rev[a]
      BY <1>1, <1>2
    <2>2. \A i \in 1 .. Len(down[a]) : ~Accepts(a, i)
      BY <1>1, <1>2 DEF Waiting, Accepts
    <2>3. rev[a] \in Nat /\ rev[a] \in 0 .. rev[a] /\ RebasedTo(revisions, cs, rev[a], rev[a]) = cs
      <3>1. rev[a] \in Nat
        BY <1>2, HistoryShape DEF BrowserInv, BroughtUpToDate
      <3> QED BY <3>1, RebasedFirst
    <2>4. BroughtUpToDate(a)'
      BY <1>1, <1>2 DEF BrowserInv, BroughtUpToDate, Reached, Accepts
    <2>5. user'[a] # None
      BY <2>1, ChangesetsAreSome
    <2>6. \A i \in 1 .. Len(down'[a]) : ~Accepts(a, i)'
      BY <1>1, <2>2 DEF Accepts
    <2>7. OneUnderWay(a)'
      BY <1>3, <2>1, <2>5, <2>6 DEF OneUnderWay
    <2>8. HeldAsSent(a)' /\ HeldAsAccepted(a)'
      BY <1>1, <2>1, <2>3, <2>6 DEF HeldAsSent, HeldAsAccepted
    <2> QED BY <2>4, <2>7, <2>8 DEF BrowserInv
  <1>6. ASSUME NEW b \in Authors, b # a PROVE BrowserInv(b)'
    <2>1. /\ submitted'[b] = submitted[b] /\ user'[b] = user[b] /\ sent'[b] = sent[b] /\ wire'[b] = wire[b]
      BY <1>1, <1>2, <1>6
    <2>2. user[b] # None
      BY <1>2 DEF BrowserInv, OneUnderWay
    <2> QED BY <1>1, <1>2, <2>1, <2>2, BrowserQuiet
  <1> QED BY <1>4, <1>5, <1>6 DEF TrackerInv

\* A submission that is lost, or refused.
LEMMA UnsentKeeps ==
    ASSUME TrackerInv, NEW a \in Authors, Unsent(a),
           UNCHANGED <<revisions, atext, base, submitted, user, rev, down>>
    PROVE  TrackerInv'
  <1>1. /\ UNCHANGED <<revisions, atext, base, submitted, user, rev, down>>
        /\ sent' = [sent EXCEPT ![a] = FALSE]
        /\ wire' = [wire EXCEPT ![a] = [changeset |-> None, baseRev |-> 0]]
    BY DEF Unsent
  <1>2. /\ Shaped /\ BaseIsRevision /\ \A b \in Authors : BrowserInv(b)
        /\ DOMAIN sent = Authors /\ DOMAIN wire = Authors
    BY DEF TrackerInv, Shaped
  <1>3. Shaped' /\ BaseIsRevision'
    BY <1>1, <1>2 DEF Shaped, BaseIsRevision
  <1>4. BrowserInv(a)'
    <2>1. sent'[a] = FALSE
      BY <1>1, <1>2
    <2>2. BroughtUpToDate(a) /\ OneUnderWay(a) /\ HeldAsAccepted(a)
      BY <1>2 DEF BrowserInv
    <2>3. BroughtUpToDate(a)'
      BY <1>1, <2>2 DEF BroughtUpToDate, Reached, Accepts
    <2>4. OneUnderWay(a)' /\ HeldAsSent(a)'
      BY <1>1, <2>1, <2>2 DEF OneUnderWay, HeldAsSent, Accepts
    <2>5. HeldAsAccepted(a)'
      BY <1>1, <2>2 DEF HeldAsAccepted, Reached, Accepts
    <2> QED BY <2>3, <2>4, <2>5 DEF BrowserInv
  <1>5. ASSUME NEW b \in Authors, b # a PROVE BrowserInv(b)'
    <2>1. sent'[b] = sent[b] /\ wire'[b] = wire[b]
      BY <1>1, <1>2, <1>5
    <2>2. user[b] # None
      BY <1>2 DEF BrowserInv, OneUnderWay
    <2> QED BY <1>1, <1>2, <2>1, <2>2, BrowserQuiet
  <1> QED BY <1>3, <1>4, <1>5 DEF TrackerInv

LEMMA ReachedInRange ==
    ASSUME Shaped, NEW a \in Authors, BroughtUpToDate(a), NEW i \in 0 .. Len(down[a])
    PROVE  Reached(a, i) \in 0 .. Len(revisions)
  <1>1. CASE i = 0
    BY <1>1 DEF BroughtUpToDate, Reached
  <1>2. CASE i # 0
    <2>1. Len(down[a]) \in Nat
      BY DEF Shaped
    <2> QED BY <1>2, <2>1 DEF BroughtUpToDate
  <1> QED BY <1>1, <1>2

\* Messages take the browser forward.
LEMMA ReachedGrows ==
    ASSUME Shaped, NEW a \in Authors, BroughtUpToDate(a), NEW k \in 0 .. Len(down[a]),
           NEW n \in k .. Len(down[a])
    PROVE  Reached(a, n) \in Nat /\ Reached(a, k) <= Reached(a, n)
  <1>1. Len(down[a]) \in Nat /\ Len(revisions) \in Nat
    BY HistoryShape DEF Shaped
  <1>2. \A i \in 0 .. Len(down[a]) : Reached(a, i) \in Nat
    <2> TAKE i \in 0 .. Len(down[a])
    <2>1. CASE i = 0
      BY <1>1, <2>1 DEF BroughtUpToDate, Reached
    <2>2. CASE i # 0
      BY <1>1, <2>2 DEF BroughtUpToDate
    <2> QED BY <2>1, <2>2
  <1> DEFINE Bad == {i \in k .. Len(down[a]) : ~(Reached(a, k) <= Reached(a, i))}
  <1>3. SUFFICES ASSUME Bad # {} PROVE FALSE
    BY <1>1, <1>2
  <1>4. Bad \in SUBSET Nat
    BY <1>1
  <1>5. PICK i \in Bad : \A j \in Bad : i <= j
    BY <1>3, <1>4, LeastNumber
  <1>6. i \in k .. Len(down[a]) /\ ~(Reached(a, k) <= Reached(a, i)) /\ k \in Nat /\ i \in Nat
    BY <1>1, <1>5
  <1>7. i # k
    BY <1>1, <1>2, <1>6
  <1>8. i - 1 \in k .. Len(down[a]) /\ i - 1 \notin Bad /\ i \in 1 .. Len(down[a])
        /\ i - 1 \in 0 .. Len(down[a]) /\ i \in 0 .. Len(down[a])
    BY <1>1, <1>5, <1>6, <1>7
  <1>9. Reached(a, k) <= Reached(a, i - 1)
    BY <1>8
  <1>10. Reached(a, i) = Reached(a, i - 1) + 1 \/ Reached(a, i) = Reached(a, i - 1)
    BY <1>8 DEF BroughtUpToDate
  <1>11. Reached(a, i - 1) \in Nat /\ Reached(a, i) \in Nat /\ Reached(a, k) \in Nat
    BY <1>2, <1>8
  <1> HIDE DEF Bad
  <1> QED BY <1>6, <1>9, <1>10, <1>11

\* Receiving the first message.
LEMMA ReceiptAdvances ==
    ASSUME TrackerInv, NEW a \in Authors, down[a] # <<>>, UNCHANGED revisions,
           rev' = [rev EXCEPT ![a] = Head(down[a]).newRev], down' = [down EXCEPT ![a] = Tail(@)]
    PROVE  /\ 1 \in 1 .. Len(down[a]) /\ Reached(a, 1) = Head(down[a]).newRev /\ Reached(a, 0) = rev[a]
           /\ Len(down'[a]) = Len(down[a]) - 1
           /\ \A i \in 0 .. Len(down'[a]) : Reached(a, i)' = Reached(a, i + 1)
           /\ \A i \in 1 .. Len(down'[a]) : Accepts(a, i)' = Accepts(a, i + 1) /\ i + 1 \in 1 .. Len(down[a])
           /\ rev'[a] = Reached(a, 1)
           /\ BroughtUpToDate(a)'
           /\ down' \in [Authors -> Seq(Messages)] /\ DOMAIN rev' = Authors
           /\ \A b \in Authors \ {a} : rev'[b] = rev[b] /\ down'[b] = down[b]
  <1>1. /\ down \in [Authors -> Seq(Messages)] /\ DOMAIN rev = Authors /\ BroughtUpToDate(a)
    BY DEF TrackerInv, Shaped, BrowserInv
  <1> DEFINE d == down[a]
             e == down'[a]
  <1>2. d \in Seq(Messages) /\ d # <<>> /\ e = Tail(d) /\ rev'[a] = Head(d).newRev
    BY <1>1
  <1>3. /\ e \in Seq(Messages) /\ Len(e) = Len(d) - 1 /\ Len(d) \in Nat /\ Len(d) >= 1
        /\ Head(d) = d[1] /\ \A i \in 1 .. Len(e) : e[i] = d[i + 1]
    <2> HIDE DEF d, e
    <2>1. Len(d) \in Nat /\ Len(d) # 0
      BY <1>2, EmptySeq
    <2>2. Tail(d) \in Seq(Messages) /\ Len(Tail(d)) = Len(d) - 1 /\ Head(d) = d[1]
          /\ \A i \in 1 .. Len(Tail(d)) : Tail(d)[i] = d[i + 1]
      BY <1>2, HeadTailProperties
    <2> QED BY <1>2, <2>1, <2>2
  <1>4. /\ 1 \in 1 .. Len(d) /\ Reached(a, 1) = Head(d).newRev /\ Reached(a, 0) = rev[a]
    BY <1>3 DEF Reached
  <1>5. ASSUME NEW i \in 0 .. Len(e)
        PROVE  Reached(a, i)' = Reached(a, i + 1)
    <2>1. CASE i = 0
      BY <1>2, <1>4, <2>1 DEF Reached
    <2>2. CASE i # 0
      <3>1. i \in 1 .. Len(e) /\ i + 1 # 0
        BY <1>3, <2>2
      <3> QED BY <1>3, <2>2, <3>1 DEF Reached
    <2> QED BY <2>1, <2>2
  <1>6. ASSUME NEW i \in 1 .. Len(e)
        PROVE  Accepts(a, i)' = Accepts(a, i + 1) /\ i + 1 \in 1 .. Len(d)
    BY <1>3 DEF Accepts
  <1>7. BroughtUpToDate(a)'
    <2>1. rev'[a] \in 0 .. Len(revisions')
      <3>1. Reached(a, 1) \in 0 .. Len(revisions)
        BY <1>1, <1>4 DEF BroughtUpToDate
      <3> QED BY <1>2, <1>4, <3>1
    <2>2. Reached(a, Len(down[a]))' = Len(revisions)'
      <3>1. PICK n : n = Len(e)
        OBVIOUS
      <3>2. n \in 0 .. Len(e) /\ n + 1 = Len(d)
        BY <1>3, <3>1
      <3>3. Reached(a, n)' = Reached(a, Len(d))
        BY <1>5, <3>2
      <3>4. Reached(a, n)' = Len(revisions)'
        BY <1>1, <3>3 DEF BroughtUpToDate
      <3>5. n = Len(down[a])'
        BY <3>1
      <3> QED BY <3>4, <3>5
    <2>3. ASSUME NEW i \in 1 .. Len(e)
          PROVE  /\ Reached(a, i)' \in 0 .. Len(revisions')
                 /\ \/ Reached(a, i)' = Reached(a, i - 1)' + 1
                    \/ Accepts(a, i)' /\ Reached(a, i)' = Reached(a, i - 1)'
      <3>1. i \in 0 .. Len(e) /\ i - 1 \in 0 .. Len(e) /\ (i - 1) + 1 = i /\ (i + 1) - 1 = i
        BY <1>3
      <3>2. Reached(a, i)' = Reached(a, i + 1) /\ Reached(a, i - 1)' = Reached(a, i)
        BY <1>5, <3>1
      <3>3. /\ Reached(a, i + 1) \in 0 .. Len(revisions)
            /\ \/ Reached(a, i + 1) = Reached(a, i) + 1
               \/ Accepts(a, i + 1) /\ Reached(a, i + 1) = Reached(a, i)
        BY <1>1, <1>6, <3>1 DEF BroughtUpToDate
      <3>4. Accepts(a, i + 1) => Accepts(a, i)'
        BY <1>6
      <3> QED BY <3>2, <3>3, <3>4
    <2> QED BY <2>1, <2>2, <2>3 DEF BroughtUpToDate
  <1> QED BY <1>1, <1>2, <1>3, <1>4, <1>5, <1>6, <1>7

LEMMA NewChangesKeep ==
    ASSUME TrackerInv, NEW a \in Authors, ReceiveNewChanges(a)
    PROVE  TrackerInv'
  <1> DEFINE c == revisions[Head(down[a]).newRev]
             sub == submitted[a]
             c2 == IF sub = None THEN c ELSE follow(sub, c, TRUE)
  <1>1. /\ down[a] # <<>> /\ Head(down[a]).type = "NEW_CHANGES"
        /\ UNCHANGED <<revisions, atext, sent, wire>>
        /\ rev' = [rev EXCEPT ![a] = Head(down[a]).newRev] /\ down' = [down EXCEPT ![a] = Tail(@)]
        /\ base' = [base EXCEPT ![a] = applyToAText(c, @)]
        /\ submitted' = [submitted EXCEPT ![a] = IF sub = None THEN None ELSE SubmittedAfter(c, sub)]
        /\ user' = [user EXCEPT ![a] = follow(c2, @, TRUE)]
    BY DEF ReceiveNewChanges, applyChangesToBase, UserAfter
  <1> HIDE DEF c2
  <1>2. /\ Shaped /\ BaseIsRevision /\ \A b \in Authors : BrowserInv(b)
        /\ down \in [Authors -> Seq(Messages)]
        /\ \A f \in {base, submitted, user, rev, sent, wire} : DOMAIN f = Authors
    BY DEF TrackerInv, Shaped
  <1>3. /\ 1 \in 1 .. Len(down[a]) /\ Reached(a, 1) = Head(down[a]).newRev /\ Reached(a, 0) = rev[a]
        /\ Len(down'[a]) = Len(down[a]) - 1
        /\ \A i \in 0 .. Len(down'[a]) : Reached(a, i)' = Reached(a, i + 1)
        /\ \A i \in 1 .. Len(down'[a]) : Accepts(a, i)' = Accepts(a, i + 1) /\ i + 1 \in 1 .. Len(down[a])
        /\ rev'[a] = Reached(a, 1)
        /\ BroughtUpToDate(a)'
        /\ down' \in [Authors -> Seq(Messages)] /\ DOMAIN rev' = Authors
        /\ \A b \in Authors \ {a} : rev'[b] = rev[b] /\ down'[b] = down[b]
    BY <1>1, ReceiptAdvances
  <1>4. Len(revisions) \in Nat /\ rev[a] \in Nat /\ BroughtUpToDate(a)
    BY <1>2, HistoryShape DEF BrowserInv, BroughtUpToDate
  \* The message is about the revision after the browser's.
  <1>m. PICK m \in Nat : m = rev[a]
    BY <1>4
  <1>n. PICK n \in Nat : n = m + 1
    OBVIOUS
  <1>5. Head(down[a]).newRev = n /\ rev'[a] = n /\ c = revisions[n]
    <2>1. ~Accepts(a, 1)
      <3>1. Head(down[a]) = down[a][1]
        BY <1>1, <1>2, HeadTailProperties
      <3> QED BY <1>1, <3>1 DEF Accepts
    <2>2. Reached(a, 1) = Reached(a, 1 - 1) + 1
      BY <1>3, <1>4, <2>1 DEF BroughtUpToDate
    <2> QED BY <1>3, <1>m, <1>n, <2>2
  <1> HIDE DEF c
  <1>6. Shaped'
    BY <1>1, <1>2, <1>3 DEF Shaped
  <1>7. base'[a] = TextAt(revisions, rev'[a])
    <2>1. base'[a] = applyToAText(c, base[a])
      BY <1>1, <1>2
    <2>2. TextAt(revisions, n) = applyToAText(revisions[n], TextAt(revisions, m))
      BY <1>n, TextNext
    <2> QED BY <1>2, <1>5, <1>m, <2>1, <2>2 DEF BaseIsRevision
  <1>8. BaseIsRevision'
    <2>1. \A b \in Authors \ {a} : base'[b] = base[b]
      BY <1>1, <1>2
    <2> QED BY <1>1, <1>2, <1>3, <1>7, <2>1 DEF BaseIsRevision
  <1>9. BrowserInv(a)'
    <2>1. /\ submitted'[a] = IF sub = None THEN None ELSE SubmittedAfter(c, sub)
          /\ sent'[a] = sent[a] /\ wire'[a] = wire[a] /\ user'[a] # None
      BY <1>1, <1>2, ChangesetsAreSome
    <2>2. sub # None => submitted'[a] # None
      BY <2>1, ChangesetsAreSome
    <2>3. OneUnderWay(a)'
      <3>1. sent'[a] => submitted'[a] # None /\ \A i \in 1 .. Len(down'[a]) : ~Accepts(a, i)'
        BY <1>2, <1>3, <2>1, <2>2 DEF BrowserInv, OneUnderWay
      <3>2. ASSUME NEW i \in 1 .. Len(down'[a]), Accepts(a, i)'
            PROVE  /\ submitted'[a] # None
                   /\ \A j \in 1 .. Len(down'[a]) : Accepts(a, j)' => i = j
        <4>1. Accepts(a, i + 1) /\ i + 1 \in 1 .. Len(down[a])
          BY <1>3, <3>2
        <4>2. sub # None /\ \A j \in 1 .. Len(down[a]) : Accepts(a, j) => i + 1 = j
          BY <1>2, <4>1 DEF BrowserInv, OneUnderWay
        <4>3. \A j \in 1 .. Len(down'[a]) : Accepts(a, j)' => i + 1 = j + 1
          BY <1>3, <4>2
        <4>4. \A j \in 1 .. Len(down'[a]) : i + 1 = j + 1 => i = j
          OBVIOUS
        <4> QED BY <2>2, <4>2, <4>3, <4>4
      <3> QED BY <2>1, <3>1, <3>2 DEF OneUnderWay
    <2>4. HeldAsSent(a)'
      <3> SUFFICES ASSUME sent[a]
                   PROVE  /\ wire[a].baseRev \in 0 .. rev'[a]
                          /\ submitted'[a] = RebasedTo(revisions, wire[a].changeset, wire[a].baseRev, rev'[a])
        BY <1>1, <2>1 DEF HeldAsSent
      <3>1. /\ sub # None /\ wire[a].baseRev \in 0 .. rev[a]
            /\ sub = RebasedTo(revisions, wire[a].changeset, wire[a].baseRev, rev[a])
        BY <1>2 DEF BrowserInv, OneUnderWay, HeldAsSent
      <3>2. RebasedTo(revisions, wire[a].changeset, wire[a].baseRev, n)
              = SubmittedAfter(revisions[n], RebasedTo(revisions, wire[a].changeset, wire[a].baseRev, m))
        BY <1>m, <1>n, <3>1, RebasedNext
      <3>3. submitted'[a] = SubmittedAfter(revisions[n], sub)
        BY <1>5, <2>1, <3>1
      <3>4. wire[a].baseRev \in 0 .. n
        BY <1>m, <1>n, <3>1
      <3>5. sub = RebasedTo(revisions, wire[a].changeset, wire[a].baseRev, m)
        BY <1>m, <3>1
      <3> HIDE DEF sub
      <3>6. submitted'[a] = RebasedTo(revisions, wire[a].changeset, wire[a].baseRev, n)
        BY <3>2, <3>3, <3>5
      <3> QED BY <1>5, <3>4, <3>6
    <2>5. HeldAsAccepted(a)'
      <3> SUFFICES ASSUME NEW i \in 1 .. Len(down'[a]), Accepts(a, i)'
                   PROVE  applyToAText(RebasedTo(revisions, submitted'[a], rev'[a], Reached(a, i - 1)'),
                                       TextAt(revisions, Reached(a, i - 1)'))
                            = TextAt(revisions, Reached(a, i)')
        BY <1>1 DEF HeldAsAccepted
      <3>1. Accepts(a, i + 1) /\ i + 1 \in 1 .. Len(down[a])
        BY <1>3
      <3>2. /\ applyToAText(RebasedTo(revisions, sub, rev[a], Reached(a, (i + 1) - 1)),
                            TextAt(revisions, Reached(a, (i + 1) - 1)))
                 = TextAt(revisions, Reached(a, i + 1))
            /\ sub # None
        BY <1>2, <3>1 DEF BrowserInv, HeldAsAccepted, OneUnderWay
      <3>3. i \in 0 .. Len(down'[a]) /\ i - 1 \in 0 .. Len(down'[a]) /\ (i - 1) + 1 = i /\ (i + 1) - 1 = i
        BY <1>2, <1>3
      <3>4. Reached(a, i)' = Reached(a, i + 1) /\ Reached(a, i - 1)' = Reached(a, i)
        BY <1>3, <3>3
      <3>5. PICK k : k = Reached(a, i)
        OBVIOUS
      <3>6. k \in Nat /\ n <= k
        <4>1. 1 \in 0 .. Len(down[a]) /\ i \in 1 .. Len(down[a])
          BY <1>3, <3>1
        <4>2. Reached(a, i) \in Nat /\ Reached(a, 1) <= Reached(a, i)
          BY <1>2, <1>4, <4>1, ReachedGrows
        <4> QED BY <1>3, <1>5, <3>5, <4>2
      <3>7. RebasedTo(revisions, submitted'[a], n, k) = RebasedTo(revisions, sub, m, k)
        <4>1. submitted'[a] = SubmittedAfter(revisions[n], sub)
          BY <1>5, <2>1, <3>2
        <4> HIDE DEF sub
        <4>2. RebasedTo(revisions, sub, m, m) = sub
          BY RebasedFirst
        <4>3. RebasedTo(revisions, sub, m, n) = SubmittedAfter(revisions[n], RebasedTo(revisions, sub, m, m))
          BY <1>n, RebasedNext
        <4>4. submitted'[a] = RebasedTo(revisions, sub, m, n)
          BY <4>1, <4>2, <4>3
        <4>5. m <= n
          BY <1>n
        <4> QED BY <3>6, <4>4, <4>5, RebasedTwice
      <3>8. applyToAText(RebasedTo(revisions, sub, m, k), TextAt(revisions, k)) = TextAt(revisions, Reached(a, i + 1))
        BY <1>m, <3>2, <3>3, <3>5
      <3>9. Reached(a, i - 1)' = k /\ rev'[a] = n
        BY <1>5, <3>4, <3>5
      <3> HIDE DEF sub
      <3> QED BY <3>4, <3>7, <3>8, <3>9
    <2> QED BY <1>3, <2>3, <2>4, <2>5 DEF BrowserInv
  <1>10. ASSUME NEW b \in Authors, b # a PROVE BrowserInv(b)'
    <2>1. /\ submitted'[b] = submitted[b] /\ user'[b] = user[b] /\ sent'[b] = sent[b] /\ wire'[b] = wire[b]
          /\ rev'[b] = rev[b] /\ down'[b] = down[b]
      BY <1>1, <1>2, <1>3, <1>10
    <2>2. user[b] # None
      BY <1>2 DEF BrowserInv, OneUnderWay
    <2> QED BY <1>1, <1>2, <2>1, <2>2, BrowserQuiet
  <1> QED BY <1>6, <1>8, <1>9, <1>10 DEF TrackerInv

LEMMA AcceptCommitKeeps ==
    ASSUME TrackerInv, NEW a \in Authors, ReceiveAcceptCommit(a)
    PROVE  TrackerInv'
  <1>1. /\ down[a] # <<>> /\ Head(down[a]).type = "ACCEPT_COMMIT"
        /\ UNCHANGED <<revisions, atext, user, sent, wire>>
        /\ rev' = [rev EXCEPT ![a] = Head(down[a]).newRev] /\ down' = [down EXCEPT ![a] = Tail(@)]
        /\ base' = [base EXCEPT ![a] = applyToAText(submitted[a], @)]
        /\ submitted' = [submitted EXCEPT ![a] = None]
    BY DEF ReceiveAcceptCommit
  <1>2. /\ Shaped /\ BaseIsRevision /\ \A b \in Authors : BrowserInv(b)
        /\ down \in [Authors -> Seq(Messages)]
        /\ \A f \in {base, submitted, user, rev, sent, wire} : DOMAIN f = Authors
    BY DEF TrackerInv, Shaped
  <1>3. /\ 1 \in 1 .. Len(down[a]) /\ Reached(a, 1) = Head(down[a]).newRev /\ Reached(a, 0) = rev[a]
        /\ Len(down'[a]) = Len(down[a]) - 1
        /\ \A i \in 1 .. Len(down'[a]) : Accepts(a, i)' = Accepts(a, i + 1) /\ i + 1 \in 1 .. Len(down[a])
        /\ rev'[a] = Reached(a, 1)
        /\ BroughtUpToDate(a)'
        /\ down' \in [Authors -> Seq(Messages)] /\ DOMAIN rev' = Authors
        /\ \A b \in Authors \ {a} : rev'[b] = rev[b] /\ down'[b] = down[b]
    BY <1>1, ReceiptAdvances
  <1>4. Accepts(a, 1)
    <2>1. Head(down[a]) = down[a][1]
      BY <1>1, <1>2, HeadTailProperties
    <2> QED BY <1>1, <2>1 DEF Accepts
  <1>5. /\ ~sent[a]
        /\ \A i \in 1 .. Len(down'[a]) : ~Accepts(a, i)'
    <2>1. ~sent[a] /\ \A j \in 1 .. Len(down[a]) : Accepts(a, j) => 1 = j
      BY <1>2, <1>3, <1>4 DEF BrowserInv, OneUnderWay
    <2>2. \A i \in 1 .. Len(down'[a]) : 1 # i + 1
      OBVIOUS
    <2> QED BY <1>3, <2>1, <2>2
  <1>6. base'[a] = TextAt(revisions, rev'[a])
    <2>1. PICK m : m = rev[a]
      OBVIOUS
    <2>2. m \in Nat /\ base[a] = TextAt(revisions, m)
      BY <1>2, <2>1, HistoryShape DEF BrowserInv, BroughtUpToDate, BaseIsRevision
    <2>3. Reached(a, 1 - 1) = m
      BY <1>3, <2>1
    <2>4. applyToAText(RebasedTo(revisions, submitted[a], m, m), TextAt(revisions, m))
            = TextAt(revisions, Reached(a, 1))
      BY <1>2, <1>3, <1>4, <2>1, <2>3 DEF BrowserInv, HeldAsAccepted
    <2>5. RebasedTo(revisions, submitted[a], m, m) = submitted[a]
      BY <2>2, RebasedFirst
    <2>6. base'[a] = applyToAText(submitted[a], base[a])
      BY <1>1, <1>2
    <2> QED BY <1>3, <2>2, <2>4, <2>5, <2>6
  <1>7. BaseIsRevision'
    <2>1. \A b \in Authors \ {a} : base'[b] = base[b]
      BY <1>1, <1>2
    <2> QED BY <1>1, <1>2, <1>3, <1>6, <2>1 DEF BaseIsRevision
  <1>8. Shaped'
    BY <1>1, <1>2, <1>3 DEF Shaped
  <1>9. BrowserInv(a)'
    <2>1. user'[a] # None /\ ~sent'[a]
      BY <1>1, <1>2, <1>5 DEF BrowserInv, OneUnderWay
    <2>2. OneUnderWay(a)' /\ HeldAsSent(a)' /\ HeldAsAccepted(a)'
      BY <1>5, <2>1 DEF OneUnderWay, HeldAsSent, HeldAsAccepted
    <2> QED BY <1>3, <2>2 DEF BrowserInv
  <1>10. ASSUME NEW b \in Authors, b # a PROVE BrowserInv(b)'
    <2>1. /\ submitted'[b] = submitted[b] /\ user'[b] = user[b] /\ sent'[b] = sent[b] /\ wire'[b] = wire[b]
          /\ rev'[b] = rev[b] /\ down'[b] = down[b]
      BY <1>1, <1>2, <1>3, <1>10
    <2>2. user[b] # None
      BY <1>2 DEF BrowserInv, OneUnderWay
    <2> QED BY <1>1, <1>2, <2>1, <2>2, BrowserQuiet
  <1> QED BY <1>7, <1>8, <1>9, <1>10 DEF TrackerInv

\* A message is sent, about the pad's last revision.
LEMMA SendingKeepsUpToDate ==
    ASSUME Shaped, NEW a \in Authors, BroughtUpToDate(a), rev'[a] = rev[a],
           NEW m \in Messages, down'[a] = Append(down[a], m), Len(revisions') = m.newRev,
           m.newRev = Len(revisions) + 1 \/ (m.type = "ACCEPT_COMMIT" /\ m.newRev = Len(revisions))
    PROVE  /\ Len(down[a]) \in Nat /\ Len(down'[a]) = Len(down[a]) + 1
           /\ down'[a] \in Seq(Messages)
           /\ \A i \in 0 .. Len(down[a]) : Reached(a, i)' = Reached(a, i)
           /\ \A i \in 1 .. Len(down[a]) : Accepts(a, i)' = Accepts(a, i)
           /\ Reached(a, Len(down[a])) = Len(revisions)
           /\ \A n : n = Len(down[a]) + 1 => /\ Reached(a, n)' = m.newRev
                                             /\ Accepts(a, n)' <=> m.type = "ACCEPT_COMMIT"
           /\ BroughtUpToDate(a)'
  <1> DEFINE d == down[a]
             e == down'[a]
  <1>1. d \in Seq(Messages) /\ Len(d) \in Nat /\ Len(revisions) \in Nat
    BY HistoryShape DEF Shaped
  <1>2. e \in Seq(Messages) /\ Len(e) = Len(d) + 1 /\ e[Len(d) + 1] = m /\ \A i \in 1 .. Len(d) : e[i] = d[i]
    <2> HIDE DEF d
    <2> QED BY <1>1, AppendProperties DEF d
  <1>3. ASSUME NEW i \in 0 .. Len(d)
        PROVE  Reached(a, i)' = Reached(a, i)
    <2>1. CASE i = 0
      BY <2>1 DEF Reached
    <2>2. CASE i # 0
      BY <1>1, <1>2, <2>2 DEF Reached
    <2> QED BY <2>1, <2>2
  <1>4. \A i \in 1 .. Len(d) : Accepts(a, i)' = Accepts(a, i)
    BY <1>2 DEF Accepts
  <1>5. PICK k : k = Len(d) + 1
    OBVIOUS
  <1>6. Reached(a, k)' = m.newRev /\ (Accepts(a, k)' <=> m.type = "ACCEPT_COMMIT")
    BY <1>1, <1>2, <1>5 DEF Reached, Accepts
  <1>7. Reached(a, Len(d)) = Len(revisions)
    BY DEF BroughtUpToDate
  <1>8. BroughtUpToDate(a)'
    <2>1. rev'[a] \in 0 .. Len(revisions')
      BY <1>1 DEF BroughtUpToDate
    <2>2. Reached(a, Len(down[a]))' = Len(revisions)'
      BY <1>2, <1>5, <1>6
    <2>3. ASSUME NEW i \in 1 .. Len(e)
          PROVE  /\ Reached(a, i)' \in 0 .. Len(revisions')
                 /\ \/ Reached(a, i)' = Reached(a, i - 1)' + 1
                    \/ Accepts(a, i)' /\ Reached(a, i)' = Reached(a, i - 1)'
      <3>1. CASE i = k
        <4>1. i - 1 = Len(d) /\ i - 1 \in 0 .. Len(d)
          BY <1>1, <1>5, <3>1
        <4>2. Reached(a, i - 1)' = Len(revisions)
          BY <1>3, <1>7, <4>1
        <4>3. m.newRev \in Nat
          BY DEF Messages
        <4> QED BY <1>6, <3>1, <4>2, <4>3
      <3>2. CASE i # k
        <4>1. i \in 1 .. Len(d) /\ i \in 0 .. Len(d) /\ i - 1 \in 0 .. Len(d)
          BY <1>1, <1>2, <1>5, <3>2
        <4>2. Reached(a, i)' = Reached(a, i) /\ Reached(a, i - 1)' = Reached(a, i - 1)
          BY <1>3, <4>1
        <4>3. /\ Reached(a, i) \in 0 .. Len(revisions)
              /\ \/ Reached(a, i) = Reached(a, i - 1) + 1
                 \/ Accepts(a, i) /\ Reached(a, i) = Reached(a, i - 1)
          BY <4>1 DEF BroughtUpToDate
        <4>4. Accepts(a, i) => Accepts(a, i)'
          BY <1>4, <4>1
        <4>5. 0 .. Len(revisions) \subseteq 0 .. Len(revisions')
          BY <1>1
        <4> QED BY <4>2, <4>3, <4>4, <4>5
      <3> QED BY <3>1, <3>2
    <2> QED BY <2>1, <2>2, <2>3 DEF BroughtUpToDate
  <1> QED BY <1>1, <1>2, <1>3, <1>4, <1>5, <1>6, <1>7, <1>8

LEMMA SubmissionKeeps ==
    ASSUME TrackerInv, NEW a \in Authors, handleUserChanges(a)
    PROVE  TrackerInv'
  <1> DEFINE cs == wire[a].changeset
             r == Rebased(cs, wire[a].baseRev)
             after == applyToAText(r, atext)
             L == Len(revisions)
             newRev == IF after = atext THEN L ELSE L + 1
             accept == [type |-> "ACCEPT_COMMIT", newRev |-> newRev]
             tell == [type |-> "NEW_CHANGES", newRev |-> newRev]
  <1>1. sent[a] /\ Unsent(a) /\ UNCHANGED <<base, submitted, user, rev>>
    BY DEF handleUserChanges
  <1>2. CASE UNCHANGED <<revisions, atext, down>>
    BY <1>1, <1>2, UnsentKeeps
  <1>3. CASE /\ atext' = after
             /\ revisions' = IF after = atext THEN revisions ELSE Append(revisions, r)
             /\ down' = [b \in Authors |->
                  IF b = a THEN Append(down[b], accept)
                  ELSE IF after = atext THEN down[b] ELSE Append(down[b], tell)]
    <2>1. /\ Shaped /\ BaseIsRevision /\ \A b \in Authors : BrowserInv(b)
          /\ down \in [Authors -> Seq(Messages)]
          /\ \A f \in {base, submitted, user, rev, sent, wire} : DOMAIN f = Authors
          /\ L \in Nat /\ atext = TextAt(revisions, L)
      BY HistoryShape DEF TrackerInv, Shaped, BaseIsRevision
    <2>2. /\ newRev \in Nat /\ accept \in Messages /\ tell \in Messages
          /\ accept.newRev = newRev /\ tell.newRev = newRev
          /\ accept.type = "ACCEPT_COMMIT" /\ tell.type # "ACCEPT_COMMIT"
      BY <2>1 DEF Messages
    <2>3. /\ sent'[a] = FALSE
          /\ \A b \in Authors \ {a} : sent'[b] = sent[b] /\ wire'[b] = wire[b]
          /\ DOMAIN sent' = Authors /\ DOMAIN wire' = Authors
      BY <1>1, <2>1 DEF Unsent
    <2> HIDE DEF r, after
    <2>4. /\ (\E S : revisions' \in Seq(S)) /\ Len(revisions') = newRev /\ \A i \in 1 .. L : revisions'[i] = revisions[i]
          /\ after # atext => revisions'[newRev] = r
      <3>1. PICK S : revisions \in Seq(S)
        BY <2>1 DEF Shaped
      <3>2. CASE after = atext
        BY <1>3, <3>1, <3>2
      <3>3. CASE after # atext
        <4>1. revisions \in Seq(S \cup {r}) /\ r \in S \cup {r}
          <5>1. S \subseteq S \cup {r}
            OBVIOUS
          <5> QED BY <3>1, <5>1
        <4>2. revisions' = Append(revisions, r)
          BY <1>3, <3>3
        <4>3. /\ revisions' \in Seq(S \cup {r}) /\ Len(revisions') = L + 1
              /\ \A i \in 1 .. L : revisions'[i] = revisions[i]
              /\ revisions'[L + 1] = r
          BY <4>1, <4>2, AppendProperties
        <4> QED BY <3>3, <4>3
      <3> QED BY <3>2, <3>3
    <2>5. \A i \in 0 .. L : TextAt(revisions', i) = TextAt(revisions, i)
      <3> TAKE i \in 0 .. L
      <3>1. i \in Nat /\ \A j \in 1 .. i : revisions'[j] = revisions[j]
        BY <2>1, <2>4
      <3> HIDE DEF L
      <3> QED BY <3>1, TextAlike
    <2>6. ASSUME NEW x, NEW b \in Nat, NEW i \in 0 .. L
          PROVE  RebasedTo(revisions', x, b, i) = RebasedTo(revisions, x, b, i)
      <3>1. i \in Nat /\ \A j \in b + 1 .. i : revisions'[j] = revisions[j]
        BY <2>1, <2>4
      <3> HIDE DEF L
      <3> QED BY <3>1, RebasedAlike
    <2>7. TextAt(revisions', newRev) = after
      <3>1. CASE after = atext
        <4>1. L \in 0 .. L
          BY <2>1
        <4> QED BY <2>1, <2>5, <3>1, <4>1
      <3>2. CASE after # atext
        <4>1. PICK n : n = newRev
          OBVIOUS
        <4>2. n = L + 1 /\ L \in 0 .. L
          BY <2>1, <3>2, <4>1
        <4>3. TextAt(revisions', n) = applyToAText(revisions'[n], TextAt(revisions', L))
          BY <2>1, <4>2, TextNext
        <4>4. TextAt(revisions', L) = atext /\ revisions'[n] = r
          BY <2>1, <2>4, <2>5, <3>2, <4>1, <4>2
        <4> QED BY <4>1, <4>3, <4>4 DEF after
      <3> QED BY <3>1, <3>2
    <2>L. (newRev = L /\ after = atext) \/ (newRev = L + 1 /\ after # atext)
      OBVIOUS
    <2> HIDE DEF L, newRev, accept, tell
    <2>8. \A b \in Authors : BroughtUpToDate(b) /\ rev'[b] = rev[b] /\ rev[b] \in 0 .. L /\ rev[b] \in Nat
      BY <1>1, <2>1 DEF BrowserInv, BroughtUpToDate, L
    <2>9. Shaped'
      <3>1. \A b \in Authors : Append(down[b], accept) \in Seq(Messages) /\ Append(down[b], tell) \in Seq(Messages)
        BY <2>1, <2>2
      <3>2. down' \in [Authors -> Seq(Messages)]
        BY <1>3, <2>1, <3>1
      <3> QED BY <1>1, <2>1, <2>3, <2>4, <3>2 DEF Shaped
    <2>10. BaseIsRevision'
      <3>1. atext' = TextAt(revisions', Len(revisions'))
        BY <1>3, <2>4, <2>7
      <3>2. \A b \in Authors : base'[b] = TextAt(revisions', rev'[b])
        BY <1>1, <2>1, <2>5, <2>8 DEF BaseIsRevision
      <3> QED BY <3>1, <3>2 DEF BaseIsRevision
    \* The author of the submission.
    <2>11. BrowserInv(a)'
      <3>1. down'[a] = Append(down[a], accept)
        BY <1>3
      <3>2. /\ Len(down[a]) \in Nat /\ Len(down'[a]) = Len(down[a]) + 1
            /\ \A i \in 0 .. Len(down[a]) : Reached(a, i)' = Reached(a, i)
            /\ \A i \in 1 .. Len(down[a]) : Accepts(a, i)' = Accepts(a, i)
            /\ Reached(a, Len(down[a])) = L
            /\ \A n : n = Len(down[a]) + 1 => /\ Reached(a, n)' = newRev
                                              /\ Accepts(a, n)' <=> accept.type = "ACCEPT_COMMIT"
            /\ BroughtUpToDate(a)'
        BY <2>1, <2>2, <2>4, <2>8, <2>L, <3>1, SendingKeepsUpToDate DEF L
      <3>3. /\ submitted[a] # None /\ \A i \in 1 .. Len(down[a]) : ~Accepts(a, i)
            /\ user[a] # None /\ submitted'[a] = submitted[a] /\ user'[a] = user[a]
        BY <1>1, <2>1 DEF BrowserInv, OneUnderWay
      <3>4. PICK k : k = Len(down[a]) + 1
        OBVIOUS
      <3>5. /\ \A i \in 1 .. Len(down'[a]) : Accepts(a, i)' => i = k
            /\ k - 1 = Len(down[a]) /\ Len(down[a]) \in 0 .. Len(down[a])
        BY <3>2, <3>3, <3>4
      <3>6. OneUnderWay(a)' /\ HeldAsSent(a)'
        BY <2>3, <3>3, <3>5 DEF OneUnderWay, HeldAsSent
      <3>7. applyToAText(RebasedTo(revisions', submitted[a], rev[a], L), TextAt(revisions', L))
              = TextAt(revisions', newRev)
        <4>1. L \in 0 .. L /\ L \in Nat
          BY <2>1
        <4>2. /\ wire[a].baseRev \in 0 .. rev[a]
              /\ submitted[a] = RebasedTo(revisions, cs, wire[a].baseRev, rev[a])
          BY <1>1, <2>1 DEF BrowserInv, HeldAsSent
        <4>3. RebasedTo(revisions', submitted[a], rev[a], L) = RebasedTo(revisions, submitted[a], rev[a], L)
          BY <2>6, <2>8, <4>1
        <4>4. wire[a].baseRev \in Nat /\ wire[a].baseRev <= rev[a] /\ rev[a] <= L
          BY <2>8, <4>1, <4>2
        <4> HIDE DEF cs
        <4>5. RebasedTo(revisions, submitted[a], rev[a], L) = RebasedTo(revisions, cs, wire[a].baseRev, L)
          BY <2>8, <4>1, <4>2, <4>4, RebasedTwice
        <4>6. RebasedTo(revisions, cs, wire[a].baseRev, L) = r
          BY DEF r, Rebased, L
        <4>7. TextAt(revisions', L) = atext
          BY <2>1, <2>5, <4>1
        <4> QED BY <2>7, <4>3, <4>5, <4>6, <4>7 DEF after
      <3>8. HeldAsAccepted(a)'
        <4> SUFFICES ASSUME NEW i \in 1 .. Len(down'[a]), Accepts(a, i)'
                     PROVE  applyToAText(RebasedTo(revisions', submitted'[a], rev'[a], Reached(a, i - 1)'),
                                         TextAt(revisions', Reached(a, i - 1)'))
                              = TextAt(revisions', Reached(a, i)')
          BY DEF HeldAsAccepted
        <4>1. i = k
          BY <3>5
        <4>2. Reached(a, i)' = newRev
          BY <3>2, <3>4, <4>1
        <4>3. i - 1 = Len(down[a]) /\ i - 1 \in 0 .. Len(down[a])
          BY <3>5, <4>1
        <4>4. Reached(a, i - 1)' = L
          BY <3>2, <4>3
        <4>5. rev'[a] = rev[a]
          BY <2>8
        <4> QED BY <3>3, <3>7, <4>2, <4>4, <4>5
      <3> QED BY <3>2, <3>6, <3>8 DEF BrowserInv
    \* The others.
    <2>12. ASSUME NEW b \in Authors, b # a PROVE BrowserInv(b)'
      <3>1. /\ submitted'[b] = submitted[b] /\ user'[b] = user[b] /\ sent'[b] = sent[b] /\ wire'[b] = wire[b]
            /\ rev'[b] = rev[b] /\ user[b] # None
        BY <1>1, <2>1, <2>3, <2>12 DEF BrowserInv, OneUnderWay
      <3>2. CASE after = atext
        <4>1. down'[b] = down[b] /\ revisions' = revisions
          BY <1>3, <2>12, <3>2
        <4> QED BY <2>1, <3>1, <4>1, BrowserQuiet
      <3>3. CASE after # atext
        <4>1. down'[b] = Append(down[b], tell)
          BY <1>3, <2>12, <3>3
        <4>2. /\ Len(down[b]) \in Nat /\ Len(down'[b]) = Len(down[b]) + 1
              /\ \A i \in 0 .. Len(down[b]) : Reached(b, i)' = Reached(b, i)
              /\ \A i \in 1 .. Len(down[b]) : Accepts(b, i)' = Accepts(b, i)
              /\ \A n : n = Len(down[b]) + 1 => /\ Reached(b, n)' = newRev
                                                /\ Accepts(b, n)' <=> tell.type = "ACCEPT_COMMIT"
              /\ BroughtUpToDate(b)'
          BY <2>1, <2>2, <2>4, <2>8, <2>L, <3>3, <4>1, SendingKeepsUpToDate DEF L
        <4>3. ASSUME NEW i \in 1 .. Len(down'[b]), Accepts(b, i)'
              PROVE  i \in 1 .. Len(down[b]) /\ Accepts(b, i)
          <5>1. i # Len(down[b]) + 1
            BY <2>2, <4>2, <4>3
          <5>2. i \in 1 .. Len(down[b])
            BY <4>2, <5>1
          <5> QED BY <4>2, <4>3, <5>2
        <4>4. OneUnderWay(b)'
          <5>1. OneUnderWay(b)
            BY <2>1 DEF BrowserInv
          <5>2. sent'[b] => submitted'[b] # None /\ \A i \in 1 .. Len(down'[b]) : ~Accepts(b, i)'
            BY <3>1, <4>3, <5>1 DEF OneUnderWay
          <5>3. \A i \in 1 .. Len(down'[b]) : Accepts(b, i)' =>
                  /\ submitted'[b] # None
                  /\ \A j \in 1 .. Len(down'[b]) : Accepts(b, j)' => i = j
            BY <3>1, <4>3, <5>1 DEF OneUnderWay
          <5> QED BY <3>1, <5>2, <5>3 DEF OneUnderWay
        <4>5. HeldAsSent(b)'
          <5>1. HeldAsSent(b)
            BY <2>1 DEF BrowserInv
          <5> SUFFICES ASSUME sent[b]
                       PROVE  /\ wire[b].baseRev \in 0 .. rev[b]
                              /\ submitted[b] = RebasedTo(revisions', wire[b].changeset, wire[b].baseRev, rev[b])
            BY <3>1 DEF HeldAsSent
          <5>2. /\ wire[b].baseRev \in 0 .. rev[b]
                /\ submitted[b] = RebasedTo(revisions, wire[b].changeset, wire[b].baseRev, rev[b])
            BY <5>1 DEF HeldAsSent
          <5>3. wire[b].baseRev \in Nat /\ rev[b] \in 0 .. L
            BY <2>8, <5>2
          <5> QED BY <2>6, <5>2, <5>3
        <4>6. HeldAsAccepted(b)'
          <5> SUFFICES ASSUME NEW i \in 1 .. Len(down'[b]), Accepts(b, i)'
                       PROVE  applyToAText(RebasedTo(revisions', submitted'[b], rev'[b], Reached(b, i - 1)'),
                                           TextAt(revisions', Reached(b, i - 1)'))
                                = TextAt(revisions', Reached(b, i)')
            BY DEF HeldAsAccepted
          <5>1. i \in 1 .. Len(down[b]) /\ Accepts(b, i)
            BY <4>3
          <5>2. applyToAText(RebasedTo(revisions, submitted[b], rev[b], Reached(b, i - 1)),
                             TextAt(revisions, Reached(b, i - 1)))
                  = TextAt(revisions, Reached(b, i))
            BY <2>1, <5>1 DEF BrowserInv, HeldAsAccepted
          <5>3. i \in 0 .. Len(down[b]) /\ i - 1 \in 0 .. Len(down[b])
            BY <4>2, <5>1
          <5>4. Reached(b, i)' = Reached(b, i) /\ Reached(b, i - 1)' = Reached(b, i - 1)
            BY <4>2, <5>3
          <5>5. Reached(b, i) \in 0 .. L /\ Reached(b, i - 1) \in 0 .. L
            BY <2>1, <2>8, <5>1, <5>3, ReachedInRange DEF L
          <5>6. /\ TextAt(revisions', Reached(b, i)) = TextAt(revisions, Reached(b, i))
                /\ TextAt(revisions', Reached(b, i - 1)) = TextAt(revisions, Reached(b, i - 1))
            BY <2>5, <5>5
          <5>7. RebasedTo(revisions', submitted[b], rev[b], Reached(b, i - 1))
                  = RebasedTo(revisions, submitted[b], rev[b], Reached(b, i - 1))
            BY <2>6, <2>8, <5>5
          <5> QED BY <3>1, <5>2, <5>4, <5>6, <5>7
        <4> QED BY <4>2, <4>4, <4>5, <4>6 DEF BrowserInv
      <3> QED BY <3>2, <3>3
    <2> QED BY <2>9, <2>10, <2>11, <2>12 DEF TrackerInv
  <1> QED BY <1>2, <1>3 DEF handleUserChanges

-----------------------------------------------------------------------------
LEMMA TrackerStep == TrackerInv /\ [Next]_vars => TrackerInv'
  <1> SUFFICES ASSUME TrackerInv, [Next]_vars PROVE TrackerInv'
    OBVIOUS
  <1>1. ASSUME NEW a \in Authors, Type(a) PROVE TrackerInv'
    BY <1>1, EditKeeps DEF Type
  <1>2. ASSUME NEW a \in Authors, Embolden(a) PROVE TrackerInv'
    BY <1>2, EditKeeps DEF Embolden
  <1>3. ASSUME NEW a \in Authors, Prepare(a) PROVE TrackerInv'
    BY <1>3, PrepareKeeps
  <1>4. ASSUME NEW a \in Authors, LoseSubmission(a) PROVE TrackerInv'
    BY <1>4, UnsentKeeps DEF LoseSubmission
  <1>5. ASSUME NEW a \in Authors, ReceiveNewChanges(a) PROVE TrackerInv'
    BY <1>5, NewChangesKeep
  <1>6. ASSUME NEW a \in Authors, ReceiveAcceptCommit(a) PROVE TrackerInv'
    BY <1>6, AcceptCommitKeeps
  <1>7. ASSUME NEW a \in Authors, handleUserChanges(a) PROVE TrackerInv'
    BY <1>7, SubmissionKeeps
  <1>8. ASSUME UNCHANGED vars PROVE TrackerInv'
    <2>1. UNCHANGED <<revisions, atext, base, submitted, user, rev, sent, wire, down>>
      BY <1>8 DEF vars
    <2>2. \A a \in Authors : BrowserInv(a)'
      <3> TAKE a \in Authors
      <3>1. user[a] # None /\ BrowserInv(a)
        BY DEF TrackerInv, BrowserInv, OneUnderWay
      <3> QED BY <2>1, <3>1, BrowserQuiet
    <2>3. Shaped' /\ BaseIsRevision'
      BY <2>1 DEF TrackerInv, Shaped, BaseIsRevision
    <2> QED BY <2>2, <2>3 DEF TrackerInv
  <1> QED BY <1>1, <1>2, <1>3, <1>4, <1>5, <1>6, <1>7, <1>8 DEF Next

\* The official text of a browser (baseAText of changesettracker.ts) is the text
\* of the pad at the revision the browser is at, although browser and server
\* rebase each submission on their own and submissions are lost and made again.
THEOREM OfficialTextsAgree == Spec => []BaseIsRevision
  <1>1. TrackerInv => BaseIsRevision
    BY DEF TrackerInv
  <1> QED BY <1>1, TrackerInit, TrackerStep, PTL DEF Spec

-----------------------------------------------------------------------------
(* Texts as runs, and character by character. *)

Mapped(w, s) == [i \in DOMAIN s |-> w[s[i]]]

LEMMA MapAppend ==
    ASSUME NEW Z, NEW S, NEW w, \A a \in Z : w[a] \in S, NEW s \in Seq(Z), NEW e \in Z
    PROVE  Mapped(w, Append(s, e)) = Append(Mapped(w, s), w[e]) /\ Mapped(w, s) \in Seq(S)
<1> DEFINE t == Append(s, e)
           g == Mapped(w, s)
           h == Mapped(w, t)
           v == w[e]
<1>1. Len(s) \in Nat /\ DOMAIN s = 1 .. Len(s) /\ \A i \in 1 .. Len(s) : s[i] \in Z
  OBVIOUS
<1>2. g \in Seq(S) /\ v \in S /\ Len(g) = Len(s) /\ \A i \in 1 .. Len(s) : g[i] = w[s[i]]
  BY <1>1 DEF Mapped
<1>3. /\ DOMAIN t = 1 .. Len(s) + 1
      /\ t[Len(s) + 1] = e /\ \A i \in 1 .. Len(s) : t[i] = s[i]
  BY <1>1, AppendProperties
<1>4. /\ DOMAIN Append(g, v) = 1 .. Len(s) + 1 /\ Append(g, v)[Len(s) + 1] = v
      /\ \A i \in 1 .. Len(s) : Append(g, v)[i] = g[i]
      /\ Append(g, v) \in Seq(S)
  <2> HIDE DEF g, v
  <2> QED BY <1>2, AppendProperties
<1>5. \A i \in 1 .. Len(s) + 1 : w[t[i]] = Append(g, v)[i]
  <2> TAKE i \in 1 .. Len(s) + 1
  <2>1. CASE i = Len(s) + 1
    BY <1>3, <1>4, <2>1
  <2>2. CASE i # Len(s) + 1
    <3>1. i \in 1 .. Len(s)
      BY <1>1, <2>2
    <3>2. t[i] = s[i] /\ g[i] = w[s[i]] /\ Append(g, v)[i] = g[i]
      BY <1>2, <1>3, <1>4, <3>1
    <3> QED BY <3>2
  <2> QED BY <2>1, <2>2
<1>6. h = [i \in 1 .. Len(s) + 1 |-> w[t[i]]]
  BY <1>3 DEF Mapped
<1>7. Append(g, v) = [i \in 1 .. Len(s) + 1 |-> Append(g, v)[i]]
  <2> DEFINE q == Append(g, v)
  <2>1. q \in Seq(S) /\ DOMAIN q = 1 .. Len(s) + 1
    BY <1>4
  <2> HIDE DEF q
  <2>2. q = [i \in DOMAIN q |-> q[i]]
    BY <2>1
  <2> DEFINE D == 1 .. Len(s) + 1
  <2>3. DOMAIN q = D
    BY <2>1
  <2> HIDE DEF D
  <2>4. q = [i \in D |-> q[i]]
    BY <2>2, <2>3
  <2> QED BY <2>4 DEF D, q
<1> QED BY <1>2, <1>5, <1>6, <1>7

LEMMA MapEmpty ==
    ASSUME NEW w
    PROVE  Mapped(w, <<>>) = <<>>
<1> DEFINE s == <<>>
<1>1. DOMAIN s = {}
  OBVIOUS
<1> HIDE DEF s
<1>2. Mapped(w, s) = [i \in {} |-> w[s[i]]]
  BY <1>1 DEF Mapped
<1> QED BY <1>2 DEF s

LEMMA FlattenMapped ==
    ASSUME NEW Z, NEW S, NEW w, \A a \in Z : w[a] \in Seq(S), NEW s \in Seq(Z), NEW e \in Z
    PROVE  FlattenSeq(Mapped(w, Append(s, e))) = FlattenSeq(Mapped(w, s)) \o w[e]
<1> DEFINE T == Seq(S)
<1>1. \A a \in Z : w[a] \in T
  OBVIOUS
<1>2. Mapped(w, Append(s, e)) = Append(Mapped(w, s), w[e]) /\ Mapped(w, s) \in Seq(T)
  <2> HIDE DEF T
  <2> QED BY <1>1, MapAppend
<1>3. w[e] \in Seq(S)
  OBVIOUS
<1> QED BY <1>2, <1>3, FlattenAppend

\* A run, character by character.
RunCells(e) == [j \in 1 .. e.n |-> [char |-> e.text[j], bold |-> e.bold]]

LEMMA CharsAppend ==
    ASSUME NEW C, NEW s \in Lists(C), NEW e \in Ops(C)
    PROVE  Chars(Append(s, e)) = Chars(s) \o RunCells(e)
<1> DEFINE Z == Ops(C)
           S == {[char |-> f.text[j], bold |-> f.bold] : f \in Z, j \in Nat}
           w == [f \in Z |-> RunCells(f)]
<1>1. \A f \in Z : w[f] = RunCells(f) /\ w[f] \in Seq(S)
  <2> TAKE f \in Z
  <2>1. f.n \in Nat
    BY OpFields
  <2>2. \A j \in 1 .. f.n : [char |-> f.text[j], bold |-> f.bold] \in S
    OBVIOUS
  <2> HIDE DEF S, Z
  <2>3. RunCells(f) \in Seq(S)
    BY <2>1, <2>2 DEF RunCells
  <2> QED BY <2>3
<1>2. s \in Seq(Z) /\ e \in Z
  BY DEF Lists
<1> HIDE DEF Z, S
<1>3. \A t \in Seq(Z) : Chars(t) = FlattenSeq(Mapped(w, t))
  <2> TAKE t \in Seq(Z)
  <2>1. \A i \in DOMAIN t : t[i] \in Z
    OBVIOUS
  <2>2. \A i \in DOMAIN t : w[t[i]] = [j \in 1 .. t[i].n |-> [char |-> t[i].text[j], bold |-> t[i].bold]]
    BY <1>1, <2>1 DEF RunCells
  <2> HIDE DEF w
  <2>3. Mapped(w, t) = [i \in DOMAIN t |->
                            [j \in 1 .. t[i].n |-> [char |-> t[i].text[j], bold |-> t[i].bold]]]
    BY <2>2 DEF Mapped
  <2> QED BY <2>3 DEF Chars
<1>4. Append(s, e) \in Seq(Z)
  BY <1>2
<1>5. \A f \in Z : w[f] \in Seq(S)
  BY <1>1
<1>6. w[e] = RunCells(e)
  BY <1>1, <1>2
<1> HIDE DEF w
<1>7. FlattenSeq(Mapped(w, Append(s, e))) = FlattenSeq(Mapped(w, s)) \o w[e]
  BY <1>2, <1>5, FlattenMapped
<1> QED BY <1>2, <1>3, <1>4, <1>6, <1>7

LEMMA CharsEmpty == Chars(<<>>) = <<>>
<1> DEFINE t == <<>>
<1>1. DOMAIN t = {}
  OBVIOUS
<1> HIDE DEF t
<1>2. [i \in DOMAIN t |-> [j \in 1 .. t[i].n |-> [char |-> t[i].text[j], bold |-> t[i].bold]]] = <<>>
  BY <1>1
<1>3. Chars(t) = FlattenSeq(<<>>)
  BY <1>2 DEF Chars
<1> QED BY <1>3, FlattenEmpty DEF t


\* Runs that can be applied to no text are insertions: what they make of it is
\* the text they are of.
RunsShow(C, s) ==
    /\ After(s, State(Nil, Nil)) = State(Chars(s), Nil)
    /\ Chars(s) \in Texts(C) /\ Length(s) = Len(Chars(s))

LEMMA RunsShowNext ==
    ASSUME NEW C, NEW s \in Lists(C), NEW e \in Ops(C), RunsShow(C, s),
           After(Append(s, e), State(Nil, Nil)).ok
    PROVE  RunsShow(C, Append(s, e))
<1> DEFINE t == Append(s, e)
           p == Chars(s)
           c == RunCells(e)
           nil == State(Nil, Nil)
<1>0. s \in Seq(Loose(C)) /\ e \in Loose(C) /\ e.n \in Nat /\ e.n # 0
  BY NilTyped, MaybeOp, OpFields
<1>1. After(t, nil) = Act(e, After(s, nil)) /\ After(t, nil).ok
  BY <1>0, AfterAppend
<1>2. After(s, nil) = State(p, Nil) /\ p \in Texts(C) /\ Length(s) = Len(p)
  BY DEF RunsShow
<1>3. Chars(t) = p \o c
  BY CharsAppend
<1>4. Length(t) = Length(s) + e.n
  BY <1>0, LengthAppend
<1> HIDE DEF p, nil, t
<1>5. After(t, nil) = Act(e, State(p, Nil))
  BY <1>1, <1>2
<1>6. e.opcode = "+"
  <2>1. Len(Nil) = 0
    BY DEF Nil
  <2>2. e.n > Len(Nil)
    BY <1>0, <2>1
  <2>3. e.opcode \in {"-", "="} => Act(e, State(p, Nil)) = Stuck
    BY <2>2, ActRemove, ActKeep
  <2>4. Act(e, State(p, Nil)) # Stuck
    BY <1>1, <1>5, StuckFields
  <2> QED BY <2>3, <2>4, OpFields
<1>7. c = CellsOf(e.text, e.bold) /\ c \in Texts(C) /\ Len(c) = e.n
  <2>1. Len(e.text) = e.n /\ e.text \in Seq(C) /\ e.bold \in Bolds
    BY <1>6, OpFields
  <2>2. c = CellsOf(e.text, e.bold)
    BY <2>1 DEF RunCells, CellsOf
  <2> QED BY <2>1, <2>2, CellsOfSeq DEF Texts
<1> HIDE DEF c
<1>8. After(t, nil) = State(p \o c, Nil)
  BY <1>5, <1>6, <1>7, ActInsert
<1>9. Cat(p, c) \in Texts(C) /\ Len(Cat(p, c)) = Len(p) + Len(c) /\ Cat(p, c) = p \o c
  <2>1. Cat(p, c) \in Texts(C)
    BY <1>2, <1>7, NilTyped, CatLaws
  <2>2. Len(Cat(p, c)) = Len(p) + Len(c)
    BY <1>2, <1>7, CatLen
  <2> QED BY <2>1, <2>2 DEF Cat
<1> QED BY <1>2, <1>3, <1>4, <1>7, <1>8, <1>9 DEF RunsShow, t, nil

LEMMA RunsAreShown ==
    ASSUME NEW C
    PROVE  \A s \in Lists(C) : FitsOn(s, Nil) => RunsShow(C, s)
<1> DEFINE S == Ops(C)
           nil == State(Nil, Nil)
           P == {s \in Seq(S) : After(s, nil).ok => RunsShow(C, s)}
<1>1. <<>> \in P
  <2>1. After(Nil, nil) = nil /\ Chars(Nil) = Nil /\ Length(Nil) = 0 /\ Len(Nil) = 0 /\ Nil \in Texts(C)
    BY AfterNothing, CharsEmpty, LengthEmpty, NilTyped DEF Nil
  <2>2. RunsShow(C, Nil)
    BY <2>1 DEF RunsShow
  <2> QED BY <2>2 DEF Nil
<1>2. ASSUME NEW s \in Seq(S), NEW e \in S, s \in P
      PROVE  Append(s, e) \in P
  <2>1. Append(s, e) \in Seq(S)
    BY AppendTyped
  <2>2. ASSUME After(Append(s, e), nil).ok
        PROVE  RunsShow(C, Append(s, e))
    <3>1. s \in Seq(Loose(C)) /\ e \in Loose(C)
      BY AppendTyped
    <3>2. After(Append(s, e), nil) = Act(e, After(s, nil))
      BY <3>1, AfterAppend
    <3>3. Act(e, After(s, nil)).ok
      BY <2>2, <3>2
    <3>4. After(s, nil).ok
      BY <3>3, ActOk
    <3>5. RunsShow(C, s) /\ s \in Lists(C)
      BY <1>2, <3>4 DEF Lists
    <3> QED BY <2>2, <3>5, RunsShowNext
  <2> QED BY <2>1, <2>2
<1>3. Seq(S) \subseteq P
  <2> HIDE DEF P, S
  <2> QED BY <1>1, <1>2, SeqInduction
<1> QED BY <1>3 DEF FitsOn, Nil, Lists

\* The text that runs show.
LEMMA ShowsChars ==
    ASSUME NEW C, NEW s, NEW t, Shows(C, s, t)
    PROVE  Chars(s) = t /\ Length(s) = Len(t) /\ t \in Texts(C)
<1>1. s \in Lists(C) /\ FitsOn(s, Nil) /\ Makes(s, Nil) = t
  BY DEF Shows
<1>2. RunsShow(C, s)
  BY <1>1, RunsAreShown
<1> DEFINE p == Chars(s)
<1>3. After(s, State(Nil, Nil)) = State(p, Nil) /\ p \in Texts(C) /\ Length(s) = Len(p)
  BY <1>2 DEF RunsShow
<1>4. Makes(s, Nil) = Cat(p, Nil)
  BY <1>3, FoundMakes
<1>5. Cat(p, Nil) = p
  BY <1>3, CatLaws, NilTyped
<1> QED BY <1>1, <1>3, <1>4, <1>5

\* The letters of a text, each a run.
Letters(text) == [i \in DOMAIN text |-> insert(<<text[i].char>>, text[i].bold)]

LEMMA LetterActs ==
    ASSUME NEW C, NEW c \in Cells(C), NEW e, e = insert(<<c.char>>, c.bold), NEW t \in Texts(C)
    PROVE  e \in Ops(C) /\ Act(e, State(t, Nil)) = State(Append(t, c), Nil)
<1>0. c.char \in C /\ c.bold \in Bolds /\ c = [char |-> c.char, bold |-> c.bold]
  BY DEF Cells
<1> DEFINE w == <<c.char>>
<1>1. w \in Seq(C) /\ Len(w) = 1 /\ w[1] = c.char
  BY <1>0
<1> HIDE DEF w
<1>2. e = [opcode |-> "+", n |-> 1, text |-> w, bold |-> c.bold]
  BY <1>1 DEF insert, w
<1>3. e \in Ops(C) /\ e.opcode = "+" /\ e.text = w /\ e.bold = c.bold
  <2>1. e.opcode = "+" /\ e.n = 1 /\ e.text = w /\ e.bold = c.bold
    BY <1>2
  <2>2. e \in [opcode : {"+", "-", "="}, n : Nat \ {0}, text : Seq(C), bold : Bolds]
    BY <1>0, <1>1, <1>2
  <2> QED BY <1>1, <2>1, <2>2 DEF Ops
<1>4. Act(e, State(t, Nil)) = State(t \o CellsOf(w, c.bold), Nil)
  BY <1>3, ActInsert
<1>5. CellsOf(w, c.bold) = <<c>>
  <2>1. CellsOf(w, c.bold) = [i \in 1 .. 1 |-> [char |-> w[i], bold |-> c.bold]]
    BY <1>1 DEF CellsOf
  <2>2. \A i \in 1 .. 1 : [char |-> w[i], bold |-> c.bold] = c
    BY <1>0, <1>1
  <2> QED BY <2>1, <2>2
<1>6. t \o <<c>> = Append(t, c)
  <2> DEFINE S == Cells(C)
  <2>1. t \in Seq(S) /\ c \in S
    BY DEF Texts
  <2> HIDE DEF S
  <2> QED BY <2>1
<1> QED BY <1>3, <1>4, <1>5, <1>6

LEMMA LettersShow ==
    ASSUME NEW C
    PROVE  \A t \in Texts(C) : Letters(t) \in Lists(C) /\ After(Letters(t), State(Nil, Nil)) = State(t, Nil)
<1> DEFINE S == Cells(C)
           w == [c \in S |-> insert(<<c.char>>, c.bold)]
           nil == State(Nil, Nil)
           P == {t \in Seq(S) : Letters(t) \in Lists(C) /\ After(Letters(t), nil) = State(t, Nil)}
<1>1. \A c \in S : w[c] = insert(<<c.char>>, c.bold) /\ w[c] \in Ops(C)
  <2>1. Nil \in Texts(C)
    BY NilTyped
  <2> QED BY <2>1, LetterActs
<1>2. \A t \in Seq(S) : Letters(t) = Mapped(w, t)
  <2> TAKE t \in Seq(S)
  <2>1. \A i \in DOMAIN t : t[i] \in S
    <3> HIDE DEF S
    <3> QED OBVIOUS
  <2>2. \A i \in DOMAIN t : w[t[i]] = insert(<<t[i].char>>, t[i].bold)
    BY <1>1, <2>1
  <2> HIDE DEF w
  <2> QED BY <2>2 DEF Letters, Mapped
<1>3. <<>> \in P
  <2>1. Letters(<<>>) = <<>> /\ <<>> \in Seq(S)
    <3>1. <<>> \in Seq(S)
      <4> HIDE DEF S
      <4> QED OBVIOUS
    <3> HIDE DEF w
    <3> QED BY <1>2, <3>1, MapEmpty
  <2>2. After(Nil, nil) = nil /\ Nil \in Lists(C)
    BY AfterNothing, NilTyped DEF Nil
  <2> QED BY <2>1, <2>2 DEF Nil
<1>4. ASSUME NEW t \in Seq(S), NEW c \in S, t \in P
      PROVE  Append(t, c) \in P
  <2>1. Append(t, c) \in Seq(S)
    <3> HIDE DEF S
    <3> QED OBVIOUS
  <2> DEFINE e == w[c]
             L == Letters(t)
  <2>2. Letters(Append(t, c)) = Append(L, e)
    <3> HIDE DEF w, S, P
    <3>1. \A a \in S : w[a] \in Ops(C)
      BY <1>1
    <3>2. Mapped(w, Append(t, c)) = Append(Mapped(w, t), w[c])
      <4> DEFINE T == Ops(C)
      <4>1. (\A a \in S : w[a] \in T) /\ t \in Seq(S) /\ c \in S
        BY <3>1
      <4> HIDE DEF T
      <4>2. Mapped(w, Append(t, c)) = Append(Mapped(w, t), w[c]) /\ Mapped(w, t) \in Seq(T)
        BY <4>1, MapAppend
      <4> QED BY <4>2
    <3> QED BY <1>2, <2>1, <3>2
  <2>3. L \in Lists(C) /\ After(L, nil) = State(t, Nil) /\ t \in Texts(C)
    BY <1>4 DEF Texts
  <2>4. e = insert(<<c.char>>, c.bold) /\ e \in Ops(C)
    BY <1>1
  <2> HIDE DEF e, L
  <2>5. Act(e, State(t, Nil)) = State(Append(t, c), Nil)
    BY <2>3, <2>4, LetterActs
  <2>6. Append(L, e) \in Lists(C) /\ L \in Seq(Loose(C)) /\ e \in Loose(C)
    BY <2>3, <2>4, AppendTyped DEF Lists
  <2>7. After(Append(L, e), nil) = Act(e, After(L, nil))
    BY <2>6, AfterAppend
  <2> QED BY <2>1, <2>2, <2>3, <2>5, <2>6, <2>7
<1>5. Seq(S) \subseteq P
  <2> HIDE DEF P, S
  <2> QED BY <1>3, <1>4, SeqInduction
<1> QED BY <1>5 DEF Texts

\* A text as runs shows that text.
LEMMA RunsShowText ==
    ASSUME NEW C, NEW t \in Texts(C)
    PROVE  Shows(C, Runs(t), t)
<1> DEFINE s == Letters(t)
<1>1. s \in Lists(C) /\ After(s, State(Nil, Nil)) = State(t, Nil)
  BY LettersShow
<1>2. FitsOn(s, Nil) /\ Makes(s, Nil) = Cat(t, Nil)
  BY <1>1, FoundMakes
<1>3. Cat(t, Nil) = t
  BY CatLaws, NilTyped
<1>4. s \in Seq(Loose(C))
  BY <1>1, NilTyped
<1>5. Runs(t) = Assemble(s)
  BY DEF Runs, Letters
<1> HIDE DEF s
<1>6. Shows(C, Assemble(s), Makes(s, Nil))
  BY <1>2, <1>4, AssembleShows
<1> QED BY <1>2, <1>3, <1>5, <1>6

-----------------------------------------------------------------------------
(* What is typed. *)

LEMMA InsertedIs ==
    ASSUME NEW C, NEW cs, cs.ops \in Lists(C)
    PROVE  Inserted(cs) = Said(cs.ops)
<1> DEFINE Z == Ops(C)
           w == [e \in Z |-> e.text]
           I(s) == FlattenSeq(Mapped(w, s))
           P == {s \in Seq(Z) : I(s) = Said(s)}
<1>1. \A e \in Z : w[e] = e.text /\ w[e] \in Seq(C)
  BY OpFields
<1>2. <<>> \in P
  <2>1. Mapped(w, <<>>) = <<>>
    <3> HIDE DEF w
    <3> QED BY MapEmpty
  <2>2. <<>> \in Seq(Z)
    <3> HIDE DEF Z
    <3> QED OBVIOUS
  <2> QED BY <2>1, <2>2, FlattenEmpty, SaidNil DEF Nil
<1>3. ASSUME NEW s \in Seq(Z), NEW e \in Z, s \in P
      PROVE  Append(s, e) \in P
  <2>1. s \in Seq(Loose(C)) /\ e \in Loose(C) /\ Append(s, e) \in Seq(Z)
    BY AppendTyped
  <2>2. Said(Append(s, e)) = Beside(Said(s), e.text)
    BY <2>1, SaidAppend
  <2>3. \A f \in Z : w[f] \in Seq(C)
    BY <1>1
  <2>4. I(Append(s, e)) = I(s) \o w[e]
    <3> HIDE DEF w, Z
    <3> QED BY <2>3, FlattenMapped
  <2>5. I(s) = Said(s) /\ w[e] = e.text
    BY <1>1, <1>3
  <2> HIDE DEF I, w
  <2>6. I(Append(s, e)) = Said(Append(s, e))
    BY <2>2, <2>4, <2>5 DEF Beside
  <2> QED BY <2>1, <2>6
<1>4. Seq(Z) \subseteq P
  <2> HIDE DEF P, Z
  <2> QED BY <1>2, <1>3, SeqInduction
<1> DEFINE s == cs.ops
<1>5. s \in Seq(Z)
  BY DEF Lists
<1>6. I(s) = Said(s)
  BY <1>4, <1>5
<1>7. \A i \in DOMAIN s : s[i] \in Z
  <2> HIDE DEF Z, s
  <2> QED BY <1>5
<1>8. \A i \in DOMAIN s : w[s[i]] = s[i].text
  BY <1>1, <1>7
<1>9. Mapped(w, s) = [i \in DOMAIN s |-> s[i].text]
  <2> HIDE DEF w, s
  <2> QED BY <1>8 DEF Mapped
<1> QED BY <1>6, <1>9 DEF Inserted

LEMMA FollowTyped ==
    ASSUME NEW C, NEW c1, NEW c2, c1.ops \in Lists(C), c2.ops \in Lists(C), NEW r \in BOOLEAN
    PROVE  follow(c1, c2, r).ops \in Lists(C) /\ Inserted(follow(c1, c2, r)) = Inserted(c2)
<1> DEFINE a == ZipEnd(Way(r), c1.ops, c2.ops).out
           cs == follow(c1, c2, r)
<1>1. cs = pack(newLen(c1), Assemble(a))
  BY FollowAs
<1>2. cs.ops = Assemble(a)
  BY <1>1 DEF pack
<1>3. a \in Seq(Loose(C))
  <2>1. c1.ops \in Seq(Ops(C)) /\ c2.ops \in Seq(Ops(C)) /\ Way(r) \in ZipKinds
    BY WayIs DEF Lists
  <2>2. ZipEnd(Way(r), c1.ops, c2.ops) \in ZipStates(C)
    BY <2>1, ZipEnds
  <2> QED BY <2>2, ZipFields
<1>4. Said(a) = Said(c2.ops)
  BY FollowSays
<1> HIDE DEF a
<1>5. Assemble(a) \in Lists(C) /\ Said(Assemble(a)) = Said(a)
  BY <1>3, AssembleTyped, AssembleSays DEF Lists
<1> HIDE DEF cs
<1>6. cs.ops \in Lists(C)
  BY <1>2, <1>5
<1>7. Inserted(cs) = Said(cs.ops)
  BY <1>6, InsertedIs
<1>8. Inserted(c2) = Said(c2.ops)
  BY InsertedIs
<1>9. Inserted(cs) = Inserted(c2)
  BY <1>2, <1>4, <1>5, <1>7, <1>8
<1> QED BY <1>6, <1>9 DEF cs

LEMMA RebaseTyped ==
    ASSUME NEW C, NEW c1, NEW c2, c1.ops \in Lists(C), c2.ops \in Lists(C)
    PROVE  SubmittedAfter(c1, c2).ops \in Lists(C) /\ Inserted(SubmittedAfter(c1, c2)) = Inserted(c2)
<1> DEFINE r == FALSE
<1>1. r \in BOOLEAN
  OBVIOUS
<1> HIDE DEF r
<1>2. follow(c1, c2, r).ops \in Lists(C) /\ Inserted(follow(c1, c2, r)) = Inserted(c2)
  BY <1>1, FollowTyped
<1>3. SubmittedAfter(c1, c2) = follow(c1, c2, r)
  BY DEF SubmittedAfter, r
<1> QED BY <1>2, <1>3

\* A rebase keeps what its author has typed.
LEMMA RebasedInserts ==
    ASSUME NEW C, NEW revs, NEW cs, cs.ops \in Lists(C), NEW b \in Nat, NEW n \in Nat, b <= n,
           \A i \in b + 1 .. n : revs[i].ops \in Lists(C)
    PROVE  RebasedTo(revs, cs, b, n).ops \in Lists(C) /\ Inserted(RebasedTo(revs, cs, b, n)) = Inserted(cs)
<1> DEFINE x(i) == RebasedTo(revs, cs, b, i)
           Holds(i) == x(i).ops \in Lists(C) /\ Inserted(x(i)) = Inserted(cs)
           P == {i \in Nat : b + i <= n => Holds(b + i)}
<1>1. 0 \in P
  <2>1. x(b) = cs
    BY RebasedFirst
  <2>2. b + 0 = b
    OBVIOUS
  <2>3. Holds(b)
    BY <2>1
  <2> HIDE DEF Holds
  <2> QED BY <2>2, <2>3
<1>2. ASSUME NEW i \in Nat, i \in P
      PROVE  i + 1 \in P
  <2> SUFFICES ASSUME b + (i + 1) <= n
               PROVE  Holds(b + (i + 1))
    <3> HIDE DEF Holds
    <3> QED OBVIOUS
  <2> DEFINE k == b + i
             m == b + (i + 1)
  <2>1. k \in Nat /\ k >= b /\ m = k + 1 /\ k <= n /\ m \in b + 1 .. n
    OBVIOUS
  <2>2. Holds(k)
    <3> HIDE DEF Holds
    <3> QED BY <1>2, <2>1
  <2>3. revs[m].ops \in Lists(C)
    BY <2>1
  <2> HIDE DEF k, m
  <2>4. x(m) = SubmittedAfter(revs[m], x(k))
    BY <2>1, RebasedNext
  <2> DEFINE y == x(k)
             c == revs[m]
  <2>6. y.ops \in Lists(C) /\ Inserted(y) = Inserted(cs)
    BY <2>2
  <2>7. x(m) = SubmittedAfter(c, y) /\ c.ops \in Lists(C)
    BY <2>3, <2>4
  <2> HIDE DEF x, y, c
  <2>8. SubmittedAfter(c, y).ops \in Lists(C) /\ Inserted(SubmittedAfter(c, y)) = Inserted(y)
    BY <2>6, <2>7, RebaseTyped
  <2>9. Holds(m)
    BY <2>6, <2>7, <2>8
  <2> QED BY <2>9 DEF m
<1>3. Nat \subseteq P
  <2> HIDE DEF P
  <2> QED BY <1>1, <1>2, NumberInduction
<1>4. n - b \in Nat /\ b + (n - b) = n
  OBVIOUS
<1>5. Holds(b + (n - b))
  <2> HIDE DEF Holds
  <2> QED BY <1>3, <1>4
<1> HIDE DEF Holds
<1>6. Holds(n)
  BY <1>4, <1>5
<1> QED BY <1>6 DEF Holds

-----------------------------------------------------------------------------
(* Edits.  What Builder makes of a keep, a removal and an insertion, of which *)
(* each may be of nothing.                                                    *)

LEMMA NoText ==
    ASSUME NEW C, NEW p \in Texts(C), Len(p) = 0
    PROVE  p = Nil
<1> DEFINE T == Cells(C)
<1> HIDE DEF T
<1> QED BY DEF Texts, Nil, T

LEMMA LooseKeep ==
    ASSUME NEW C, NEW b \in Bolds, NEW p \in Texts(C), NEW w \in Texts(C), NEW o \in Texts(C),
           NEW n, n = Len(p)
    PROVE  /\ keep(n, b) \in Loose(C)
           /\ Act(keep(n, b), State(o, Cat(p, w))) = State(Cat(o, Styled(p, b)), w)
           /\ Styled(p, b) \in Texts(C)
<1> DEFINE e == keep(n, b)
<1>1. Styled(p, b) \in Texts(C) /\ Len(Styled(p, b)) = Len(p) /\ n \in Nat
  <2>1. p \in Seq(Cells(C))
    BY DEF Texts
  <2> QED BY <2>1, StyledSeq DEF Texts
<1>2. CASE n = 0
  <2>1. p = Nil /\ Styled(p, b) = Nil
    BY <1>1, <1>2, NoText
  <2>2. Cat(p, w) = w /\ Cat(o, Styled(p, b)) = o
    BY <2>1, NilTyped, CatLaws
  <2>3. e.n = 0
    BY <1>2 DEF keep
  <2>4. Act(e, State(o, w)) = State(o, w)
    <3> HIDE DEF e
    <3> QED BY <2>3, ActNothing
  <2>5. e \in Loose(C)
    BY <1>2 DEF keep, Loose
  <2> QED BY <1>1, <2>2, <2>4, <2>5
<1>3. CASE n # 0
  <2>1. 0 < n
    BY <1>1, <1>3
  <2>2. e \in Ops(C) /\ e.opcode = "=" /\ e.n = n /\ e.bold = b
    BY <1>1, <2>1, KeepRemove
  <2> HIDE DEF e
  <2>3. e.opcode # "+" /\ e.opcode # "-" /\ Len(p) = e.n
    BY <2>2
  <2>4. Act(e, State(o, Cat(p, w))) = State(Cat(o, Styled(p, e.bold)), w)
    BY <2>2, <2>3, ActOn
  <2>5. e \in Loose(C)
    BY <2>2, OpFields
  <2> QED BY <1>1, <2>2, <2>4, <2>5 DEF e
<1> QED BY <1>2, <1>3

LEMMA LooseRemove ==
    ASSUME NEW C, NEW p \in Texts(C), NEW w \in Texts(C), NEW o \in Texts(C), NEW n, n = Len(p)
    PROVE  remove(n) \in Loose(C) /\ Act(remove(n), State(o, Cat(p, w))) = State(o, w)
<1> DEFINE e == remove(n)
<1>1. n \in Nat
  <2>1. p \in Seq(Cells(C))
    BY DEF Texts
  <2> QED BY <2>1
<1>2. CASE n = 0
  <2>1. p = Nil
    BY <1>2, NoText
  <2>2. Cat(p, w) = w
    BY <2>1, NilTyped, CatLaws
  <2>3. e.n = 0
    BY <1>2 DEF remove
  <2>4. Act(e, State(o, w)) = State(o, w)
    <3> HIDE DEF e
    <3> QED BY <2>3, ActNothing
  <2>5. e \in Loose(C)
    BY <1>2 DEF remove, Loose, Bolds
  <2> QED BY <2>2, <2>4, <2>5
<1>3. CASE n # 0
  <2>1. 0 < n
    BY <1>1, <1>3
  <2>2. e \in Ops(C) /\ e.opcode = "-" /\ e.n = n
    BY <1>1, <2>1, KeepRemove DEF Bolds
  <2> HIDE DEF e
  <2>3. e.opcode # "+" /\ e.opcode = "-" /\ Len(p) = e.n
    BY <2>2
  <2>4. Act(e, State(o, Cat(p, w))) = State(o, w)
    BY <2>2, <2>3, ActOn
  <2>5. e \in Loose(C)
    BY <2>2, OpFields
  <2> QED BY <2>4, <2>5 DEF e
<1> QED BY <1>2, <1>3

LEMMA LooseInsert ==
    ASSUME NEW C, NEW b \in Bolds, NEW t \in Seq(C), NEW w \in Texts(C), NEW o \in Texts(C)
    PROVE  /\ insert(t, b) \in Loose(C)
           /\ Act(insert(t, b), State(o, w)) = State(Cat(o, CellsOf(t, b)), w)
           /\ CellsOf(t, b) \in Texts(C)
<1> DEFINE e == insert(t, b)
<1>1. Len(t) \in Nat
  OBVIOUS
<1>2. CellsOf(t, b) \in Texts(C) /\ Len(CellsOf(t, b)) = Len(t)
  BY CellsOfSeq DEF Texts
<1>3. e.opcode = "+" /\ e.n = Len(t) /\ e.text = t /\ e.bold = b
  BY DEF insert
<1>4. CASE Len(t) = 0
  <2>1. t = <<>>
    BY <1>4
  <2>2. CellsOf(t, b) = Nil
    BY <1>2, <1>4, NoText
  <2>3. Cat(o, CellsOf(t, b)) = o
    BY <2>2, NilTyped, CatLaws
  <2>4. Act(e, State(o, w)) = State(o, w)
    <3>1. e.n = 0
      BY <1>3, <1>4
    <3> HIDE DEF e
    <3> QED BY <3>1, ActNothing
  <2>5. e \in Loose(C)
    BY <1>4, <2>1 DEF insert, Loose
  <2> QED BY <1>2, <2>3, <2>4, <2>5
<1>5. CASE Len(t) # 0
  <2>1. e \in Ops(C)
    BY <1>1, <1>5 DEF insert, Ops
  <2> HIDE DEF e
  <2>2. Act(e, State(o, w)) = State(o \o CellsOf(e.text, e.bold), w)
    BY <1>3, <2>1, ActInsert
  <2>3. e \in Loose(C)
    BY <2>1, OpFields
  <2> QED BY <1>2, <1>3, <2>2, <2>3 DEF e, Cat
<1> QED BY <1>4, <1>5


\* Ops one after the other.
LEMMA AppendsTwo ==
    ASSUME NEW a, NEW b
    PROVE  Append(<<a>>, b) = <<a, b>>
<1> DEFINE S == {a, b}
           s == <<a>>
           t == <<a, b>>
<1>1. a \in S /\ b \in S
  OBVIOUS
<1> HIDE DEF S
<1>2. s \in Seq(S) /\ Len(s) = 1 /\ s[1] = a
  BY <1>1
<1>3. t \in Seq(S) /\ Len(t) = 2 /\ t[1] = a /\ t[2] = b
  BY <1>1
<1> HIDE DEF s, t
<1>4. Append(s, b) \in Seq(S) /\ Len(Append(s, b)) = Len(s) + 1
      /\ \A i \in 1 .. Len(s) : Append(s, b)[i] = s[i]
      /\ Append(s, b)[Len(s) + 1] = b
  <2>1. s \in Seq(S)
    BY <1>2
  <2> QED BY <1>1, <2>1, AppendProperties
<1> DEFINE u == Append(s, b)
<1> HIDE DEF u
<1>7. u \in Seq(S) /\ Len(u) = 2 /\ u[1] = a /\ u[2] = b
  BY <1>2, <1>4 DEF u
<1>5. \A i \in 1 .. Len(t) : u[i] = t[i]
  <2> TAKE i \in 1 .. Len(t)
  <2>1. i = 1 \/ i = 2
    BY <1>3
  <2> QED BY <1>3, <1>7, <2>1
<1>6. u = t
  BY <1>3, <1>5, <1>7, SeqEqual
<1> QED BY <1>6 DEF s, t, u

LEMMA AppendsThree ==
    ASSUME NEW a, NEW b, NEW c
    PROVE  Append(<<a, b>>, c) = <<a, b, c>>
<1> DEFINE S == {a, b, c}
           s == <<a, b>>
           t == <<a, b, c>>
<1>1. a \in S /\ b \in S /\ c \in S
  OBVIOUS
<1> HIDE DEF S
<1>2. s \in Seq(S) /\ Len(s) = 2 /\ s[1] = a /\ s[2] = b
  BY <1>1
<1>3. t \in Seq(S) /\ Len(t) = 3 /\ t[1] = a /\ t[2] = b /\ t[3] = c
  BY <1>1
<1> HIDE DEF s, t
<1>4. Append(s, c) \in Seq(S) /\ Len(Append(s, c)) = Len(s) + 1
      /\ \A i \in 1 .. Len(s) : Append(s, c)[i] = s[i]
      /\ Append(s, c)[Len(s) + 1] = c
  <2>1. s \in Seq(S)
    BY <1>2
  <2> QED BY <1>1, <2>1, AppendProperties
<1> DEFINE u == Append(s, c)
<1> HIDE DEF u
<1>7. u \in Seq(S) /\ Len(u) = 3 /\ u[1] = a /\ u[2] = b /\ u[3] = c
  BY <1>2, <1>4 DEF u
<1>5. \A i \in 1 .. Len(t) : u[i] = t[i]
  <2> TAKE i \in 1 .. Len(t)
  <2>1. i = 1 \/ i = 2 \/ i = 3
    BY <1>3
  <2> QED BY <1>3, <1>7, <2>1
<1>6. u = t
  BY <1>3, <1>5, <1>7, SeqEqual
<1> QED BY <1>6 DEF s, t, u

LEMMA AfterTwo ==
    ASSUME NEW C, NEW a \in Loose(C), NEW b \in Loose(C), NEW x
    PROVE  <<a, b>> \in Seq(Loose(C)) /\ After(<<a, b>>, x) = Act(b, Act(a, x))
<1> DEFINE L == Loose(C)
           s == <<a>>
<1>1. s \in Seq(L)
  <2> HIDE DEF L
  <2> QED BY DEF L
<1>2. After(s, x) = Act(a, x)
  BY AfterOne
<1>3. Append(s, b) = <<a, b>>
  BY AppendsTwo
<1> HIDE DEF s
<1>4. After(Append(s, b), x) = Act(b, After(s, x))
  BY <1>1, AfterAppend
<1>5. Append(s, b) \in Seq(L)
  <2> HIDE DEF L
  <2> QED BY <1>1 DEF L
<1> QED BY <1>2, <1>3, <1>4, <1>5

LEMMA AfterThree ==
    ASSUME NEW C, NEW a \in Loose(C), NEW b \in Loose(C), NEW c \in Loose(C), NEW x
    PROVE  <<a, b, c>> \in Seq(Loose(C)) /\ After(<<a, b, c>>, x) = Act(c, Act(b, Act(a, x)))
<1> DEFINE L == Loose(C)
           s == <<a, b>>
<1>1. s \in Seq(L) /\ After(s, x) = Act(b, Act(a, x))
  BY AfterTwo
<1>2. Append(s, c) = <<a, b, c>>
  BY AppendsThree
<1> HIDE DEF s
<1>3. After(Append(s, c), x) = Act(c, After(s, x))
  BY <1>1, AfterAppend
<1>4. Append(s, c) \in Seq(L)
  <2> HIDE DEF L
  <2> QED BY <1>1 DEF L
<1> QED BY <1>1, <1>2, <1>3, <1>4

\* A text in three parts.
Parts(C, G, b, n, p, k, d, m, w) ==
    /\ G \in SUBSET Cells(C) /\ p \in Seq(G) /\ d \in Seq(G) /\ w \in Seq(G)
    /\ b = Cat(p, Cat(d, w)) /\ n = Len(b) + 1 /\ k = Len(p) /\ m = Len(d)

\* What is put in, and what a style makes of a part.
PutsIn(C, G, ins, u) == ins \in Seq(C) /\ u = CellsOf(ins, "none") /\ u \in Seq(G)
Restyles(G, d, v, u) == u = Styled(d, v) /\ u \in Seq(G)

\* A splice takes p and d out of a text, and puts p and ins.
LEMMA SpliceFits ==
    ASSUME NEW C, NEW G, NEW p, NEW d, NEW w, NEW ins, NEW u, NEW b, NEW n, NEW k, NEW m,
           Parts(C, G, b, n, p, k, d, m, w), PutsIn(C, G, ins, u)
    PROVE  /\ Fit(C, G, splice(n, k, m, ins, "none"), b)
           /\ Makes(splice(n, k, m, ins, "none").ops, b) = Cat(p, Cat(u, w))
<1> DEFINE z == "none"
           e1 == keep(k, z)
           e2 == remove(m)
           e3 == insert(ins, z)
           s == <<e1, e2, e3>>
           cs == splice(n, k, m, ins, "none")
<1>0. /\ G \in SUBSET Cells(C) /\ p \in Seq(G) /\ d \in Seq(G) /\ w \in Seq(G)
      /\ n = Len(b) + 1 /\ k = Len(p) /\ m = Len(d)
  BY DEF Parts
<1>1. z \in Bolds
  BY DEF Bolds
<1>2. p \in Texts(C) /\ d \in Texts(C) /\ w \in Texts(C) /\ Nil \in Texts(C)
  BY <1>0, SomeTexts, NilTyped
<1>3. Styled(p, z) = p
  <2>1. p \in Seq(Cells(C))
    BY <1>2 DEF Texts
  <2> QED BY <2>1, StyledNot
<1>4. u = CellsOf(ins, z) /\ ins \in Seq(C) /\ u \in Seq(G)
  BY DEF PutsIn
<1>5. Cat(d, w) \in Texts(C) /\ Cat(Nil, p) = p /\ b \in Seq(G)
  <2>1. Cat(d, w) \in Seq(G) /\ Cat(d, w) \in Texts(C)
    BY <1>0, <1>2, CatLaws, SomeTexts
  <2>2. Cat(p, Cat(d, w)) \in Texts(C) /\ Cat(Nil, p) = p
    BY <1>2, <2>1, CatLaws
  <2> QED BY <1>0, <1>2, <2>1, <2>2, SomeTexts DEF Parts
<1>6. cs = pack(n, Assemble(s))
  BY DEF splice
<1> HIDE DEF z, cs
<1>7. e1 \in Loose(C) /\ Act(e1, State(Nil, Cat(p, Cat(d, w)))) = State(Cat(Nil, Styled(p, z)), Cat(d, w))
  BY <1>0, <1>1, <1>2, <1>5, LooseKeep
<1>8. Act(e1, State(Nil, b)) = State(p, Cat(d, w))
  BY <1>3, <1>5, <1>7 DEF Parts
<1>9. e2 \in Loose(C) /\ Act(e2, State(p, Cat(d, w))) = State(p, w)
  BY <1>0, <1>2, LooseRemove
<1>10. e3 \in Loose(C) /\ Act(e3, State(p, w)) = State(Cat(p, u), w) /\ u \in Texts(C)
  BY <1>1, <1>2, <1>4, LooseInsert
<1> HIDE DEF e1, e2, e3
<1>11. s \in Seq(Loose(C)) /\ After(s, State(Nil, b)) = State(Cat(p, u), w)
  BY <1>7, <1>8, <1>9, <1>10, AfterThree
<1> HIDE DEF s
<1>12. FitsOn(s, b) /\ Makes(s, b) = Cat(Cat(p, u), w)
  <2> DEFINE o == Cat(p, u)
  <2> HIDE DEF o
  <2>1. After(s, State(Nil, b)) = State(o, w)
    BY <1>11 DEF o
  <2> QED BY <2>1, FoundMakes DEF o
<1>13. Cat(Cat(p, u), w) = Cat(p, Cat(u, w)) /\ Cat(p, u) \in Seq(G) /\ Cat(Cat(p, u), w) \in Seq(G)
  <2>1. Cat(Cat(p, u), w) = Cat(p, Cat(u, w)) /\ Cat(p, u) \in Texts(C)
    BY <1>2, <1>10, CatLaws
  <2>2. Cat(p, u) \in Seq(G)
    BY <1>0, <1>2, <1>4, <1>10, SomeTexts
  <2> QED BY <1>0, <1>2, <2>1, <2>2, SomeTexts
<1>14. Makes(s, b) \in Seq(G)
  BY <1>12, <1>13
<1>15. Fit(C, G, pack(n, Assemble(s)), b) /\ Makes(pack(n, Assemble(s)).ops, b) = Makes(s, b)
  <2>1. b \in Seq(G) /\ s \in Seq(Loose(C)) /\ FitsOn(s, b)
    BY <1>5, <1>11, <1>12
  <2> QED BY <1>0, <1>14, <2>1, PackFits, ZenonT(60)
<1>16. Fit(C, G, cs, b) /\ Makes(cs.ops, b) = Cat(p, Cat(u, w))
  BY <1>6, <1>12, <1>13, <1>15
<1> QED BY <1>16 DEF cs

\* Setting an attribute styles d behind p.
LEMMA SetFits ==
    ASSUME NEW C, NEW G, NEW p, NEW d, NEW w, NEW v \in Bolds, NEW u, NEW b, NEW n, NEW k, NEW m,
           Parts(C, G, b, n, p, k, d, m, w), Restyles(G, d, v, u)
    PROVE  /\ Fit(C, G, setAttribute(n, k, m, v), b)
           /\ Makes(setAttribute(n, k, m, v).ops, b) = Cat(p, Cat(u, w))
<1> DEFINE z == "none"
           e1 == keep(k, z)
           e2 == keep(m, v)
           s == <<e1, e2>>
           cs == setAttribute(n, k, m, v)
<1>0. /\ G \in SUBSET Cells(C) /\ p \in Seq(G) /\ d \in Seq(G) /\ w \in Seq(G)
      /\ n = Len(b) + 1 /\ k = Len(p) /\ m = Len(d)
  BY DEF Parts
<1>1. z \in Bolds
  BY DEF Bolds
<1>2. p \in Texts(C) /\ d \in Texts(C) /\ w \in Texts(C) /\ Nil \in Texts(C)
  BY <1>0, SomeTexts, NilTyped
<1>3. Styled(p, z) = p
  <2>1. p \in Seq(Cells(C))
    BY <1>2 DEF Texts
  <2> QED BY <2>1, StyledNot
<1>4. u = Styled(d, v) /\ u \in Seq(G)
  BY DEF Restyles
<1>5. Cat(d, w) \in Texts(C) /\ Cat(Nil, p) = p /\ b \in Seq(G)
  <2>1. Cat(d, w) \in Seq(G) /\ Cat(d, w) \in Texts(C)
    BY <1>0, <1>2, CatLaws, SomeTexts
  <2>2. Cat(p, Cat(d, w)) \in Texts(C) /\ Cat(Nil, p) = p
    BY <1>2, <2>1, CatLaws
  <2> QED BY <1>0, <1>2, <2>1, <2>2, SomeTexts DEF Parts
<1>6. cs = pack(n, Assemble(s))
  BY DEF setAttribute
<1> HIDE DEF z, cs
<1>7. e1 \in Loose(C) /\ Act(e1, State(Nil, Cat(p, Cat(d, w)))) = State(Cat(Nil, Styled(p, z)), Cat(d, w))
  BY <1>0, <1>1, <1>2, <1>5, LooseKeep
<1>8. Act(e1, State(Nil, b)) = State(p, Cat(d, w))
  BY <1>3, <1>5, <1>7 DEF Parts
<1>9. e2 \in Loose(C) /\ Act(e2, State(p, Cat(d, w))) = State(Cat(p, u), w) /\ u \in Texts(C)
  BY <1>0, <1>2, <1>4, LooseKeep
<1> HIDE DEF e1, e2
<1>11. s \in Seq(Loose(C)) /\ After(s, State(Nil, b)) = State(Cat(p, u), w)
  BY <1>7, <1>8, <1>9, AfterTwo
<1> HIDE DEF s
<1>12. FitsOn(s, b) /\ Makes(s, b) = Cat(Cat(p, u), w)
  <2> DEFINE o == Cat(p, u)
  <2> HIDE DEF o
  <2>1. After(s, State(Nil, b)) = State(o, w)
    BY <1>11 DEF o
  <2> QED BY <2>1, FoundMakes DEF o
<1>13. Cat(Cat(p, u), w) = Cat(p, Cat(u, w)) /\ Cat(p, u) \in Seq(G) /\ Cat(Cat(p, u), w) \in Seq(G)
  <2>1. Cat(Cat(p, u), w) = Cat(p, Cat(u, w)) /\ Cat(p, u) \in Texts(C)
    BY <1>2, <1>9, CatLaws
  <2>2. Cat(p, u) \in Seq(G)
    BY <1>0, <1>2, <1>4, <1>9, SomeTexts
  <2> QED BY <1>0, <1>2, <2>1, <2>2, SomeTexts
<1>14. Makes(s, b) \in Seq(G)
  BY <1>12, <1>13
<1>15. Fit(C, G, pack(n, Assemble(s)), b) /\ Makes(pack(n, Assemble(s)).ops, b) = Makes(s, b)
  <2>1. b \in Seq(G) /\ s \in Seq(Loose(C)) /\ FitsOn(s, b)
    BY <1>5, <1>11, <1>12
  <2> QED BY <1>0, <1>14, <2>1, PackFits, ZenonT(60)
<1>16. Fit(C, G, cs, b) /\ Makes(cs.ops, b) = Cat(p, Cat(u, w))
  BY <1>6, <1>12, <1>13, <1>15
<1> QED BY <1>16 DEF cs

-----------------------------------------------------------------------------
(* What the user of a browser does to a text of these characters. *)

Alphabet == Authors \cup {Newline}

\* No style is set on a newline.
Glyphs == {c \in Cells(Alphabet) : c.char = Newline => c.bold = "none"}

\* A changeset of the body b, that makes the text `text'.
Edited(cs, b, text) == Fit(Alphabet, Glyphs, cs, b) /\ text = Whole(Makes(cs.ops, b))

LEMMA GlyphsAre ==
    /\ Glyphs \in SUBSET Cells(Alphabet) /\ Newline \in Alphabet /\ Authors \subseteq Alphabet
    /\ End \in Seq(Glyphs) /\ Len(End) = 1 /\ End[1] = [char |-> Newline, bold |-> "none"]
    /\ Seq(Glyphs) \subseteq Texts(Alphabet) /\ Nil \in Seq(Glyphs)
<1>1. Glyphs \in SUBSET Cells(Alphabet) /\ Newline \in Alphabet /\ Authors \subseteq Alphabet
  BY DEF Glyphs, Alphabet
<1> DEFINE e == [char |-> Newline, bold |-> "none"]
<1>2. e \in Glyphs
  BY <1>1 DEF Glyphs, Cells, Bolds
<1> HIDE DEF e
<1>3. <<e>> \in Seq(Glyphs) /\ Len(<<e>>) = 1 /\ <<e>>[1] = e
  BY <1>2
<1>4. Seq(Glyphs) \subseteq Texts(Alphabet) /\ Nil \in Seq(Glyphs)
  BY <1>1, SomeTexts
<1> QED BY <1>1, <1>3, <1>4 DEF End, e

\* A text is longer than its body by the final newline.
LEMMA WholeGlyphs ==
    ASSUME NEW b \in Seq(Glyphs)
    PROVE  /\ Whole(b) \in Seq(Glyphs) /\ Len(b) \in Nat /\ Len(Whole(b)) = Len(b) + 1
           /\ \A i \in 1 .. Len(b) : Whole(b)[i] = b[i]
           /\ Whole(b)[Len(b) + 1] = [char |-> Newline, bold |-> "none"]
           /\ EndsInNewline(Whole(b)) /\ Front(Whole(b)) = b
<1> DEFINE G == Glyphs
           e == End
           t == b \o e
<1>1. e \in Seq(G) /\ Len(e) = 1 /\ e[1] = [char |-> Newline, bold |-> "none"]
  BY GlyphsAre
<1>2. t = Whole(b)
  BY DEF Whole, Cat
<1> HIDE DEF G, e
<1>3. t \in Seq(G) /\ Len(t) = Len(b) + Len(e) /\ Len(b) \in Nat
      /\ (\A i \in 1 .. Len(b) : t[i] = b[i]) /\ (\A i \in 1 .. Len(e) : t[Len(b) + i] = e[i])
  <2>1. b \in Seq(G)
    BY DEF G
  <2>2. e \in Seq(G)
    BY <1>1
  <2>3. t \in Seq(G) /\ Len(t) = Len(b) + Len(e)
    BY <2>1, <2>2
  <2>4. Len(b) \in Nat
    BY <2>1
  <2>5. \A i \in 1 .. Len(b) : t[i] = b[i]
    BY <2>1, <2>2
  <2>6. \A i \in 1 .. Len(e) : t[Len(b) + i] = e[i]
    BY <2>1, <2>2
  <2> QED BY <2>3, <2>4, <2>5, <2>6
<1>4. t[Len(b) + 1] = e[1] /\ Len(t) = Len(b) + 1
  BY <1>1, <1>3
<1> HIDE DEF t
<1>5. EndsInNewline(t)
  <2>1. t # <<>> /\ Last(t) = t[Len(t)]
    BY <1>3, <1>4 DEF Last
  <2>2. Last(t).char = Newline
    BY <1>1, <1>4, <2>1
  <2> QED BY <2>1, <2>2 DEF EndsInNewline
<1>6. Front(t) = b
  <2>1. Front(t) = SubSeq(t, 1, Len(t) - 1)
    BY DEF Front
  <2>2. Front(t) = Take(t, Len(b))
    BY <1>3, <1>4, <2>1 DEF Take
  <2>3. Len(b) \in 0 .. Len(b)
    BY <1>3
  <2>4. Take(b \o e, Len(b)) = b
    <3>1. b \in Seq(G)
      BY DEF G
    <3> QED BY <1>1, <2>3, <3>1, CutConcat
  <2> QED BY <2>2, <2>4 DEF t
<1> QED BY <1>1, <1>2, <1>3, <1>4, <1>5, <1>6 DEF G

LEMMA PlainIs ==
    ASSUME NEW t \in Seq(Alphabet)
    PROVE  Plain(t) = CellsOf(t, "none") /\ Plain(t) \in Seq(Glyphs) /\ Len(Plain(t)) = Len(t)
<1> DEFINE u == Plain(t)
<1>1. DOMAIN t = 1 .. Len(t) /\ Len(t) \in Nat
  OBVIOUS
<1>2. u = CellsOf(t, "none")
  BY <1>1 DEF Plain, CellsOf
<1>3. \A i \in 1 .. Len(t) : [char |-> t[i], bold |-> "none"] \in Glyphs
  BY DEF Glyphs, Cells, Bolds
<1>4. u = [i \in 1 .. Len(t) |-> [char |-> t[i], bold |-> "none"]]
  BY <1>1 DEF Plain
<1> DEFINE f(i) == [char |-> t[i], bold |-> "none"]
           v == [i \in 1 .. Len(t) |-> f(i)]
<1>5. v \in Seq(Glyphs) /\ Len(v) = Len(t)
  <2>1. \A i \in 1 .. Len(t) : f(i) \in Glyphs
    BY <1>3
  <2> HIDE DEF f
  <2> QED BY <1>1, <2>1, IsASeq
<1> QED BY <1>2, <1>4, <1>5

\* An edit before the final newline.
LEMMA SpliceInside ==
    ASSUME NEW b \in Seq(Glyphs), NEW start \in Nat, NEW ndel \in Nat, start + ndel <= Len(b),
           NEW ins \in Seq(Alphabet)
    PROVE  Edited(splice(Len(Whole(b)), start, ndel, ins, "none"), b, Spliced(Whole(b), start, ndel, ins))
<1> DEFINE G == Glyphs
           C == Alphabet
           t == Whole(b)
           n == Len(t)
           p == Take(b, start)
           r == Drop(b, start)
           d == Take(r, ndel)
           w == Drop(r, ndel)
           u == Plain(ins)
           cs == splice(n, start, ndel, ins, "none")
           text == Spliced(t, start, ndel, ins)
           m == start + ndel
<1>1. G \in SUBSET Cells(C) /\ End \in Seq(G) /\ Seq(G) \subseteq Texts(C)
  BY GlyphsAre
<1>2. t \in Seq(G) /\ Len(b) \in Nat /\ n = Len(b) + 1
  BY WholeGlyphs
<1>3. u = CellsOf(ins, "none") /\ u \in Seq(G)
  BY PlainIs
<1>4. start \in 0 .. Len(b) /\ m \in 0 .. Len(b) /\ m \in Nat /\ ndel \in 0 .. Len(b) - start
  BY <1>2
<1> HIDE DEF m
<1>5. p \in Seq(G) /\ Len(p) = start /\ r \in Seq(G) /\ Len(r) = Len(b) - start /\ Cat(p, r) = b
  BY <1>4, TakeDrop DEF Cat
<1>6. ndel \in 0 .. Len(r)
  BY <1>4, <1>5
<1> HIDE DEF r
<1>7. d \in Seq(G) /\ Len(d) = ndel /\ w \in Seq(G) /\ Cat(d, w) = r
  BY <1>5, <1>6, TakeDrop DEF Cat
<1> HIDE DEF p, d, w
<1>9. Fit(C, G, cs, b) /\ Makes(cs.ops, b) = Cat(p, Cat(u, w))
  <2>1. ins \in Seq(C)
    OBVIOUS
  <2>2. n = Len(b) + 1 /\ start = Len(p) /\ ndel = Len(d)
    BY <1>2, <1>5, <1>7
  <2> HIDE DEF G, C, u, t, n
  <2>3. Parts(C, G, b, n, p, start, d, ndel, w)
    BY <1>1, <1>5, <1>7, <2>2 DEF Parts
  <2>4. PutsIn(C, G, ins, u)
    BY <1>3, <2>1 DEF PutsIn
  <2> QED BY <2>3, <2>4, SpliceFits
<1>10. Take(t, start) = p
  <2>1. Take(b \o End, start) = Take(b, start)
    BY <1>1, <1>4, CutConcat
  <2> QED BY <2>1 DEF Whole, Cat, p
<1>11. Drop(t, m) = Cat(w, End)
  <2>1. Drop(b \o End, m) = Drop(b, m) \o End
    BY <1>1, <1>4, CutConcat
  <2>2. CutsTwice(C, b, start, ndel, m)
    <3>1. b \in Seq(Cells(C)) /\ ~(m > Len(b))
      BY <1>1, <1>2, <1>4 DEF Texts
    <3> QED BY <1>4, <3>1 DEF CutsTwice, m
  <2>3. Drop(Drop(b, start), ndel) = Drop(b, m)
    <3> HIDE DEF C
    <3> QED BY <2>2, CellsCutTwice
  <2> QED BY <2>1, <2>3 DEF Whole, Cat, w, r
<1>12. text = Cat(Cat(p, u), Cat(w, End))
  <2>1. SubSeq(t, 1, start) = p /\ SubSeq(t, start + ndel + 1, Len(t)) = Cat(w, End)
    BY <1>10, <1>11 DEF Take, Drop, m
  <2> HIDE DEF t, u
  <2> QED BY <2>1 DEF Spliced, Cat, u
<1>13. Cat(Cat(p, u), Cat(w, End)) = Cat(Cat(p, Cat(u, w)), End)
  <2>1. p \in Texts(C) /\ u \in Texts(C) /\ w \in Texts(C) /\ End \in Texts(C)
    BY <1>1, <1>3, <1>5, <1>7
  <2> HIDE DEF u, C
  <2>2. Cat(p, u) \in Texts(C) /\ Cat(u, w) \in Texts(C) /\ Cat(Cat(p, u), w) = Cat(p, Cat(u, w))
    BY <2>1, CatLaws
  <2>3. Cat(Cat(Cat(p, u), w), End) = Cat(Cat(p, u), Cat(w, End))
    BY <2>1, <2>2, CatLaws
  <2> QED BY <2>2, <2>3
<1>14. text = Whole(Makes(cs.ops, b))
  BY <1>9, <1>12, <1>13 DEF Whole
<1> QED BY <1>9, <1>14 DEF Edited


LEMMA SplicedIs ==
    ASSUME NEW t, NEW start, NEW ndel, NEW ins, NEW m, m = start + ndel
    PROVE  Spliced(t, start, ndel, ins) = Cat(Cat(Take(t, start), Plain(ins)), Drop(t, m))
BY DEF Spliced, Cat, Take, Drop

LEMMA TakeAll ==
    ASSUME NEW t \in Seq(Glyphs), NEW n, n = Len(t)
    PROVE  Take(t, n) = t /\ Drop(t, n) = Nil
<1>1. n \in Nat
  OBVIOUS
<1>2. Take(t, n) = t
  BY <1>1 DEF Take
<1>3. Drop(t, n) = Nil
  BY <1>1 DEF Drop, Nil
<1> QED BY <1>2, <1>3

LEMMA NoGlyphs == Plain(<<>>) = Nil
BY DEF Plain, Nil

LEMMA OneNewline == <<Newline>> \in Seq(Alphabet) /\ Plain(<<Newline>>) = End
<1> DEFINE t == <<Newline>>
           e == [char |-> Newline, bold |-> "none"]
<1>1. Newline \in Alphabet
  BY DEF Alphabet
<1>2. t \in Seq(Alphabet) /\ Len(t) = 1 /\ t[1] = Newline
  BY <1>1
<1>3. DOMAIN t = 1 .. 1
  BY <1>2
<1> HIDE DEF t
<1>4. Plain(t) = [i \in 1 .. 1 |-> e]
  <2>1. \A i \in 1 .. 1 : t[i] = Newline
    BY <1>2
  <2> QED BY <1>3, <2>1 DEF Plain
<1>5. [i \in 1 .. 1 |-> e] = <<e>>
  <2> HIDE DEF e
  <2> QED OBVIOUS
<1> QED BY <1>2, <1>4, <1>5 DEF t, End

\* A newline typed behind the final one goes before it.
LEMMA SpliceBehind ==
    ASSUME NEW b \in Seq(Glyphs), NEW n, n = Len(Whole(b)), NEW m, m = Len(b)
    PROVE  Edited(splice(n, m, 0, <<Newline>>, "none"), b, Spliced(Whole(b), n, 0, <<Newline>>))
<1> DEFINE t == Whole(b)
           ins == <<Newline>>
           C == Alphabet
           z == 0
<1>1. t \in Seq(Glyphs) /\ m \in Nat /\ n = m + 1 /\ n \in Nat
  BY WholeGlyphs
<1>2. ins \in Seq(Alphabet) /\ Plain(ins) = End
  BY OneNewline
<1>3. b \in Texts(C) /\ t \in Texts(C) /\ End \in Texts(C) /\ Nil \in Texts(C)
  BY <1>1, GlyphsAre, NilTyped
<1>4. Take(t, n) = t /\ Drop(t, n) = Nil
  BY <1>1, TakeAll
<1>5. Take(t, m) = b /\ Drop(t, m) = End
  <2>1. m \in 0 .. Len(b) /\ End \in Seq(Glyphs)
    BY <1>1, GlyphsAre
  <2>2. Take(b \o End, m) = b /\ Drop(b \o End, m) = End
    BY <2>1, CutConcat
  <2> QED BY <2>2 DEF Whole, Cat
<1>6. z \in Nat /\ n = n + z /\ m = m + z /\ m + z <= Len(b)
  BY <1>1
<1> HIDE DEF z, ins
<1>7. Spliced(t, n, z, ins) = Cat(Cat(t, End), Nil)
  BY <1>2, <1>4, <1>6, SplicedIs
<1>8. Spliced(t, m, z, ins) = Cat(Cat(b, End), End)
  BY <1>2, <1>5, <1>6, SplicedIs
<1>9. Spliced(t, n, z, ins) = Spliced(t, m, z, ins)
  <2> HIDE DEF t, C
  <2>1. Cat(t, End) \in Texts(C)
    BY <1>3, CatLaws
  <2>2. Cat(Cat(t, End), Nil) = Cat(t, End)
    BY <1>3, <2>1, CatLaws
  <2>3. t = Cat(b, End)
    BY DEF t, Whole
  <2> QED BY <1>7, <1>8, <2>2, <2>3
<1>10. Edited(splice(Len(t), m, z, ins, "none"), b, Spliced(t, m, z, ins))
  BY <1>1, <1>2, <1>6, SpliceInside
<1> QED BY <1>9, <1>10 DEF z, ins

\* Of two newlines that end a text, either may be removed.
LEMMA SpliceLast ==
    ASSUME NEW b \in Seq(Glyphs), EndsInNewline(b), NEW n, n = Len(Whole(b)), NEW m, m = Len(b),
           NEW k, k + 1 = m, k \in Nat
    PROVE  Edited(splice(n, k, 1, <<>>, "none"), b, Spliced(Whole(b), m, 1, <<>>))
<1> DEFINE t == Whole(b)
           ins == <<>>
           C == Alphabet
           z == 1
           f == Front(b)
<1>1. t \in Seq(Glyphs) /\ m \in Nat /\ n = m + 1 /\ n \in Nat
  BY WholeGlyphs
<1>2. ins \in Seq(Alphabet) /\ Plain(ins) = Nil
  BY NoGlyphs
<1>3. b \in Texts(C) /\ t \in Texts(C) /\ End \in Texts(C) /\ Nil \in Texts(C)
  BY <1>1, GlyphsAre, NilTyped
<1>4. b = Cat(f, End) /\ f \in Seq(Glyphs)
  <2> DEFINE G == Glyphs
  <2>1. b # <<>> /\ Last(b).char = Newline
    BY DEF EndsInNewline
  <2>2. f \in Seq(G) /\ Last(b) \in G /\ b = Append(f, Last(b))
    <3> HIDE DEF G, f
    <3>1. b \in Seq(G)
      BY DEF G
    <3> QED BY <2>1, <3>1, FrontLast DEF f
  <2>3. Last(b) = [char |-> Newline, bold |-> "none"]
    BY <2>1, <2>2 DEF Glyphs, Cells
  <2>4. Append(f, Last(b)) = f \o <<Last(b)>>
    <3> HIDE DEF G, f
    <3> QED BY <2>2
  <2> QED BY <2>2, <2>3, <2>4 DEF Cat, End
<1>5. Len(f) = k
  <2>1. Len(Whole(f)) = Len(f) + 1 /\ Len(f) \in Nat
    <3> HIDE DEF f
    <3> QED BY <1>4, WholeGlyphs
  <2>2. Whole(f) = b
    BY <1>4 DEF Whole
  <2> QED BY <2>1, <2>2
<1> HIDE DEF f
<1>6. Take(t, k) = f /\ Take(t, m) = b /\ Drop(t, m) = End /\ Drop(t, n) = Nil
  <2>1. m \in 0 .. Len(b) /\ k \in 0 .. Len(b) /\ k \in 0 .. Len(f) /\ End \in Seq(Glyphs)
    BY <1>1, <1>5, GlyphsAre
  <2>2. Take(b \o End, m) = b /\ Drop(b \o End, m) = End /\ Take(b \o End, k) = Take(b, k)
    BY <2>1, CutConcat
  <2>3. Take(f \o End, k) = f
    BY <1>4, <1>5, <2>1, CutConcat
  <2>4. Drop(t, n) = Nil
    BY <1>1, TakeAll
  <2> QED BY <1>4, <2>2, <2>3, <2>4 DEF Whole, Cat
<1>7. z \in Nat /\ m = k + z /\ n = m + z /\ k + z <= Len(b)
  BY <1>1
<1> HIDE DEF z, ins
<1>8. Spliced(t, m, z, ins) = Cat(Cat(b, Nil), Nil)
  BY <1>2, <1>6, <1>7, SplicedIs
<1>9. Spliced(t, k, z, ins) = Cat(Cat(f, Nil), End)
  BY <1>2, <1>6, <1>7, SplicedIs
<1>10. Spliced(t, m, z, ins) = Spliced(t, k, z, ins)
  <2>1. f \in Texts(C)
    BY <1>4, GlyphsAre
  <2> HIDE DEF t, C
  <2>2. Cat(b, Nil) = b /\ Cat(f, Nil) = f
    BY <1>3, <2>1, CatLaws
  <2> QED BY <1>4, <1>8, <1>9, <2>2
<1>11. Edited(splice(Len(t), k, z, ins, "none"), b, Spliced(t, k, z, ins))
  BY <1>1, <1>2, <1>7, SpliceInside
<1> QED BY <1>10, <1>11 DEF z, ins


\* What a splice of the user is.
LEMMA SplicesAre ==
    ASSUME NEW a \in Authors, NEW n \in Nat, n = Len(doc[a]), NEW s \in Splices(a)
    PROVE  /\ s.start \in Nat /\ s.ndel \in {0, 1} /\ s.ins \in Seq(Alphabet) /\ s.start + s.ndel <= n
           /\ s.ndel = 0 => s.ins = <<a>> \/ s.ins = <<Newline>>
           /\ s.ndel = 1 /\ s.start + 1 = n => s.ins = <<>>
<1>1. a \in Alphabet /\ Newline \in Alphabet
  BY DEF Alphabet
<1>2. <<a>> \in Seq(Alphabet) /\ <<Newline>> \in Seq(Alphabet) /\ <<>> \in Seq(Alphabet)
  BY <1>1
<1> DEFINE t == doc[a]
           A == [start : 0 .. Len(t), ndel : {0}, ins : Insertions(a)]
           B == [start : 0 .. Len(t) - 1, ndel : {1}, ins : {<<>>}]
           D == [start : 0 .. Len(t) - 2, ndel : {1}, ins : {<<a>>}]
<1>3. s \in A \/ s \in B \/ s \in D
  BY DEF Splices
<1>4. CASE s \in A
  <2>1. s.start \in 0 .. n /\ s.ndel = 0 /\ s.ins \in Insertions(a)
    BY <1>4
  <2>2. s.ins = <<a>> \/ s.ins = <<Newline>>
    BY <2>1 DEF Insertions
  <2>3. s.ins \in Seq(Alphabet)
    BY <1>2, <2>2
  <2>4. s.start \in Nat /\ s.start + s.ndel <= n
    BY <2>1
  <2> QED BY <2>1, <2>2, <2>3, <2>4
<1>5. CASE s \in B
  <2>1. s.start \in 0 .. n - 1 /\ s.ndel = 1 /\ s.ins = <<>>
    BY <1>5
  <2> QED BY <1>2, <2>1
<1>6. CASE s \in D
  <2>1. s.start \in 0 .. n - 2 /\ s.ndel = 1 /\ s.ins = <<a>>
    BY <1>6
  <2> QED BY <1>2, <2>1
<1> QED BY <1>3, <1>4, <1>5, <1>6

\* The changeset of every splice fits the body of the text, and makes of it what
\* the editor makes of it.
LEMMA TypeFits ==
    ASSUME NEW a \in Authors, NEW b \in Seq(Glyphs), doc[a] = Whole(b), NEW s \in Splices(a),
           EndsInNewline(Spliced(doc[a], s.start, s.ndel, s.ins))
    PROVE  Edited(Adjusted(doc[a], s.start, s.ndel, s.ins), b, Spliced(doc[a], s.start, s.ndel, s.ins))
<1> DEFINE t == Whole(b)
           n == Len(t)
           m == Len(b)
           start == s.start
           ndel == s.ndel
           ins == s.ins
           z == 0
           o == 1
<1>1. t \in Seq(Glyphs) /\ m \in Nat /\ n = m + 1 /\ n \in Nat
  BY WholeGlyphs
<1>2. /\ start \in Nat /\ ndel \in {0, 1} /\ ins \in Seq(Alphabet) /\ start + ndel <= n
      /\ ndel = 0 => ins = <<a>> \/ ins = <<Newline>>
      /\ ndel = 1 /\ start + 1 = n => ins = <<>>
  BY <1>1, SplicesAre
<1>3. EndsInNewline(Spliced(t, start, ndel, ins))
  OBVIOUS
<1> SUFFICES Edited(Adjusted(t, start, ndel, ins), b, Spliced(t, start, ndel, ins))
  OBVIOUS
<1> HIDE DEF t, start, ndel, ins
<1>4. CASE start + ndel <= m
  <2>1. Adjusted(t, start, ndel, ins) = splice(n, start, ndel, ins, "none")
    <3>1. start + ndel # n /\ start # n
      BY <1>1, <1>2, <1>4
    <3> HIDE DEF n
    <3> QED BY <3>1 DEF Adjusted, n
  <2>2. ndel \in Nat
    BY <1>2
  <2> QED BY <1>2, <1>4, <2>1, <2>2, SpliceInside DEF t
<1>5. CASE start + ndel = n /\ ndel = 0
  <2>1. start = n /\ ndel = z /\ Len(t) = n
    BY <1>1, <1>2, <1>5
  <2>2. Take(t, start) = t /\ Drop(t, start) = Nil
    BY <1>1, <2>1, TakeAll
  <2>3. start = start + ndel
    BY <1>2, <1>5
  <2>4. Spliced(t, start, ndel, ins) = Cat(Cat(t, Plain(ins)), Nil)
    BY <2>2, <2>3, SplicedIs
  <2>5. ins = <<Newline>>
    <3> SUFFICES ASSUME ins = <<a>>
                 PROVE  a = Newline
      BY <1>2, <1>5
    <3> DEFINE c == [char |-> a, bold |-> "none"]
               u == Plain(ins)
    <3>1. u \in Seq(Glyphs) /\ Len(u) = Len(ins)
      BY <1>2, PlainIs
    <3>2. Len(ins) = 1 /\ ins[1] = a /\ DOMAIN ins = 1 .. 1
      OBVIOUS
    <3>3. u[1] = c
      BY <3>2 DEF Plain
    <3> HIDE DEF u, c
    <3>4. Cat(t, u) \in Seq(Glyphs) /\ Len(Cat(t, u)) = n + 1 /\ Cat(t, u)[n + 1] = u[1]
      <4> DEFINE G == Glyphs
      <4>1. t \in Seq(G) /\ u \in Seq(G)
        BY <1>1, <3>1
      <4>4. Len(u) = 1 /\ 1 \in 1 .. Len(u)
        BY <3>1, <3>2
      <4> HIDE DEF G
      <4>2. t \o u \in Seq(G) /\ Len(t \o u) = Len(t) + Len(u) /\ Len(t) \in Nat
        BY <4>1
      <4>3. \A i \in 1 .. Len(u) : (t \o u)[Len(t) + i] = u[i]
        BY <4>1
      <4> QED BY <4>2, <4>3, <4>4 DEF Cat, G
    <3> DEFINE v == Cat(t, u)
    <3>5. Cat(v, Nil) = v
      <4>1. v \in Texts(Alphabet)
        BY <3>4, GlyphsAre
      <4> HIDE DEF v
      <4> QED BY <4>1, NilTyped, CatLaws
    <3> HIDE DEF v
    <3>6. Last(v).char = Newline
      BY <1>3, <2>4, <3>5 DEF EndsInNewline, v, u
    <3>7. Last(v) = u[1]
      BY <1>1, <3>4 DEF Last, v
    <3> QED BY <3>3, <3>6, <3>7 DEF c
  <2>6. Adjusted(t, start, ndel, ins) = splice(n, m, 0, <<Newline>>, "none")
    <3>1. ins # <<>> /\ ndel = 0 /\ start = Len(t)
      BY <2>1, <2>5
    <3>2. <<Newline>> \o Front(ins) = <<Newline>>
      <4>1. Front(ins) = <<>>
        BY <2>5 DEF Front
      <4>2. <<Newline>> \in Seq(Alphabet)
        BY OneNewline
      <4> DEFINE v == <<Newline>>
      <4> HIDE DEF v
      <4>3. v \o <<>> = v
        BY <4>2 DEF v
      <4> QED BY <4>1, <4>3 DEF v
    <3>3. start - 1 = m
      BY <1>1, <2>1
    <3>4. Adjusted(t, start, ndel, ins) = splice(n, start - 1, 0, <<Newline>> \o Front(ins), "none")
      BY <3>1 DEF Adjusted
    <3> QED BY <3>2, <3>3, <3>4
  <2>7. Edited(splice(n, m, 0, <<Newline>>, "none"), b, Spliced(t, n, 0, <<Newline>>))
    BY SpliceBehind DEF t
  <2> QED BY <2>1, <2>5, <2>6, <2>7
<1>6. CASE start + ndel = n /\ ndel = 1
  <2>1. start = m /\ ndel = o /\ ins = <<>> /\ n = m + 1
    BY <1>1, <1>2, <1>6
  <2> DEFINE c == Spliced(t, start, ndel, ins)
  <2>2. c = b
    <3>1. n = start + ndel
      BY <1>6
    <3>2. Drop(t, n) = Nil
      BY <1>1, TakeAll
    <3>3. Take(t, m) = b
      <4>1. m \in 0 .. Len(b) /\ End \in Seq(Glyphs)
        BY <1>1, GlyphsAre
      <4>2. Take(b \o End, m) = b
        BY <4>1, CutConcat
      <4> QED BY <4>2 DEF t, Whole, Cat
    <3>4. c = Cat(Cat(b, Nil), Nil)
      BY <2>1, <3>1, <3>2, <3>3, SplicedIs, NoGlyphs
    <3>5. Cat(b, Nil) = b
      <4>1. b \in Texts(Alphabet)
        BY GlyphsAre
      <4> QED BY <4>1, NilTyped, CatLaws
    <3> QED BY <3>4, <3>5
  <2>3. EndsInNewline(b)
    BY <1>3, <2>2
  <2>4. b # <<>> /\ b[m].char = Newline
    BY <2>3 DEF EndsInNewline, Last
  <2>5. m > 0
    BY <1>1, <2>4
  <2>6. t[m] = b[m]
    <3>1. m \in 1 .. Len(b)
      BY <1>1, <2>5
    <3> QED BY <3>1, WholeGlyphs DEF t
  <2> DEFINE k == m - 1
  <2>7. k \in Nat /\ k + 1 = m
    BY <1>1, <2>5
  <2>8. Adjusted(t, start, ndel, ins) = splice(n, k, 1, <<>>, "none")
    <3>1. /\ ~(ndel = 0 /\ start = Len(t) /\ ins # <<>>)
          /\ start + ndel = Len(t) /\ ndel > 0 /\ ins = <<>> /\ start > 0 /\ t[start].char = Newline
      BY <1>6, <2>1, <2>4, <2>5, <2>6
    <3>2. Adjusted(t, start, ndel, ins) = splice(n, start - 1, ndel, ins, "none")
      BY <3>1 DEF Adjusted
    <3> QED BY <2>1, <3>2
  <2> HIDE DEF k
  <2>9. Edited(splice(n, k, 1, <<>>, "none"), b, Spliced(t, m, 1, <<>>))
    BY <2>3, <2>7, SpliceLast DEF t
  <2> QED BY <2>1, <2>8, <2>9
<1> QED BY <1>1, <1>2, <1>4, <1>5, <1>6


LEMMA ConcatIs ==
    ASSUME NEW S, NEW p \in Seq(S), NEW q \in Seq(S)
    PROVE  /\ p \o q \in Seq(S) /\ Len(p \o q) = Len(p) + Len(q) /\ Len(p) \in Nat /\ Len(q) \in Nat
           /\ \A j \in 1 .. Len(p) : (p \o q)[j] = p[j]
           /\ \A j \in 1 .. Len(q) : (p \o q)[Len(p) + j] = q[j]
<1>1. p \o q \in Seq(S) /\ Len(p \o q) = Len(p) + Len(q)
  OBVIOUS
<1>2. Len(p) \in Nat /\ Len(q) \in Nat
  OBVIOUS
<1>3. \A j \in 1 .. Len(p) : (p \o q)[j] = p[j]
  OBVIOUS
<1>4. \A j \in 1 .. Len(q) : (p \o q)[Len(p) + j] = q[j]
  OBVIOUS
<1> QED BY <1>1, <1>2, <1>3, <1>4

\* Three parts and what is behind them, character by character.
InRow(x, p, u, w, e, k) == x = (p \o (u \o w)) \o e /\ Len(u) = 1 /\ k = Len(p)

LEMMA PartsAt ==
    ASSUME NEW S, NEW p \in Seq(S), NEW u \in Seq(S), NEW w \in Seq(S), NEW e \in Seq(S),
           NEW k, NEW x, InRow(x, p, u, w, e, k)
    PROVE  /\ x \in Seq(S) /\ Len(x) = k + 1 + Len(w) + Len(e) /\ k \in Nat /\ Len(w) \in Nat
           /\ \A j \in 1 .. k : x[j] = p[j]
           /\ x[k + 1] = u[1]
           /\ \A j \in 1 .. Len(w) : x[k + 1 + j] = w[j]
           /\ \A j \in 1 .. Len(e) : x[k + 1 + Len(w) + j] = e[j]
<1> DEFINE y == u \o w
           z == p \o y
<1>1. /\ y \in Seq(S) /\ Len(y) = Len(u) + Len(w) /\ Len(u) \in Nat /\ Len(w) \in Nat
      /\ \A j \in 1 .. Len(u) : y[j] = u[j]
      /\ \A j \in 1 .. Len(w) : y[Len(u) + j] = w[j]
  BY ConcatIs
<1>2. \A j \in 1 .. Len(w) : y[Len(u) + j] = w[j]
  BY <1>1
<1> HIDE DEF y
<1>3. /\ z \in Seq(S) /\ Len(z) = Len(p) + Len(y) /\ Len(p) \in Nat
      /\ \A j \in 1 .. Len(p) : z[j] = p[j]
      /\ \A j \in 1 .. Len(y) : z[Len(p) + j] = y[j]
  <2>1. y \in Seq(S)
    BY <1>1
  <2> QED BY <2>1, ConcatIs
<1>4. (\A j \in 1 .. Len(p) : z[j] = p[j]) /\ (\A j \in 1 .. Len(y) : z[Len(p) + j] = y[j])
  BY <1>3
<1>5. x = z \o e
  BY DEF y, InRow
<1> HIDE DEF z
<1>6. /\ x \in Seq(S) /\ Len(x) = Len(z) + Len(e) /\ Len(e) \in Nat
      /\ \A j \in 1 .. Len(z) : x[j] = z[j]
      /\ \A j \in 1 .. Len(e) : x[Len(z) + j] = e[j]
  <2> DEFINE v == z \o e
  <2>1. z \in Seq(S)
    BY <1>3
  <2>2. /\ v \in Seq(S) /\ Len(v) = Len(z) + Len(e) /\ Len(e) \in Nat
        /\ \A j \in 1 .. Len(z) : v[j] = z[j]
        /\ \A j \in 1 .. Len(e) : v[Len(z) + j] = e[j]
    BY <2>1, ConcatIs
  <2> QED BY <1>5, <2>2
<1>7. (\A j \in 1 .. Len(z) : x[j] = z[j]) /\ (\A j \in 1 .. Len(e) : x[Len(z) + j] = e[j])
  BY <1>6
<1>8. k \in Nat /\ k = Len(p) /\ Len(u) = 1 /\ Len(y) = 1 + Len(w) /\ Len(z) = k + 1 + Len(w)
  BY <1>1, <1>3 DEF InRow
<1>9. \A j \in 1 .. k : x[j] = p[j]
  <2> TAKE j \in 1 .. k
  <2>1. Len(w) \in Nat
    BY <1>1
  <2>2. j \in 1 .. Len(z) /\ j \in 1 .. Len(p)
    BY <1>8, <2>1
  <2> QED BY <1>4, <1>7, <2>2
<1>10. x[k + 1] = u[1]
  <2>1. Len(w) \in Nat
    BY <1>1
  <2>2. 1 \in 1 .. Len(u) /\ 1 \in 1 .. Len(y) /\ k + 1 \in 1 .. Len(z)
    BY <1>8, <2>1
  <2>3. y[1] = u[1]
    BY <1>1, <2>2
  <2>4. z[k + 1] = y[1]
    BY <1>4, <1>8, <2>2
  <2>5. x[k + 1] = z[k + 1]
    BY <1>7, <2>2
  <2> QED BY <2>3, <2>4, <2>5
<1>11. \A j \in 1 .. Len(w) : x[k + 1 + j] = w[j]
  <2> TAKE j \in 1 .. Len(w)
  <2>0. Len(w) \in Nat /\ j \in Nat
    BY <1>1
  <2>1. 1 + j \in 1 .. Len(y) /\ k + (1 + j) \in 1 .. Len(z) /\ k + (1 + j) = k + 1 + j
    BY <1>8, <2>0
  <2>2. x[k + (1 + j)] = z[k + (1 + j)]
    BY <1>7, <2>1
  <2>3. z[k + (1 + j)] = y[1 + j]
    BY <1>4, <1>8, <2>1
  <2>4. y[1 + j] = w[j]
    BY <1>2, <1>8
  <2> QED BY <2>1, <2>2, <2>3, <2>4
<1>12. \A j \in 1 .. Len(e) : x[k + 1 + Len(w) + j] = e[j]
  BY <1>7, <1>8
<1> QED BY <1>1, <1>6, <1>8, <1>9, <1>10, <1>11, <1>12

\* Setting and removing a style.
LEMMA SetBold ==
    ASSUME NEW c \in Glyphs, c.char # Newline,
           NEW v, v = IF c.bold = "none" THEN "true" ELSE "off",
           NEW y, y = IF c.bold = "none" THEN "true" ELSE "none"
    PROVE  /\ v \in Bolds /\ StyledCell(c, v) = [c EXCEPT !.bold = y]
           /\ [c EXCEPT !.bold = y] \in Glyphs
<1>1. c.char \in Alphabet /\ c.bold \in Bolds /\ c = [char |-> c.char, bold |-> c.bold]
  BY DEF Glyphs, Cells
<1>2. [c EXCEPT !.bold = y] = [char |-> c.char, bold |-> y]
  BY <1>1
<1>3. v \in Bolds /\ y \in Bolds /\ composeAttributes(c.bold, v, FALSE) = y
  BY DEF Bolds, composeAttributes
<1>4. StyledCell(c, v) = [char |-> c.char, bold |-> y]
  BY <1>3 DEF StyledCell
<1>5. [char |-> c.char, bold |-> y] \in Glyphs
  BY <1>1, <1>3 DEF Glyphs, Cells
<1> QED BY <1>2, <1>3, <1>4, <1>5

LEMMA EmboldenFits ==
    ASSUME NEW b \in Seq(Glyphs), NEW t, t = Whole(b), NEW i \in 1 .. Len(t) - 1,
           t[i].char # Newline,
           NEW v, v = IF t[i].bold = "none" THEN "true" ELSE "off",
           NEW y, y = IF t[i].bold = "none" THEN "true" ELSE "none"
    PROVE  Edited(setAttribute(Len(t), i - 1, 1, v), b, [t EXCEPT ![i].bold = y])
<1> DEFINE G == Glyphs
           C == Alphabet
           n == Len(t)
           k == i - 1
           m == 1
           p == Take(b, k)
           r == Drop(b, k)
           d == Take(r, m)
           w == Drop(r, m)
           u == Styled(d, v)
           cs == setAttribute(n, k, m, v)
           c == t[i]
           cc == [c EXCEPT !.bold = y]
           q == [t EXCEPT ![i].bold = y]
           x == (p \o (u \o w)) \o End
<1>1. G \in SUBSET Cells(C) /\ End \in Seq(G) /\ Len(End) = 1 /\ Seq(G) \subseteq Texts(C)
  BY GlyphsAre
<1>2. t \in Seq(G) /\ Len(b) \in Nat /\ n = Len(b) + 1 /\ (\A j \in 1 .. Len(b) : t[j] = b[j])
      /\ t[Len(b) + 1] = [char |-> Newline, bold |-> "none"]
  BY WholeGlyphs
<1>3. i \in 1 .. Len(b) /\ i \in Nat /\ k \in Nat /\ k \in 0 .. Len(b) /\ k + 1 = i /\ i \in 1 .. n /\ k < Len(b)
  BY <1>2
<1>4. c \in G
  BY <1>2, <1>3
<1>5. v \in Bolds /\ StyledCell(c, v) = cc /\ cc \in G
  BY <1>4, SetBold
<1> HIDE DEF k
<1>6. p \in Seq(G) /\ Len(p) = k /\ r \in Seq(G) /\ Len(r) = Len(b) - k /\ Cat(p, r) = b
      /\ (\A j \in 1 .. k : p[j] = b[j]) /\ (\A j \in 1 .. Len(b) - k : r[j] = b[k + j])
  BY <1>3, TakeDrop, SMTT(30) DEF Cat
<1>7. m \in 0 .. Len(r)
  BY <1>3, <1>6
<1> HIDE DEF r
<1>8. d \in Seq(G) /\ Len(d) = m /\ w \in Seq(G) /\ Len(w) = Len(r) - m /\ Cat(d, w) = r
      /\ (\A j \in 1 .. m : d[j] = r[j]) /\ (\A j \in 1 .. Len(r) - m : w[j] = r[m + j])
  BY <1>6, <1>7, TakeDrop, ZenonT(60) DEF Cat
<1>9. d[1] = c
  <2>1. 1 \in 1 .. m /\ 1 \in 1 .. Len(b) - k /\ k + 1 = i
    BY <1>2, <1>3
  <2>2. d[1] = r[1]
    BY <1>8, <2>1
  <2>3. r[1] = b[k + 1]
    BY <1>6, <2>1
  <2>4. t[i] = b[i]
    BY <1>2, <1>3
  <2> QED BY <2>1, <2>2, <2>3, <2>4
<1> HIDE DEF p, d, w
<1>10. u \in Seq(G) /\ Len(u) = 1 /\ u[1] = cc
  <2>1. d \in Seq(Cells(C))
    BY <1>1, <1>8 DEF Texts
  <2>2. u \in Seq(Cells(C)) /\ Len(u) = Len(d) /\ \A j \in 1 .. Len(d) : u[j] = StyledCell(d[j], v)
    <3> HIDE DEF C
    <3> QED BY <1>5, <2>1, StyledSeq
  <2>3. Len(u) = 1 /\ u[1] = cc
    BY <1>5, <1>8, <1>9, <2>2
  <2>4. \A j \in 1 .. Len(u) : u[j] \in G
    BY <1>5, <2>3
  <2> HIDE DEF u, G
  <2>5. u \in Seq(G)
    BY <2>2, <2>4
  <2> QED BY <2>3, <2>5
<1>11. Fit(C, G, cs, b) /\ Makes(cs.ops, b) = Cat(p, Cat(u, w))
  <2>1. Parts(C, G, b, n, p, k, d, m, w)
    BY <1>1, <1>2, <1>6, <1>8 DEF Parts
  <2>2. Restyles(G, d, v, u)
    BY <1>10, SMTT(30) DEF Restyles
  <2> HIDE DEF C, G, n, m, u
  <2> QED BY <1>5, <2>1, <2>2, SetFits
<1>12. Whole(Makes(cs.ops, b)) = x
  BY <1>11 DEF Whole, Cat
<1> HIDE DEF u
<1>13. /\ x \in Seq(G) /\ Len(x) = k + 1 + Len(w) + 1 /\ Len(w) \in Nat
       /\ \A j \in 1 .. k : x[j] = p[j]
       /\ x[k + 1] = u[1]
       /\ \A j \in 1 .. Len(w) : x[k + 1 + j] = w[j]
       /\ x[k + 1 + Len(w) + 1] = End[1]
  <2> HIDE DEF G, x
  <2>1. /\ x \in Seq(G) /\ Len(x) = k + 1 + Len(w) + Len(End) /\ Len(w) \in Nat
        /\ \A j \in 1 .. k : x[j] = p[j]
        /\ x[k + 1] = u[1]
        /\ \A j \in 1 .. Len(w) : x[k + 1 + j] = w[j]
        /\ \A j \in 1 .. Len(End) : x[k + 1 + Len(w) + j] = End[j]
    <3>1. InRow(x, p, u, w, End, k)
      BY <1>6, <1>10 DEF x, InRow
    <3>2. p \in Seq(G) /\ w \in Seq(G) /\ u \in Seq(G) /\ End \in Seq(G)
      BY <1>1, <1>6, <1>8, <1>10
    <3> QED BY <3>1, <3>2, PartsAt
  <2>2. 1 \in 1 .. Len(End)
    BY <1>1
  <2> QED BY <1>1, <2>1, <2>2
<1> HIDE DEF x, cc
<1>14. q \in Seq(G) /\ Len(q) = n /\ \A j \in 1 .. n : q[j] = IF j = i THEN cc ELSE t[j]
  <2>1. DOMAIN t = 1 .. n
    BY <1>2
  <2>2. q = [j \in 1 .. n |-> IF j = i THEN cc ELSE t[j]]
    BY <2>1 DEF cc
  <2>3. \A j \in 1 .. n : (IF j = i THEN cc ELSE t[j]) \in G
    BY <1>2, <1>5
  <2> DEFINE f(j) == IF j = i THEN cc ELSE t[j]
             g == [j \in 1 .. n |-> f(j)]
  <2>4. \A j \in 1 .. n : f(j) \in G
    BY <2>3
  <2>5. g \in Seq(G) /\ Len(g) = n /\ \A j \in 1 .. n : g[j] = f(j)
    <3>1. n \in Nat
      BY <1>2
    <3> HIDE DEF f, G, n
    <3> QED BY <2>4, <3>1, IsASeq
  <2> QED BY <2>2, <2>5
<1>15. Len(x) = Len(q) /\ \A j \in 1 .. Len(x) : x[j] = q[j]
  <2>1. Len(w) = Len(b) - k - 1
    BY <1>6, <1>8
  <2>2. Len(x) = n /\ Len(q) = n /\ n = k + 1 + Len(w) + 1
    BY <1>2, <1>3, <1>13, <1>14, <2>1, SMTT(30)
  <2>3. SUFFICES ASSUME NEW j \in 1 .. n PROVE x[j] = q[j]
    BY <2>2
  <2>4. j \in 1 .. k \/ j = k + 1 \/ (j > k + 1 /\ j <= k + 1 + Len(w)) \/ j = k + 1 + Len(w) + 1
    <3>1. k \in Nat /\ Len(w) \in Nat /\ n = k + 1 + Len(w) + 1
      BY <1>3, <1>13, <2>2
    <3> HIDE DEF n
    <3> QED BY <3>1
  <2>5. CASE j \in 1 .. k
    <3>1. j # i /\ j \in 1 .. Len(b) /\ q[j] = t[j] /\ t[j] = b[j]
      BY <1>2, <1>3, <1>14, <2>5
    <3> QED BY <1>6, <1>13, <2>5, <3>1
  <2>6. CASE j = k + 1
    BY <1>3, <1>10, <1>13, <1>14, <2>6
  <2>7. CASE j > k + 1 /\ j <= k + 1 + Len(w)
    <3> DEFINE l == j - (k + 1)
    <3>1. l \in 1 .. Len(w) /\ k + 1 + l = j /\ l \in 1 .. Len(r) - m /\ m + l \in 1 .. Len(b) - k /\ k + (m + l) = j
      BY <1>3, <1>6, <1>8, <1>13, <2>1, <2>7
    <3> HIDE DEF l, m
    <3>2. x[j] = w[l]
      BY <1>13, <3>1
    <3>3. w[l] = r[m + l]
      BY <1>8, <3>1
    <3>4. r[m + l] = b[k + (m + l)]
      BY <1>6, <3>1
    <3>5. j # i /\ j \in 1 .. Len(b)
      BY <1>2, <1>3, <2>1, <2>7
    <3>6. q[j] = b[j]
      BY <1>2, <1>14, <3>5
    <3> QED BY <3>1, <3>2, <3>3, <3>4, <3>6
  <2>8. CASE j = k + 1 + Len(w) + 1
    <3>1. j = n /\ j # i /\ j = Len(b) + 1
      BY <1>2, <1>3, <2>2, <2>8, SMTT(30)
    <3>2. q[j] = t[j]
      BY <1>14, <3>1
    <3>3. x[j] = End[1]
      BY <1>13, <2>8
    <3> QED BY <1>2, <3>1, <3>2, <3>3, GlyphsAre
  <2> QED BY <2>4, <2>5, <2>6, <2>7, <2>8
<1>16. x = q
  <2> HIDE DEF q, G
  <2> QED BY <1>13, <1>14, <1>15, SeqEqual
<1> QED BY <1>11, <1>12, <1>16 DEF Edited, k

-----------------------------------------------------------------------------
(* Texts and changesets, as the tracker keeps them. *)

\* A text without its final newline, and a list of runs that shows it.
Body(s)         == Front(Chars(s))
ShowsBody(s, b) == b \in Seq(Glyphs) /\ Shows(Alphabet, s, Whole(b))

\* A changeset fits a body, and what it makes of it.
FitsBody(cs, b) == Fit(Alphabet, Glyphs, cs, b)
Put(cs, b)      == Makes(cs.ops, b)

LEMMA ShownIs ==
    ASSUME NEW s, NEW b, ShowsBody(s, b)
    PROVE  /\ b \in Seq(Glyphs) /\ Chars(s) = Whole(b) /\ Body(s) = b /\ Length(s) = Len(b) + 1
           /\ EndsInNewline(Chars(s))
<1>1. b \in Seq(Glyphs) /\ Shows(Alphabet, s, Whole(b))
  BY DEF ShowsBody
<1> DEFINE t == Whole(b)
           C == Alphabet
<1>2. EndsInNewline(t) /\ Front(t) = b /\ Len(t) = Len(b) + 1
  BY <1>1, WholeGlyphs
<1>3. Shows(C, s, t)
  BY <1>1
<1> HIDE DEF t, C
<1>4. Chars(s) = t /\ Length(s) = Len(t)
  BY <1>3, ShowsChars
<1> QED BY <1>1, <1>2, <1>4 DEF t, Body

LEMMA FitsIs ==
    ASSUME NEW cs, NEW b, FitsBody(cs, b)
    PROVE  /\ b \in Seq(Glyphs) /\ Put(cs, b) \in Seq(Glyphs) /\ cs.ops \in Lists(Alphabet)
           /\ Canonical(cs) /\ cs.oldLen = Len(b) + 1 /\ newLen(cs) = Len(Put(cs, b)) + 1
<1> DEFINE C == Alphabet
           G == Glyphs
<1>1. b \in Seq(G) /\ Put(cs, b) \in Seq(G) /\ cs.ops \in Lists(C) /\ Canonical(cs) /\ cs.oldLen = Len(b) + 1
  BY DEF FitsBody, Fit, Put
<1>2. G \in SUBSET Cells(C) /\ Newline \in C /\ Fit(C, G, cs, b)
  BY GlyphsAre DEF FitsBody
<1>3. newLen(cs) = Len(Makes(cs.ops, b)) + 1
  <2> HIDE DEF C, G
  <2> QED BY <1>2, FitWhole
<1> QED BY <1>1, <1>3 DEF Put

\* Applying, composing, and following, on texts.
LEMMA Applied ==
    ASSUME NEW cs, NEW b, FitsBody(cs, b), NEW s, ShowsBody(s, b)
    PROVE  ShowsBody(applyToAText(cs, s), Put(cs, b))
<1> DEFINE C == Alphabet
           G == Glyphs
<1>1. G \in SUBSET Cells(C) /\ Newline \in C /\ Fit(C, G, cs, b)
  BY GlyphsAre DEF FitsBody
<1>2. Shows(C, s, Whole(b))
  BY DEF ShowsBody
<1>3. Shows(C, applyToAText(cs, s), Whole(Makes(cs.ops, b)))
  <2> HIDE DEF C, G
  <2> QED BY <1>1, <1>2, ApplyMakes
<1>4. Put(cs, b) \in Seq(Glyphs)
  BY FitsIs
<1> QED BY <1>3, <1>4 DEF ShowsBody, Put

LEMMA Composed ==
    ASSUME NEW c1, NEW c2, NEW b, FitsBody(c1, b), FitsBody(c2, Put(c1, b))
    PROVE  FitsBody(compose(c1, c2), b) /\ Put(compose(c1, c2), b) = Put(c2, Put(c1, b))
<1> DEFINE C == Alphabet
           G == Glyphs
<1>1. G \in SUBSET Cells(C) /\ Newline \in C /\ Fit(C, G, c1, b) /\ Fit(C, G, c2, Makes(c1.ops, b))
  BY GlyphsAre DEF FitsBody, Put
<1>2. Fit(C, G, compose(c1, c2), b) /\ Makes(compose(c1, c2).ops, b) = Makes(c2.ops, Makes(c1.ops, b))
  <2> HIDE DEF C, G
  <2> QED BY <1>1, ComposeMakes
<1> QED BY <1>2 DEF FitsBody, Put

LEMMA Met ==
    ASSUME NEW c1, NEW c2, NEW b, FitsBody(c1, b), FitsBody(c2, b)
    PROVE  /\ FitsBody(UserAfter(c1, c2), Put(c1, b)) /\ FitsBody(SubmittedAfter(c2, c1), Put(c2, b))
           /\ Put(UserAfter(c1, c2), Put(c1, b)) = Put(SubmittedAfter(c2, c1), Put(c2, b))
<1> DEFINE C == Alphabet
           G == Glyphs
           r == TRUE
           q == FALSE
           f == follow(c1, c2, r)
           g == follow(c2, c1, q)
<1>1. G \in SUBSET Cells(C) /\ Newline \in C /\ Fit(C, G, c1, b) /\ Fit(C, G, c2, b)
  BY GlyphsAre DEF FitsBody
<1>2. r \in BOOLEAN /\ q \in BOOLEAN /\ q # r
  OBVIOUS
<1>3. /\ Fit(C, G, f, Makes(c1.ops, b)) /\ Fit(C, G, g, Makes(c2.ops, b))
      /\ Makes(f.ops, Makes(c1.ops, b)) = Makes(g.ops, Makes(c2.ops, b))
  <2> HIDE DEF C, G, r, q
  <2> QED BY <1>1, <1>2, FollowMeets
<1>4. UserAfter(c1, c2) = f /\ SubmittedAfter(c2, c1) = g
  BY DEF UserAfter, SubmittedAfter
<1> HIDE DEF f, g
<1> QED BY <1>3, <1>4 DEF FitsBody, Put

LEMMA Unchanging ==
    ASSUME NEW b \in Seq(Glyphs), NEW n, n = Len(b) + 1
    PROVE  FitsBody(identity(n), b) /\ Put(identity(n), b) = b
<1> DEFINE C == Alphabet
           G == Glyphs
<1>1. G \in SUBSET Cells(C) /\ b \in Seq(G)
  BY GlyphsAre
<1>2. Fit(C, G, identity(n), b) /\ Makes(identity(n).ops, b) = b
  <2> HIDE DEF C, G
  <2> QED BY <1>1, IdentityFits
<1> QED BY <1>2 DEF FitsBody, Put

\* The text in the editor, as runs.
LEMMA AsRuns ==
    ASSUME NEW b \in Seq(Glyphs)
    PROVE  ShowsBody(Runs(Whole(b)), b)
<1> DEFINE C == Alphabet
           t == Whole(b)
<1>1. t \in Texts(C)
  BY WholeGlyphs, GlyphsAre
<1>2. Shows(C, Runs(t), t)
  <2> HIDE DEF C, t
  <2> QED BY <1>1, RunsShowText
<1> QED BY <1>2 DEF ShowsBody


-----------------------------------------------------------------------------
(* The texts, and the changesets that are kept. *)

\* The text of revision r.
PadBody(r) == Body(TextAt(revisions, r))

\* Every revision fits the text before it.
HistoryOk ==
    /\ \A r \in 0 .. Len(revisions) : ShowsBody(TextAt(revisions, r), PadBody(r))
    /\ \A r \in 1 .. Len(revisions) : FitsBody(revisions[r], PadBody(r - 1))

\* What is submitted fits the official text, and what is typed what that makes
\* of it; both together make the text in the editor.
Held(a)  == IF submitted[a] = None THEN Body(base[a]) ELSE Put(submitted[a], Body(base[a]))
Shown(a) == Put(user[a], Held(a))

LayersOk(a) ==
    /\ submitted[a] # None => FitsBody(submitted[a], Body(base[a]))
    /\ FitsBody(user[a], Held(a))
    /\ doc[a] = Whole(Shown(a))

\* What is under way fits the text it was made for.
WireOk(a) ==
    sent[a] => /\ wire[a].baseRev \in 0 .. Len(revisions)
               /\ FitsBody(wire[a].changeset, PadBody(wire[a].baseRev))

Counted ==
    /\ DOMAIN doc = Authors
    /\ edits \in [Authors -> Nat] /\ \A a \in Authors : edits[a] <= MaxEdits[a]

TextsInv ==
    /\ HistoryOk
    /\ Counted
    /\ \A a \in Authors : LayersOk(a) /\ WireOk(a)
    /\ ~rejected

\* A browser whose texts stay.
LEMMA LayersQuiet ==
    ASSUME NEW a, LayersOk(a), base'[a] = base[a], submitted'[a] = submitted[a],
           user'[a] = user[a], doc'[a] = doc[a]
    PROVE  LayersOk(a)'
BY DEF LayersOk, Held, Shown

LEMMA WireQuiet ==
    ASSUME NEW a, WireOk(a), revisions' = revisions, sent'[a] => sent[a], sent'[a] => wire'[a] = wire[a]
    PROVE  WireOk(a)'
BY DEF WireOk, PadBody

LEMMA HistoryQuiet ==
    ASSUME HistoryOk, revisions' = revisions
    PROVE  HistoryOk'
BY DEF HistoryOk, PadBody

\* The official text of a browser shows its body.
LEMMA BaseShows ==
    ASSUME TrackerInv, TextsInv, NEW a \in Authors
    PROVE  /\ rev[a] \in 0 .. Len(revisions) /\ base[a] = TextAt(revisions, rev[a])
           /\ ShowsBody(base[a], Body(base[a])) /\ Body(base[a]) = PadBody(rev[a])
<1>1. rev[a] \in 0 .. Len(revisions) /\ base[a] = TextAt(revisions, rev[a])
  BY DEF TrackerInv, BaseIsRevision, BrowserInv, BroughtUpToDate
<1>2. ShowsBody(TextAt(revisions, rev[a]), PadBody(rev[a]))
  BY <1>1 DEF TextsInv, HistoryOk
<1> QED BY <1>1, <1>2 DEF PadBody

LEMMA TextsInit ==
    ASSUME TrackerAssumption, Init
    PROVE  TextsInv
<1> DEFINE f == Front(InitialText)
           b == Plain(f)
           t == Plain(InitialText)
           n == Len(InitialText)
<1>1. InitialText \in Seq(Alphabet) /\ InitialText # <<>> /\ Last(InitialText) = Newline
  BY DEF TrackerAssumption, Alphabet
<1>2. f \in Seq(Alphabet) /\ InitialText = Append(f, Newline)
  <2> DEFINE C == Alphabet
  <2> HIDE DEF C
  <2>1. InitialText \in Seq(C)
    BY <1>1 DEF C
  <2> QED BY <1>1, <2>1, FrontLast DEF C
<1>3. b \in Seq(Glyphs) /\ Len(b) = Len(f) /\ Len(f) \in Nat
  BY <1>2, PlainIs
<1>4. t = Whole(b)
  <2>1. t \in Seq(Glyphs) /\ Len(t) = n
    BY <1>1, PlainIs
  <2>2. n = Len(f) + 1 /\ (\A i \in 1 .. Len(f) : InitialText[i] = f[i]) /\ InitialText[n] = Newline
    <3> HIDE DEF f
    <3>1. Newline \in Alphabet
      BY GlyphsAre
    <3> QED BY <1>2, <3>1, AppendProperties
  <2>3. Whole(b) \in Seq(Glyphs) /\ Len(Whole(b)) = Len(b) + 1
        /\ (\A i \in 1 .. Len(b) : Whole(b)[i] = b[i])
        /\ Whole(b)[Len(b) + 1] = [char |-> Newline, bold |-> "none"]
    <3> HIDE DEF b
    <3> QED BY <1>3, WholeGlyphs
  <2>4. DOMAIN InitialText = 1 .. n /\ DOMAIN f = 1 .. Len(f)
    BY <1>1, <1>2
  <2>5. \A i \in 1 .. n : t[i] = [char |-> InitialText[i], bold |-> "none"]
    BY <2>4 DEF Plain
  <2>6. \A i \in 1 .. Len(f) : b[i] = [char |-> f[i], bold |-> "none"]
    BY <2>4 DEF Plain
  <2> HIDE DEF b, t, n, f
  <2>7. Len(t) = Len(Whole(b))
    BY <1>3, <2>1, <2>2, <2>3
  <2>8. \A i \in 1 .. Len(t) : t[i] = Whole(b)[i]
    <3> TAKE i \in 1 .. Len(t)
    <3>1. i \in 1 .. Len(f) \/ i = n
      BY <1>3, <2>1, <2>2
    <3>2. CASE i \in 1 .. Len(f)
      <4>1. i \in 1 .. n /\ i \in 1 .. Len(b)
        BY <1>3, <2>2, <3>2
      <4> QED BY <2>2, <2>3, <2>5, <2>6, <3>2, <4>1
    <3>3. CASE i = n
      <4>1. i \in 1 .. n /\ n = Len(b) + 1
        BY <1>3, <2>2, <3>3
      <4> QED BY <2>2, <2>3, <2>5, <3>3, <4>1
    <3> QED BY <3>1, <3>2, <3>3
  <2> QED BY <2>1, <2>3, <2>7, <2>8, SeqEqual
<1>5. n = Len(b) + 1
  <2>1. Len(t) = n
    BY <1>1, PlainIs
  <2>2. Len(Whole(b)) = Len(b) + 1
    <3> HIDE DEF b
    <3> QED BY <1>3, WholeGlyphs
  <2> QED BY <1>4, <2>1, <2>2
<1> DEFINE s == Runs(t)
           u == identity(n)
<1>6. /\ revisions = <<>> /\ atext = s /\ base = [a \in Authors |-> atext]
      /\ submitted = [a \in Authors |-> None] /\ user = [a \in Authors |-> u]
      /\ doc = [a \in Authors |-> t] /\ sent = [a \in Authors |-> FALSE]
      /\ edits = [a \in Authors |-> 0] /\ rejected = FALSE
  BY DEF Init
<1> HIDE DEF b, t, n
<1>7. ShowsBody(s, b)
  BY <1>3, <1>4, AsRuns
<1>8. FitsBody(u, b) /\ Put(u, b) = b
  BY <1>3, <1>5, Unchanging
<1>9. Body(s) = b
  BY <1>7, ShownIs
<1>10. TextAt(revisions, 0) = s
  BY TextFirst DEF t
<1>11. HistoryOk
  <2>1. Len(revisions) = 0
    BY <1>6
  <2>2. \A r \in 0 .. Len(revisions) : r = 0
    BY <2>1
  <2>3. 1 .. Len(revisions) = {}
    BY <2>1
  <2>4. ShowsBody(TextAt(revisions, 0), PadBody(0))
    BY <1>7, <1>9, <1>10 DEF PadBody
  <2> QED BY <2>2, <2>3, <2>4 DEF HistoryOk
<1> HIDE DEF s, u
<1>12. Counted
  <2>1. MaxEdits \in [Authors -> Nat]
    BY DEF TrackerAssumption
  <2> QED BY <1>6, <2>1 DEF Counted
<1>13. ASSUME NEW a \in Authors
       PROVE  LayersOk(a) /\ WireOk(a)
  <2>1. submitted[a] = None /\ base[a] = s /\ user[a] = u /\ doc[a] = t /\ ~sent[a]
    BY <1>6
  <2>2. Held(a) = b
    BY <1>9, <2>1 DEF Held
  <2>3. LayersOk(a)
    BY <1>4, <1>8, <2>1, <2>2 DEF LayersOk, Shown
  <2> QED BY <2>1, <2>3 DEF WireOk
<1> QED BY <1>6, <1>11, <1>12, <1>13 DEF TextsInv


\* Composing an edit with what was typed before.
LEMMA EditKeepsTexts ==
    ASSUME TrackerInv, TextsInv, NEW a \in Authors, NEW cs, NEW text, Edit(a, cs, text),
           Edited(cs, Shown(a), text)
    PROVE  TextsInv'
<1>1. /\ edits[a] < MaxEdits[a]
      /\ edits' = [edits EXCEPT ![a] = @ + 1] /\ user' = [user EXCEPT ![a] = compose(@, cs)]
      /\ doc' = [doc EXCEPT ![a] = text]
      /\ revisions' = revisions /\ base' = base /\ submitted' = submitted /\ sent' = sent
      /\ wire' = wire /\ rejected' = rejected
  BY DEF Edit
<1>2. DOMAIN user = Authors /\ DOMAIN doc = Authors /\ edits \in [Authors -> Nat]
      /\ \A b \in Authors : edits[b] <= MaxEdits[b]
  BY DEF TrackerInv, Shaped, TextsInv, Counted
<1>3. HistoryOk'
  BY <1>1, HistoryQuiet DEF TextsInv
<1>4. Counted'
  <2>1. TrackerAssumption => MaxEdits \in [Authors -> Nat]
    BY DEF TrackerAssumption
  <2>2. MaxEdits[a] \in Nat
    BY <2>1, TrackerAssumption
  <2>3. edits' \in [Authors -> Nat]
    BY <1>1, <1>2
  <2>4. \A b \in Authors : edits'[b] <= MaxEdits[b]
    BY <1>1, <1>2, <2>2
  <2> QED BY <1>1, <1>2, <2>3, <2>4 DEF Counted
<1>5. ASSUME NEW b \in Authors
      PROVE  LayersOk(b)' /\ WireOk(b)'
  <2>1. LayersOk(b) /\ WireOk(b)
    BY DEF TextsInv
  <2>2. WireOk(b)'
    BY <1>1, <2>1, WireQuiet
  <2>3. CASE b # a
    BY <1>1, <1>2, <2>1, <2>2, <2>3, LayersQuiet
  <2>4. CASE b = a
    <3>1. Held(a)' = Held(a)
      BY <1>1 DEF Held
    <3>2. user'[a] = compose(user[a], cs) /\ doc'[a] = text
      BY <1>1, <1>2
    <3>3. FitsBody(user[a], Held(a)) /\ FitsBody(cs, Put(user[a], Held(a))) /\ text = Whole(Put(cs, Shown(a)))
      BY <2>1, <2>4 DEF LayersOk, Edited, FitsBody, Put, Shown
    <3>4. FitsBody(user'[a], Held(a)) /\ Put(user'[a], Held(a)) = Put(cs, Shown(a))
      BY <3>2, <3>3, Composed DEF Shown
    <3>5. submitted'[a] # None => FitsBody(submitted'[a], Body(base'[a]))
      BY <1>1, <2>1, <2>4 DEF LayersOk
    <3>6. LayersOk(a)'
      BY <3>1, <3>2, <3>3, <3>4, <3>5 DEF LayersOk, Shown
    <3> QED BY <2>2, <2>4, <3>6
  <2> QED BY <2>3, <2>4
<1> QED BY <1>1, <1>3, <1>4, <1>5 DEF TextsInv

LEMMA ShownFits ==
    ASSUME TextsInv, NEW a \in Authors
    PROVE  Shown(a) \in Seq(Glyphs) /\ doc[a] = Whole(Shown(a))
<1>1. LayersOk(a)
  BY DEF TextsInv
<1>2. FitsBody(user[a], Held(a)) /\ doc[a] = Whole(Shown(a))
  BY <1>1 DEF LayersOk
<1> QED BY <1>2, FitsIs DEF Shown

LEMMA TypeKeepsTexts ==
    ASSUME TrackerInv, TextsInv, NEW a \in Authors, Type(a)
    PROVE  TextsInv'
<1>1. PICK s \in Splices(a) :
        /\ EndsInNewline(Spliced(doc[a], s.start, s.ndel, s.ins))
        /\ Edit(a, Adjusted(doc[a], s.start, s.ndel, s.ins), Spliced(doc[a], s.start, s.ndel, s.ins))
  BY DEF Type
<1> DEFINE b == Shown(a)
           cs == Adjusted(doc[a], s.start, s.ndel, s.ins)
           text == Spliced(doc[a], s.start, s.ndel, s.ins)
<1>2. b \in Seq(Glyphs) /\ doc[a] = Whole(b)
  BY ShownFits
<1>3. Edited(cs, b, text)
  <2> HIDE DEF b
  <2> QED BY <1>1, <1>2, TypeFits
<1>4. Edit(a, cs, text)
  BY <1>1
<1> HIDE DEF cs, text
<1> QED BY <1>3, <1>4, EditKeepsTexts

LEMMA EmboldenKeepsTexts ==
    ASSUME TrackerInv, TextsInv, NEW a \in Authors, Embolden(a)
    PROVE  TextsInv'
<1> DEFINE t == doc[a]
           b == Shown(a)
<1>1. PICK i \in 1 .. Len(t) - 1 :
        /\ t[i].char # Newline
        /\ Edit(a, setAttribute(Len(t), i - 1, 1, IF t[i].bold = "none" THEN "true" ELSE "off"),
                [t EXCEPT ![i].bold = IF t[i].bold = "none" THEN "true" ELSE "none"])
  BY DEF Embolden
<1> DEFINE v == IF t[i].bold = "none" THEN "true" ELSE "off"
           y == IF t[i].bold = "none" THEN "true" ELSE "none"
           cs == setAttribute(Len(t), i - 1, 1, v)
           text == [t EXCEPT ![i].bold = y]
<1>2. b \in Seq(Glyphs) /\ t = Whole(b)
  BY ShownFits
<1>3. Edited(cs, b, text)
  <2>1. v = (IF t[i].bold = "none" THEN "true" ELSE "off") /\ y = (IF t[i].bold = "none" THEN "true" ELSE "none")
    OBVIOUS
  <2> HIDE DEF b, t, v, y
  <2> QED BY <1>1, <1>2, <2>1, EmboldenFits
<1>4. Edit(a, cs, text)
  BY <1>1
<1> HIDE DEF cs, text
<1> QED BY <1>3, <1>4, EditKeepsTexts

\* Making a submission of what was typed, and of the one that was lost.
LEMMA PrepareKeepsTexts ==
    ASSUME TrackerInv, TextsInv, NEW a \in Authors, Prepare(a)
    PROVE  TextsInv'
<1> DEFINE cs == ToSubmit(a)
           b == Body(base[a])
           n == newLen(cs)
<1>1. /\ submitted' = [submitted EXCEPT ![a] = cs] /\ user' = [user EXCEPT ![a] = identity(n)]
      /\ sent' = [sent EXCEPT ![a] = TRUE]
      /\ wire' = [wire EXCEPT ![a] = [changeset |-> cs, baseRev |-> rev[a]]]
      /\ revisions' = revisions /\ base' = base /\ doc' = doc /\ edits' = edits /\ rejected' = rejected
  BY DEF Prepare
<1>2. DOMAIN submitted = Authors /\ DOMAIN user = Authors /\ DOMAIN sent = Authors /\ DOMAIN wire = Authors
  BY DEF TrackerInv, Shaped
<1>3. HistoryOk'
  BY <1>1, HistoryQuiet DEF TextsInv
<1>4. Counted'
  BY <1>1 DEF Counted, TextsInv
<1>5. LayersOk(a)
  BY DEF TextsInv
<1>6. FitsBody(cs, b) /\ Put(cs, b) = Shown(a) /\ cs # None
  <2>1. CASE submitted[a] = None
    <3>1. cs = user[a] /\ Held(a) = b
      BY <2>1 DEF ToSubmit, Held
    <3>2. user[a] # None
      BY DEF TrackerInv, BrowserInv, OneUnderWay
    <3> QED BY <1>5, <3>1, <3>2 DEF LayersOk, Shown
  <2>2. CASE submitted[a] # None
    <3>1. cs = compose(submitted[a], user[a]) /\ Held(a) = Put(submitted[a], b)
      BY <2>2 DEF ToSubmit, Held
    <3>2. FitsBody(submitted[a], b) /\ FitsBody(user[a], Put(submitted[a], b))
      BY <1>5, <2>2, <3>1 DEF LayersOk
    <3>3. cs # None
      BY <3>1, ChangesetsAreSome
    <3> HIDE DEF b, cs
    <3> QED BY <3>1, <3>2, <3>3, Composed DEF Shown
  <2> QED BY <2>1, <2>2
<1> HIDE DEF cs
<1>7. LayersOk(a)'
  <2>1. submitted'[a] = cs /\ user'[a] = identity(n) /\ base'[a] = base[a] /\ doc'[a] = doc[a]
    BY <1>1, <1>2
  <2>2. Held(a)' = Put(cs, b)
    BY <1>6, <2>1 DEF Held
  <2> HIDE DEF b
  <2>3. Put(cs, b) \in Seq(Glyphs) /\ n = Len(Put(cs, b)) + 1
    BY <1>6, FitsIs
  <2> DEFINE h == Put(cs, b)
             u == identity(n)
  <2> HIDE DEF h, n
  <2>4. FitsBody(u, h) /\ Put(u, h) = h
    BY <2>3, Unchanging DEF h
  <2> HIDE DEF u
  <2>5. doc[a] = Whole(h)
    BY <1>5, <1>6 DEF LayersOk, h
  <2>6. Held(a)' = h /\ user'[a] = u
    BY <2>1, <2>2 DEF h, u
  <2> QED BY <1>6, <2>1, <2>4, <2>5, <2>6 DEF LayersOk, Shown, b
<1>8. WireOk(a)'
  <2>1. wire'[a].changeset = cs /\ wire'[a].baseRev = rev[a]
    BY <1>1, <1>2
  <2>2. rev[a] \in 0 .. Len(revisions) /\ b = PadBody(rev[a])
    BY BaseShows
  <2>3. PadBody(rev[a])' = Body(TextAt(revisions', rev[a]')) /\ PadBody(rev[a]) = Body(TextAt(revisions, rev[a]))
    BY DEF PadBody
  <2> HIDE DEF b
  <2> QED BY <1>1, <1>6, <2>1, <2>2 DEF WireOk, PadBody
<1>9. ASSUME NEW c \in Authors, c # a
      PROVE  LayersOk(c)' /\ WireOk(c)'
  <2>1. LayersOk(c) /\ WireOk(c)
    BY DEF TextsInv
  <2>2. LayersOk(c)'
    BY <1>1, <1>2, <1>9, <2>1, LayersQuiet
  <2>3. WireOk(c)'
    BY <1>1, <1>2, <1>9, <2>1, WireQuiet
  <2> QED BY <2>2, <2>3
<1>10. \A c \in Authors : LayersOk(c)' /\ WireOk(c)'
  BY <1>7, <1>8, <1>9
<1> QED BY <1>1, <1>3, <1>4, <1>10 DEF TextsInv

LEMMA LossKeepsTexts ==
    ASSUME TrackerInv, TextsInv, NEW a \in Authors, LoseSubmission(a)
    PROVE  TextsInv'
<1>1. /\ sent' = [sent EXCEPT ![a] = FALSE]
      /\ wire' = [wire EXCEPT ![a] = [changeset |-> None, baseRev |-> 0]]
      /\ revisions' = revisions /\ base' = base /\ submitted' = submitted /\ user' = user
      /\ doc' = doc /\ edits' = edits /\ rejected' = rejected
  BY DEF LoseSubmission, Unsent
<1>2. DOMAIN sent = Authors /\ DOMAIN wire = Authors
  BY DEF TrackerInv, Shaped
<1>3. HistoryOk'
  BY <1>1, HistoryQuiet DEF TextsInv
<1>4. Counted'
  BY <1>1 DEF Counted, TextsInv
<1>5. ASSUME NEW b \in Authors
      PROVE  LayersOk(b)' /\ WireOk(b)'
  <2>1. LayersOk(b) /\ WireOk(b)
    BY DEF TextsInv
  <2>2. LayersOk(b)'
    BY <1>1, <2>1, LayersQuiet
  <2>3. sent'[b] => sent[b] /\ wire'[b] = wire[b]
    BY <1>1, <1>2
  <2>4. WireOk(b)'
    BY <1>1, <2>1, <2>3, WireQuiet
  <2> QED BY <2>2, <2>4
<1> QED BY <1>1, <1>3, <1>4, <1>5 DEF TextsInv


\* A revision takes the text before it to its own.
LEMMA RevisionFits ==
    ASSUME Shaped, HistoryOk, NEW r \in Nat, NEW n, n = r + 1, n <= Len(revisions)
    PROVE  FitsBody(revisions[n], PadBody(r)) /\ PadBody(n) = Put(revisions[n], PadBody(r))
<1>1. Len(revisions) \in Nat
  BY HistoryShape
<1>2. r \in 0 .. Len(revisions) /\ n \in 1 .. Len(revisions) /\ n - 1 = r
  BY <1>1
<1>3. FitsBody(revisions[n], PadBody(r)) /\ ShowsBody(TextAt(revisions, r), PadBody(r))
  BY <1>2 DEF HistoryOk
<1>4. TextAt(revisions, n) = applyToAText(revisions[n], TextAt(revisions, r))
  BY TextNext
<1> DEFINE c == revisions[n]
           s == TextAt(revisions, r)
           b == PadBody(r)
<1> HIDE DEF c, s, b
<1>5. ShowsBody(applyToAText(c, s), Put(c, b))
  BY <1>3, Applied DEF c, s, b
<1>6. Body(applyToAText(c, s)) = Put(c, b)
  BY <1>5, ShownIs
<1>7. PadBody(n) = Put(c, b)
  BY <1>4, <1>6 DEF PadBody, c, s
<1> QED BY <1>3, <1>7 DEF c, b

\* A revision another browser made: what is submitted and what is typed make
\* way for it, and the editor shows what they then make.
LEMMA NewChangesKeepTexts ==
    ASSUME TrackerInv, TextsInv, NEW a \in Authors, ReceiveNewChanges(a)
    PROVE  TextsInv'
<1> DEFINE r == rev[a]
           k == Head(down[a]).newRev
           c == revisions[k]
           sub == submitted[a]
           b == Body(base[a])
           h == Held(a)
           u == user[a]
           c2 == IF sub = None THEN c ELSE UserAfter(sub, c)
           sub2 == IF sub = None THEN None ELSE SubmittedAfter(c, sub)
           h2 == IF sub = None THEN Put(c, b) ELSE Put(sub2, Put(c, b))
<1>1. /\ down[a] # <<>> /\ Head(down[a]).type = "NEW_CHANGES"
      /\ rev' = [rev EXCEPT ![a] = k] /\ down' = [down EXCEPT ![a] = Tail(@)]
      /\ revisions' = revisions /\ sent' = sent /\ wire' = wire /\ edits' = edits /\ rejected' = rejected
  BY DEF ReceiveNewChanges
<1>2. /\ base' = [base EXCEPT ![a] = applyToAText(c, @)]
      /\ submitted' = [submitted EXCEPT ![a] = sub2]
      /\ user' = [user EXCEPT ![a] = UserAfter(c2, @)]
      /\ doc' = [doc EXCEPT ![a] = Chars(applyToAText(follow(u, c2, FALSE), Runs(@)))]
  BY DEF ReceiveNewChanges, applyChangesToBase, UserAfter
<1>3. DOMAIN base = Authors /\ DOMAIN submitted = Authors /\ DOMAIN user = Authors /\ DOMAIN doc = Authors
      /\ Shaped /\ HistoryOk
  BY DEF TrackerInv, Shaped, TextsInv, Counted
<1>4. LayersOk(a) /\ ShowsBody(base[a], b) /\ b = PadBody(r) /\ r \in 0 .. Len(revisions)
  BY BaseShows DEF TextsInv
<1>5. k = r + 1 /\ r \in Nat /\ k <= Len(revisions)
  <2>1. /\ 1 \in 1 .. Len(down[a]) /\ Reached(a, 1) = k /\ Reached(a, 0) = r
    BY <1>1, ReceiptAdvances
  <2>2. ~Accepts(a, 1)
    BY <1>1, <2>1 DEF Accepts
  <2>3. BroughtUpToDate(a)
    BY DEF TrackerInv, BrowserInv
  <2>4. 1 - 1 = 0
    OBVIOUS
  <2>5. Reached(a, 1) = Reached(a, 0) + 1 /\ Reached(a, 1) \in 0 .. Len(revisions)
    BY <2>1, <2>2, <2>3, <2>4 DEF BroughtUpToDate
  <2> QED BY <1>4, <2>1, <2>5
<1> HIDE DEF k, r
<1>6. FitsBody(c, b)
  BY <1>3, <1>4, <1>5, RevisionFits
<1> HIDE DEF c, b
<1>7. FitsBody(c2, h) /\ Put(c2, h) = h2 /\ (sub # None => FitsBody(sub2, Put(c, b)))
  <2>1. CASE sub = None
    <3>1. h = b
      BY <2>1 DEF Held, b
    <3> QED BY <1>6, <2>1, <3>1
  <2>2. CASE sub # None
    <3>1. h = Put(sub, b) /\ FitsBody(sub, b)
      BY <1>4, <2>2 DEF Held, LayersOk, b
    <3> HIDE DEF sub, h
    <3>2. /\ FitsBody(UserAfter(sub, c), Put(sub, b)) /\ FitsBody(SubmittedAfter(c, sub), Put(c, b))
          /\ Put(UserAfter(sub, c), Put(sub, b)) = Put(SubmittedAfter(c, sub), Put(c, b))
      BY <1>6, <3>1, Met
    <3> QED BY <2>2, <3>1, <3>2
  <2> QED BY <2>1, <2>2
<1>8. FitsBody(u, h) /\ doc[a] = Whole(Put(u, h))
  BY <1>4 DEF LayersOk, Shown
<1> DEFINE v == SubmittedAfter(u, c2)
           d == Runs(doc[a])
<1> HIDE DEF u, h, c2, sub2, h2, sub
<1>9. /\ FitsBody(UserAfter(c2, u), Put(c2, h)) /\ FitsBody(v, Put(u, h))
      /\ Put(UserAfter(c2, u), Put(c2, h)) = Put(v, Put(u, h))
  BY <1>7, <1>8, Met
<1>10. Chars(applyToAText(v, d)) = Whole(Put(v, Put(u, h)))
  <2>1. Put(u, h) \in Seq(Glyphs)
    BY <1>8, FitsIs
  <2>2. ShowsBody(d, Put(u, h))
    BY <1>8, <2>1, AsRuns
  <2> HIDE DEF v, d
  <2>3. ShowsBody(applyToAText(v, d), Put(v, Put(u, h)))
    BY <1>9, <2>2, Applied
  <2> QED BY <2>3, ShownIs
<1>11. /\ base'[a] = applyToAText(c, base[a]) /\ submitted'[a] = sub2
       /\ user'[a] = UserAfter(c2, u) /\ doc'[a] = Chars(applyToAText(v, d))
  BY <1>2, <1>3 DEF u, SubmittedAfter
<1>12. Body(base'[a]) = Put(c, b)
  <2>1. ShowsBody(base[a], b)
    BY <1>4
  <2>2. ShowsBody(applyToAText(c, base[a]), Put(c, b))
    BY <1>6, <2>1, Applied
  <2> QED BY <1>11, <2>2, ShownIs
<1>13. sub2 = None <=> sub = None
  BY ChangesetsAreSome DEF sub2
<1>14. Held(a)' = h2
  BY <1>11, <1>12, <1>13 DEF Held, h2
<1> HIDE DEF v, d
<1>15. LayersOk(a)'
  <2>1. submitted'[a] # None => FitsBody(submitted'[a], Body(base'[a]))
    BY <1>7, <1>11, <1>12, <1>13
  <2>2. FitsBody(user'[a], h2) /\ doc'[a] = Whole(Put(user'[a], h2))
    BY <1>7, <1>9, <1>10, <1>11
  <2> QED BY <1>14, <2>1, <2>2 DEF LayersOk, Shown
<1>16. HistoryOk'
  BY <1>1, <1>3, HistoryQuiet
<1>17. Counted'
  <2>1. Counted
    BY DEF TextsInv
  <2> QED BY <1>1, <1>2, <1>3, <2>1 DEF Counted
<1>18. ASSUME NEW q \in Authors
       PROVE  WireOk(q)' /\ (q # a => LayersOk(q)')
  <2>1. LayersOk(q) /\ WireOk(q)
    BY DEF TextsInv
  <2>2. WireOk(q)'
    BY <1>1, <2>1, WireQuiet
  <2>3. q # a => LayersOk(q)'
    BY <1>2, <1>3, <2>1, LayersQuiet
  <2> QED BY <2>2, <2>3
<1> QED BY <1>1, <1>15, <1>16, <1>17, <1>18 DEF TextsInv

\* The revision the browser made itself.
LEMMA AcceptCommitKeepsTexts ==
    ASSUME TrackerInv, TextsInv, NEW a \in Authors, ReceiveAcceptCommit(a)
    PROVE  TextsInv'
<1> DEFINE k == Head(down[a]).newRev
           sub == submitted[a]
           b == Body(base[a])
           h == Held(a)
<1>1. /\ down[a] # <<>> /\ Head(down[a]).type = "ACCEPT_COMMIT"
      /\ base' = [base EXCEPT ![a] = applyToAText(sub, @)]
      /\ submitted' = [submitted EXCEPT ![a] = None]
      /\ rev' = [rev EXCEPT ![a] = k] /\ down' = [down EXCEPT ![a] = Tail(@)]
      /\ revisions' = revisions /\ sent' = sent /\ wire' = wire /\ edits' = edits
      /\ user' = user /\ doc' = doc /\ rejected' = rejected
  BY DEF ReceiveAcceptCommit
<1>2. DOMAIN base = Authors /\ DOMAIN submitted = Authors /\ HistoryOk
  BY DEF TrackerInv, Shaped, TextsInv
<1>3. LayersOk(a) /\ ShowsBody(base[a], b)
  BY BaseShows DEF TextsInv
<1>4. sub # None
  <2>1. 1 \in 1 .. Len(down[a])
    BY <1>1, ReceiptAdvances
  <2>2. Accepts(a, 1)
    BY <1>1, <2>1 DEF Accepts
  <2>3. OneUnderWay(a)
    BY DEF TrackerInv, BrowserInv
  <2> QED BY <2>1, <2>2, <2>3 DEF OneUnderWay
<1>5. FitsBody(sub, b) /\ h = Put(sub, b)
  BY <1>3, <1>4 DEF LayersOk, Held
<1>6. ShowsBody(applyToAText(sub, base[a]), h)
  <2> HIDE DEF sub, b, h
  <2> QED BY <1>3, <1>5, Applied
<1>7. base'[a] = applyToAText(sub, base[a]) /\ submitted'[a] = None /\ user'[a] = user[a] /\ doc'[a] = doc[a]
  BY <1>1, <1>2
<1>8. Held(a)' = h
  <2>1. Body(base'[a]) = h
    <3> HIDE DEF sub, h
    <3> QED BY <1>6, <1>7, ShownIs
  <2> QED BY <1>7, <2>1 DEF Held
<1>9. LayersOk(a)'
  BY <1>3, <1>7, <1>8 DEF LayersOk, Shown
<1>10. HistoryOk'
  BY <1>1, <1>2, HistoryQuiet
<1>11. Counted'
  BY <1>1 DEF Counted, TextsInv
<1>12. ASSUME NEW q \in Authors
       PROVE  WireOk(q)' /\ (q # a => LayersOk(q)')
  <2>1. LayersOk(q) /\ WireOk(q)
    BY DEF TextsInv
  <2>2. WireOk(q)'
    BY <1>1, <2>1, WireQuiet
  <2>3. q # a => LayersOk(q)'
    BY <1>1, <1>2, <2>1, LayersQuiet
  <2> QED BY <2>2, <2>3
<1> QED BY <1>1, <1>9, <1>10, <1>11, <1>12 DEF TextsInv


\* A changeset that is rebased fits the text of the revision it is rebased to.
LEMMA RebasedFits ==
    ASSUME Shaped, HistoryOk, NEW cs, NEW b \in Nat, FitsBody(cs, PadBody(b)), b <= Len(revisions)
    PROVE  FitsBody(Rebased(cs, b), PadBody(Len(revisions)))
<1> DEFINE n == Len(revisions)
           x(i) == RebasedTo(revisions, cs, b, i)
           Holds(i) == FitsBody(x(i), PadBody(i))
           P == {i \in Nat : b + i <= n => Holds(b + i)}
<1>1. 0 \in P
  <2>1. x(b) = cs
    BY RebasedFirst
  <2>2. b + 0 = b
    OBVIOUS
  <2>3. Holds(b)
    BY <2>1
  <2> HIDE DEF Holds
  <2> QED BY <2>2, <2>3
<1>2. ASSUME NEW i \in Nat, i \in P
      PROVE  i + 1 \in P
  <2> SUFFICES ASSUME b + (i + 1) <= n
               PROVE  Holds(b + (i + 1))
    <3> HIDE DEF Holds
    <3> QED OBVIOUS
  <2> DEFINE k == b + i
             m == b + (i + 1)
  <2>1. k \in Nat /\ k >= b /\ m = k + 1 /\ k <= n /\ m <= n
    BY HistoryShape
  <2>2. Holds(k)
    <3> HIDE DEF Holds
    <3> QED BY <1>2, <2>1
  <2> HIDE DEF k, m
  <2>3. x(m) = SubmittedAfter(revisions[m], x(k))
    BY <2>1, RebasedNext
  <2>4. FitsBody(revisions[m], PadBody(k)) /\ PadBody(m) = Put(revisions[m], PadBody(k))
    BY <2>1, RevisionFits
  <2> DEFINE y == x(k)
             c == revisions[m]
             t == PadBody(k)
  <2>5. FitsBody(y, t) /\ FitsBody(c, t)
    BY <2>2, <2>4
  <2> HIDE DEF x, y, c, t
  <2>6. FitsBody(SubmittedAfter(c, y), Put(c, t))
    BY <2>5, Met
  <2>7. Holds(m)
    BY <2>3, <2>4, <2>6 DEF y, c, t
  <2> QED BY <2>7 DEF m
<1>3. Nat \subseteq P
  <2> HIDE DEF P
  <2> QED BY <1>1, <1>2, NumberInduction
<1>4. n - b \in Nat /\ b + (n - b) = n
  BY HistoryShape
<1>5. Holds(b + (n - b))
  <2> HIDE DEF Holds
  <2> QED BY <1>3, <1>4
<1> HIDE DEF Holds
<1>6. Holds(n)
  BY <1>4, <1>5
<1> QED BY <1>6 DEF Holds, Rebased

\* The pad's text.
LEMMA PadShows ==
    ASSUME TrackerInv, HistoryOk
    PROVE  Len(revisions) \in Nat /\ ShowsBody(atext, PadBody(Len(revisions)))
<1>1. Len(revisions) \in Nat
  BY HistoryShape DEF TrackerInv
<1>2. ShowsBody(TextAt(revisions, Len(revisions)), PadBody(Len(revisions)))
  BY <1>1 DEF HistoryOk
<1>3. atext = TextAt(revisions, Len(revisions))
  BY DEF TrackerInv, BaseIsRevision
<1> QED BY <1>1, <1>2, <1>3

\* The submission of a browser is never refused.
LEMMA SubmissionSound ==
    ASSUME TrackerInv, TextsInv, NEW a \in Authors, sent[a]
    PROVE  /\ Canonical(wire[a].changeset) /\ Sound(Rebased(wire[a].changeset, wire[a].baseRev))
           /\ FitsBody(Rebased(wire[a].changeset, wire[a].baseRev), PadBody(Len(revisions)))
<1> DEFINE cs == wire[a].changeset
           b == wire[a].baseRev
           n == Len(revisions)
           r == Rebased(cs, b)
           t == PadBody(n)
<1>1. WireOk(a) /\ HistoryOk /\ Shaped
  BY DEF TextsInv, TrackerInv
<1>2. b \in 0 .. n /\ FitsBody(cs, PadBody(b))
  BY <1>1 DEF WireOk
<1>3. n \in Nat /\ ShowsBody(atext, t)
  BY <1>1, PadShows
<1>4. b \in Nat /\ b <= n
  BY <1>2, <1>3
<1> HIDE DEF cs, b
<1>5. FitsBody(r, t)
  BY <1>1, <1>2, <1>4, RebasedFits
<1>6. Canonical(cs)
  <2> DEFINE v == PadBody(b)
  <2> HIDE DEF v
  <2>1. FitsBody(cs, v)
    BY <1>2 DEF v
  <2> QED BY <2>1, FitsIs
<1> HIDE DEF r, t
<1>7. Fits(r)
  <2>1. r.oldLen = Len(t) + 1
    BY <1>5, FitsIs
  <2>2. Length(atext) = Len(t) + 1
    BY <1>3, ShownIs
  <2> QED BY <2>1, <2>2 DEF Fits
<1>8. EndsInNewline(Chars(applyToAText(r, atext)))
  <2> DEFINE s == applyToAText(r, atext)
             v == Put(r, t)
  <2>1. ShowsBody(s, v)
    BY <1>3, <1>5, Applied
  <2> HIDE DEF s, v
  <2>2. EndsInNewline(Chars(s))
    BY <2>1, ShownIs
  <2> QED BY <2>2 DEF s
<1> QED BY <1>5, <1>6, <1>7, <1>8 DEF Sound, cs, b, r, t

\* What handleUserChanges does to the pad.
LEMMA SubmissionTaken ==
    ASSUME TrackerInv, TextsInv, NEW a \in Authors, handleUserChanges(a),
           NEW r, r = Rebased(wire[a].changeset, wire[a].baseRev)
    PROVE  /\ sent[a] /\ sent' = [sent EXCEPT ![a] = FALSE]
           /\ wire' = [wire EXCEPT ![a] = [changeset |-> None, baseRev |-> 0]]
           /\ base' = base /\ submitted' = submitted /\ user' = user /\ doc' = doc /\ edits' = edits
           /\ rejected' = rejected /\ atext' = applyToAText(r, atext)
           /\ revisions' = IF applyToAText(r, atext) = atext THEN revisions ELSE Append(revisions, r)
           /\ FitsBody(r, PadBody(Len(revisions)))
<1>1. sent[a]
  BY DEF handleUserChanges
<1>2. Canonical(wire[a].changeset) /\ Sound(r) /\ FitsBody(r, PadBody(Len(revisions)))
  BY <1>1, SubmissionSound
<1>3. ~(~Canonical(wire[a].changeset) \/ ~Sound(Rebased(wire[a].changeset, wire[a].baseRev)))
  BY <1>2
<1>4. /\ sent' = [sent EXCEPT ![a] = FALSE]
      /\ wire' = [wire EXCEPT ![a] = [changeset |-> None, baseRev |-> 0]]
      /\ base' = base /\ submitted' = submitted /\ user' = user /\ doc' = doc /\ edits' = edits
  BY DEF handleUserChanges, Unsent
<1>5. /\ rejected' = rejected /\ atext' = applyToAText(r, atext)
      /\ revisions' = IF applyToAText(r, atext) = atext THEN revisions ELSE Append(revisions, r)
  BY <1>3 DEF handleUserChanges
<1> QED BY <1>1, <1>2, <1>4, <1>5

LEMMA SubmissionKeepsTexts ==
    ASSUME TrackerInv, TextsInv, NEW a \in Authors, handleUserChanges(a)
    PROVE  TextsInv'
<1> DEFINE r == Rebased(wire[a].changeset, wire[a].baseRev)
           n == Len(revisions)
           m == Len(revisions')
           after == applyToAText(r, atext)
<1>1. /\ sent[a] /\ sent' = [sent EXCEPT ![a] = FALSE]
      /\ wire' = [wire EXCEPT ![a] = [changeset |-> None, baseRev |-> 0]]
      /\ base' = base /\ submitted' = submitted /\ user' = user /\ doc' = doc /\ edits' = edits
      /\ rejected' = rejected /\ atext' = after
      /\ revisions' = IF after = atext THEN revisions ELSE Append(revisions, r)
      /\ FitsBody(r, PadBody(n))
  BY SubmissionTaken
<1> HIDE DEF r
<1>2. HistoryOk /\ Shaped /\ DOMAIN sent = Authors /\ DOMAIN wire = Authors /\ n \in Nat
  BY HistoryShape DEF TextsInv, TrackerInv, Shaped
<1>3. TrackerInv'
  BY SubmissionKeeps
<1>4. ShowsBody(atext, PadBody(n)) /\ ShowsBody(after, Put(r, PadBody(n)))
  <2>1. ShowsBody(atext, PadBody(n))
    BY <1>2, PadShows
  <2> DEFINE t == PadBody(n)
  <2> HIDE DEF t
  <2>2. ShowsBody(after, Put(r, t))
    BY <1>1, <2>1, Applied DEF t
  <2> QED BY <2>1, <2>2 DEF t
<1>5. \A i \in 1 .. n : revisions'[i] = revisions[i]
  <2>1. PICK S : revisions \in Seq(S)
    BY <1>2 DEF Shaped
  <2>2. \A i \in 1 .. n : Append(revisions, r)[i] = revisions[i]
    <3> DEFINE T == S \cup {r}
    <3>1. r \in T /\ S \subseteq T
      OBVIOUS
    <3> HIDE DEF T
    <3>2. revisions \in Seq(T)
      BY <2>1, <3>1
    <3> QED BY <3>1, <3>2, AppendProperties
  <2> QED BY <1>1, <2>2
<1>6. revisions' = revisions \/ (m = n + 1 /\ revisions'[n + 1] = r)
  <2>1. PICK S : revisions \in Seq(S)
    BY <1>2 DEF Shaped
  <2>2. Len(Append(revisions, r)) = n + 1 /\ Append(revisions, r)[n + 1] = r
    <3> DEFINE T == S \cup {r}
    <3>1. r \in T /\ S \subseteq T
      OBVIOUS
    <3> HIDE DEF T
    <3>2. revisions \in Seq(T)
      BY <2>1, <3>1
    <3> QED BY <3>1, <3>2, AppendProperties
  <2> QED BY <1>1, <2>2
<1> HIDE DEF after
<1>7. \A i \in 0 .. n : TextAt(revisions', i) = TextAt(revisions, i)
  <2> TAKE i \in 0 .. n
  <2>1. i \in Nat /\ \A j \in 1 .. i : revisions'[j] = revisions[j]
    BY <1>2, <1>5
  <2> QED BY <2>1, TextAlike
<1>8. \A i \in 0 .. n : PadBody(i)' = PadBody(i)
  <2> TAKE i \in 0 .. n
  <2>1. TextAt(revisions', i) = TextAt(revisions, i)
    BY <1>7
  <2> QED BY <2>1 DEF PadBody
<1>9. HistoryOk'
  <2>1. CASE revisions' = revisions
    BY <1>2, <2>1, HistoryQuiet
  <2>2. CASE m = n + 1 /\ revisions'[n + 1] = r
    <3>1. ASSUME NEW i \in 0 .. m
          PROVE  ShowsBody(TextAt(revisions', i), PadBody(i)')
      <4>1. CASE i \in 0 .. n
        BY <1>2, <1>7, <1>8, <4>1 DEF HistoryOk
      <4>2. CASE i = m
        <5>1. TextAt(revisions', m) = atext'
          BY <1>3 DEF TrackerInv, BaseIsRevision
        <5> DEFINE s == TextAt(revisions', m)
                   v == Put(r, PadBody(n))
        <5>2. ShowsBody(s, v)
          BY <1>1, <1>4, <5>1
        <5> HIDE DEF s, v
        <5>3. Body(s) = v
          BY <5>2, ShownIs
        <5> QED BY <4>2, <5>2, <5>3 DEF PadBody, s
      <4> QED BY <1>2, <2>2, <4>1, <4>2
    <3>2. ASSUME NEW i \in 1 .. m
          PROVE  FitsBody(revisions'[i], PadBody(i - 1)')
      <4>1. i - 1 \in 0 .. n
        BY <1>2, <2>2
      <4>2. PadBody(i - 1)' = PadBody(i - 1)
        BY <1>8, <4>1
      <4>3. CASE i \in 1 .. n
        BY <1>2, <1>5, <4>2, <4>3 DEF HistoryOk
      <4>4. CASE i = n + 1
        <5>1. i - 1 = n
          BY <1>2, <4>4
        <5> QED BY <1>1, <2>2, <4>2, <4>4, <5>1
      <4> QED BY <1>2, <2>2, <4>3, <4>4
    <3> QED BY <3>1, <3>2 DEF HistoryOk, PadBody
  <2> QED BY <1>6, <2>1, <2>2
<1>10. Counted'
  BY <1>1 DEF Counted, TextsInv
<1>11. ASSUME NEW q \in Authors
       PROVE  LayersOk(q)' /\ WireOk(q)'
  <2>1. LayersOk(q) /\ WireOk(q)
    BY DEF TextsInv
  <2>2. LayersOk(q)'
    BY <1>1, <2>1, LayersQuiet
  <2>3. WireOk(q)'
    <3>1. CASE ~sent'[q]
      BY <3>1 DEF WireOk
    <3>2. CASE sent'[q]
      <4>1. sent[q] /\ wire'[q] = wire[q]
        BY <1>1, <1>2, <3>2
      <4>2. wire[q].baseRev \in 0 .. n /\ FitsBody(wire[q].changeset, PadBody(wire[q].baseRev))
        BY <2>1, <4>1 DEF WireOk
      <4>3. wire[q].baseRev \in 0 .. m
        BY <1>2, <1>6, <4>2
      <4>4. PadBody(wire[q].baseRev)' = Body(TextAt(revisions', wire'[q].baseRev))
        BY DEF PadBody
      <4>5. Body(TextAt(revisions', wire'[q].baseRev)) = PadBody(wire[q].baseRev)
        BY <1>7, <4>1, <4>2 DEF PadBody
      <4> QED BY <4>1, <4>2, <4>3, <4>4, <4>5 DEF WireOk
    <3> QED BY <3>1, <3>2
  <2> QED BY <2>2, <2>3
<1> QED BY <1>1, <1>9, <1>10, <1>11 DEF TextsInv

-----------------------------------------------------------------------------
(* The theorems about the texts. *)

LEMMA TextsQuiet ==
    ASSUME TextsInv, UNCHANGED vars
    PROVE  TextsInv'
<1>1. /\ revisions' = revisions /\ base' = base /\ submitted' = submitted /\ user' = user /\ doc' = doc
      /\ sent' = sent /\ wire' = wire /\ edits' = edits /\ rejected' = rejected
  BY DEF vars
<1>2. HistoryOk'
  BY <1>1, HistoryQuiet DEF TextsInv
<1>3. Counted'
  BY <1>1 DEF TextsInv, Counted
<1>4. ASSUME NEW a \in Authors PROVE LayersOk(a)' /\ WireOk(a)'
  <2>1. LayersOk(a) /\ WireOk(a)
    BY DEF TextsInv
  <2>2. LayersOk(a)'
    BY <1>1, <2>1, LayersQuiet
  <2>3. WireOk(a)'
    BY <1>1, <2>1, WireQuiet
  <2> QED BY <2>2, <2>3
<1>5. ~rejected'
  BY <1>1 DEF TextsInv
<1> QED BY <1>2, <1>3, <1>4, <1>5 DEF TextsInv

LEMMA TextsStep == TrackerInv /\ TextsInv /\ [Next]_vars => TextsInv'
<1> SUFFICES ASSUME TrackerInv, TextsInv, [Next]_vars PROVE TextsInv'
  OBVIOUS
<1>1. ASSUME NEW a \in Authors, Type(a) PROVE TextsInv'
  BY <1>1, TypeKeepsTexts
<1>2. ASSUME NEW a \in Authors, Embolden(a) PROVE TextsInv'
  BY <1>2, EmboldenKeepsTexts
<1>3. ASSUME NEW a \in Authors, Prepare(a) PROVE TextsInv'
  BY <1>3, PrepareKeepsTexts
<1>4. ASSUME NEW a \in Authors, LoseSubmission(a) PROVE TextsInv'
  BY <1>4, LossKeepsTexts
<1>5. ASSUME NEW a \in Authors, ReceiveNewChanges(a) PROVE TextsInv'
  BY <1>5, NewChangesKeepTexts
<1>6. ASSUME NEW a \in Authors, ReceiveAcceptCommit(a) PROVE TextsInv'
  BY <1>6, AcceptCommitKeepsTexts
<1>7. ASSUME NEW a \in Authors, handleUserChanges(a) PROVE TextsInv'
  BY <1>7, SubmissionKeepsTexts
<1>8. ASSUME UNCHANGED vars PROVE TextsInv'
  BY <1>8, TextsQuiet
<1> QED BY <1>1, <1>2, <1>3, <1>4, <1>5, <1>6, <1>7, <1>8 DEF Next

LEMMA TextsInvariant == Spec => [](TrackerInv /\ TextsInv)
<1>1. Init => TrackerInv /\ TextsInv
  BY TrackerInit, TextsInit, TrackerAssumption
<1>2. TrackerInv /\ TextsInv /\ [Next]_vars => (TrackerInv /\ TextsInv)'
  BY TrackerStep, TextsStep
<1> QED BY <1>1, <1>2, PTL DEF Spec

\* The official text with what is submitted.
LEMMA HeldShows ==
    ASSUME TrackerInv, TextsInv, NEW a \in Authors
    PROVE  ShowsBody(IF submitted[a] = None THEN base[a] ELSE applyToAText(submitted[a], base[a]), Held(a))
<1> DEFINE s == base[a]
           b == Body(base[a])
           cs == submitted[a]
<1>1. ShowsBody(s, b)
  BY BaseShows
<1>2. cs # None => FitsBody(cs, b)
  BY DEF TextsInv, LayersOk
<1>3. CASE cs = None
  BY <1>1, <1>3 DEF Held
<1>4. CASE cs # None
  <2>1. FitsBody(cs, b)
    BY <1>2, <1>4
  <2> HIDE DEF s, b, cs
  <2>2. ShowsBody(applyToAText(cs, s), Put(cs, b))
    BY <1>1, <2>1, Applied
  <2> QED BY <1>4, <2>2 DEF Held, s, b, cs
<1> QED BY <1>3, <1>4

LEMMA NoneCanonical == Canonical(None)
<1>1. None.ops = Nil
  BY DEF None, Nil
<1> QED BY <1>1, AssembleNil DEF Canonical

LEMMA BrowserTyped ==
    ASSUME TrackerInv, TextsInv, NEW a \in Authors
    PROVE  /\ rev[a] \in 0 .. Len(revisions)
           /\ edits[a] \in 0 .. MaxEdits[a]
           /\ Canonical(user[a]) /\ Canonical(submitted[a])
           /\ submitted[a] # None => submitted[a].oldLen = Length(base[a])
           /\ user[a].oldLen = IF submitted[a] = None THEN Length(base[a]) ELSE newLen(submitted[a])
<1> DEFINE s == base[a]
           b == Body(base[a])
           cs == submitted[a]
           u == user[a]
           h == Held(a)
<1>1. rev[a] \in 0 .. Len(revisions) /\ ShowsBody(s, b)
  BY BaseShows
<1>2. /\ cs # None => FitsBody(cs, b)
      /\ FitsBody(u, h)
      /\ h = IF cs = None THEN b ELSE Put(cs, b)
  BY DEF TextsInv, LayersOk, Held
<1>3. edits[a] \in 0 .. MaxEdits[a]
  <2>1. edits[a] \in Nat /\ edits[a] <= MaxEdits[a] /\ MaxEdits[a] \in Nat
    BY TrackerAssumption DEF TextsInv, Counted, TrackerAssumption
  <2> QED BY <2>1
<1> HIDE DEF s, b, cs, u, h
<1>4. Length(s) = Len(b) + 1
  BY <1>1, ShownIs
<1>5. Canonical(u) /\ u.oldLen = Len(h) + 1
  BY <1>2, FitsIs
<1>6. CASE cs = None
  <2>1. h = b /\ Canonical(cs)
    BY <1>2, <1>6, NoneCanonical
  <2> QED BY <1>1, <1>3, <1>4, <1>5, <1>6, <2>1 DEF s, cs, u
<1>7. CASE cs # None
  <2>1. FitsBody(cs, b) /\ h = Put(cs, b)
    BY <1>2, <1>7
  <2>2. Canonical(cs) /\ cs.oldLen = Len(b) + 1 /\ newLen(cs) = Len(Put(cs, b)) + 1
    BY <2>1, FitsIs
  <2> QED BY <1>1, <1>3, <1>4, <1>5, <1>7, <2>1, <2>2 DEF s, cs, u
<1> QED BY <1>6, <1>7

LEMMA RevisionCanonical ==
    ASSUME Shaped, HistoryOk, NEW i \in DOMAIN revisions
    PROVE  Canonical(revisions[i])
<1>1. PICK S : revisions \in Seq(S)
  BY DEF Shaped
<1>2. i \in 1 .. Len(revisions)
  BY <1>1
<1> DEFINE cs == revisions[i]
           b == PadBody(i - 1)
<1>3. FitsBody(cs, b)
  BY <1>2 DEF HistoryOk
<1> HIDE DEF cs, b
<1>4. Canonical(cs)
  BY <1>3, FitsIs
<1> QED BY <1>4 DEF cs

\* Whatever the browsers type and however their messages cross, the texts of
\* pad and browsers end in a newline, the revisions and the changesets of the
\* tracker are in canonical form (what checkRep asks for), and each fits the
\* length of the text it is for.
THEOREM TextsAndChangesetsFit == Spec => []TypeOK
<1>1. TrackerInv /\ TextsInv => TypeOK
  <2> SUFFICES ASSUME TrackerInv, TextsInv PROVE TypeOK
    OBVIOUS
  <2>1. HistoryOk /\ Shaped
    BY DEF TextsInv, TrackerInv
  <2>2. \A i \in DOMAIN revisions : Canonical(revisions[i])
    BY <2>1, RevisionCanonical
  <2>3. EndsInNewline(Chars(atext))
    <3> DEFINE b == PadBody(Len(revisions))
    <3>1. ShowsBody(atext, b)
      BY <2>1, PadShows
    <3> HIDE DEF b
    <3> QED BY <3>1, ShownIs
  <2> QED BY <2>2, <2>3, BrowserTyped DEF TypeOK
<1> QED BY <1>1, TextsInvariant, PTL

\* What an editor shows (the rep of ace2_inner.ts) is the official text of its
\* tracker, then what is submitted, then what was typed since, whatever
\* revisions arrived in between and were put behind what was typed.
THEOREM EditorShowsLayers == Spec => []DocIsLayers
<1>1. TrackerInv /\ TextsInv => DocIsLayers
  <2> SUFFICES ASSUME TrackerInv, TextsInv, NEW a \in Authors
               PROVE  doc[a] = Chars(applyToAText(user[a],
                          IF submitted[a] = None THEN base[a] ELSE applyToAText(submitted[a], base[a])))
    BY DEF DocIsLayers
  <2> DEFINE s == IF submitted[a] = None THEN base[a] ELSE applyToAText(submitted[a], base[a])
             h == Held(a)
             u == user[a]
             t == applyToAText(u, s)
             v == Put(u, h)
  <2>1. ShowsBody(s, h)
    BY HeldShows
  <2>2. FitsBody(u, h) /\ doc[a] = Whole(v)
    BY DEF TextsInv, LayersOk, Shown
  <2> HIDE DEF s, h, u
  <2>3. ShowsBody(t, v)
    BY <2>1, <2>2, Applied
  <2> HIDE DEF t, v
  <2>4. Chars(t) = Whole(v)
    BY <2>3, ShownIs
  <2> QED BY <2>2, <2>4 DEF t, u, s
<1> QED BY <1>1, TextsInvariant, PTL

\* No submission is answered with badChangeset: rebased over what others typed
\* and submitted first, it still is canonical, fits the pad's text and leaves
\* its final newline (the checks of handleUserChanges and appendRevision).
THEOREM SubmissionsAreTaken == Spec => []NeverRejected
<1>1. TextsInv => NeverRejected
  BY DEF TextsInv, NeverRejected
<1> QED BY <1>1, TextsInvariant, PTL

LEMMA SubmissionArrives ==
    ASSUME TrackerInv, TextsInv, NEW a \in Authors, handleUserChanges(a), Len(revisions') > Len(revisions)
    PROVE  Inserted(Last(revisions')) = Inserted(wire[a].changeset)
<1> DEFINE cs == wire[a].changeset
           b == wire[a].baseRev
           n == Len(revisions)
           r == Rebased(cs, b)
<1>1. WireOk(a) /\ HistoryOk /\ Shaped
  BY DEF TextsInv, TrackerInv
<1>2. /\ sent[a]
      /\ revisions' = IF applyToAText(r, atext) = atext THEN revisions ELSE Append(revisions, r)
  BY SubmissionTaken
<1>3. b \in 0 .. n /\ FitsBody(cs, PadBody(b)) /\ n \in Nat
  BY <1>1, <1>2, PadShows DEF WireOk
<1>4. PICK S : revisions \in Seq(S)
  BY <1>1 DEF Shaped
<1>5. Last(revisions') = r
  <2>1. revisions' = Append(revisions, r)
    BY <1>2, <1>3
  <2> HIDE DEF r, n
  <2>2. Len(Append(revisions, r)) = Len(revisions) + 1 /\ Append(revisions, r)[Len(revisions) + 1] = r
    <3> DEFINE C == S \cup {r}
    <3>1. revisions \in Seq(C) /\ r \in C
      BY <1>4
    <3> HIDE DEF C
    <3> QED BY <3>1, AppendProperties
  <2> QED BY <2>1, <2>2 DEF Last
<1>6. cs.ops \in Lists(Alphabet)
  <2> DEFINE v == PadBody(b)
  <2> HIDE DEF v, cs
  <2>1. FitsBody(cs, v)
    BY <1>3 DEF v
  <2> QED BY <2>1, FitsIs
<1>7. ASSUME NEW i \in b + 1 .. n PROVE revisions[i].ops \in Lists(Alphabet)
  <2> DEFINE v == PadBody(i - 1)
             c == revisions[i]
  <2>1. i \in 1 .. n
    BY <1>3, <1>7
  <2>2. FitsBody(c, v)
    BY <1>1, <2>1 DEF HistoryOk
  <2> HIDE DEF v, c
  <2>3. c.ops \in Lists(Alphabet)
    BY <2>2, FitsIs
  <2> QED BY <2>3 DEF c
<1>8. r = RebasedTo(revisions, cs, b, n)
  BY DEF Rebased
<1>9. b \in Nat /\ b <= n
  BY <1>3
<1> HIDE DEF cs, b, n, r
<1>10. Inserted(RebasedTo(revisions, cs, b, n)) = Inserted(cs)
  BY <1>3, <1>6, <1>7, <1>9, RebasedInserts
<1> QED BY <1>5, <1>8, <1>10 DEF cs

\* A submission that becomes a revision inserts what its author typed, all of
\* it and in its order, whatever revisions it was rebased over (the loop of
\* handleUserChanges): a rebase can only move and split it.
THEOREM SubmittedTextArrives == Spec => TypedTextArrives
<1>1. TrackerInv /\ TextsInv /\ [Next]_vars
        => [\A a \in Authors : sent[a] /\ ~sent'[a] /\ Len(revisions') > Len(revisions) =>
              Inserted(Last(revisions')) = Inserted(wire[a].changeset)]_vars
  <2> SUFFICES ASSUME TrackerInv, TextsInv, Next, NEW a \in Authors,
                      sent[a], ~sent'[a], Len(revisions') > Len(revisions)
               PROVE  Inserted(Last(revisions')) = Inserted(wire[a].changeset)
    OBVIOUS
  <2>1. revisions' # revisions
    <3>1. Len(revisions) \in Nat
      BY PadShows DEF TextsInv
    <3> SUFFICES ASSUME revisions' = revisions PROVE FALSE
      OBVIOUS
    <3>2. Len(revisions) > Len(revisions)
      OBVIOUS
    <3> QED BY <3>1, <3>2
  <2>2. PICK b \in Authors : handleUserChanges(b)
    BY <2>1 DEF Next, Type, Embolden, Edit, Prepare, LoseSubmission, ReceiveNewChanges, ReceiveAcceptCommit
  <2>3. sent' = [sent EXCEPT ![b] = FALSE]
    BY <2>2 DEF handleUserChanges, Unsent
  <2>4. b = a
    <3>1. b # a => sent'[a] = sent[a]
      BY <2>3
    <3> QED BY <3>1
  <2> QED BY <2>2, <2>4, SubmissionArrives
<1> QED BY <1>1, TextsInvariant, PTL DEF Spec, TypedTextArrives

\* Nothing is on its way to browser a or from it, and nothing is left to submit.
Settled(a) == down[a] = <<>> /\ submitted[a] = None /\ isIdentity(user[a])

\* A browser with which all is settled shows the pad's text, whatever was typed,
\* lost, rebased and delivered before (the safe half of Converges).
THEOREM SettledTextsAgree == Spec => [](\A a \in Authors : Settled(a) => doc[a] = Chars(atext))
<1>1. TrackerInv /\ TextsInv => \A a \in Authors : Settled(a) => doc[a] = Chars(atext)
  <2> SUFFICES ASSUME TrackerInv, TextsInv, NEW a \in Authors, Settled(a) PROVE doc[a] = Chars(atext)
    OBVIOUS
  <2> DEFINE b == Body(base[a])
             u == user[a]
  <2>1. rev[a] = Len(revisions)
    <3>1. BroughtUpToDate(a) /\ down[a] = <<>>
      BY DEF TrackerInv, BrowserInv, Settled
    <3>2. Len(down[a]) = 0
      BY <3>1
    <3> QED BY <3>1, <3>2 DEF BroughtUpToDate, Reached
  <2>2. base[a] = atext
    BY <2>1 DEF TrackerInv, BaseIsRevision
  <2>3. ShowsBody(base[a], b)
    BY BaseShows
  <2>4. doc[a] = Whole(Put(u, b))
    BY DEF TextsInv, LayersOk, Shown, Held, Settled
  <2>5. u.ops = Nil
    BY DEF Settled, isIdentity, Nil
  <2> HIDE DEF b, u
  <2>6. b \in Seq(Glyphs) /\ Chars(base[a]) = Whole(b)
    BY <2>3, ShownIs
  <2>7. Put(u, b) = b
    <3>1. b \in Texts(Alphabet)
      BY <2>6, GlyphsAre
    <3> QED BY <2>5, <3>1, NilMakes DEF Put
  <2> QED BY <2>2, <2>4, <2>6, <2>7
<1> QED BY <1>1, TextsInvariant, PTL
=============================================================================

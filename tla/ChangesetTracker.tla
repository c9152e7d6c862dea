--------------------------- MODULE ChangesetTracker ---------------------------
(***************************************************************************)
(* What concurrent editing does to the texts: each browser's changeset     *)
(* tracker (static/js/changesettracker.ts), and the rebase of what it      *)
(* submits on the server (handleUserChanges of PadMessageHandler.ts).      *)
(* PadCollab is about which messages are sent and when; here every browser *)
(* keeps one connection, messages arrive in order, and a submission may be *)
(* lost on its way to the server and made again.                           *)
(***************************************************************************)
EXTENDS Changeset, FiniteSets

CONSTANTS
    Authors,     \* the browsers; each writes its own letter
    InitialText, \* the text of revision 0, a sequence of characters
    MaxEdits,    \* a bound on the edits of each browser
    MaxLosses,   \* a bound on the submissions lost
    Edits        \* which edits are made: "insert", "newline", "remove", "replace", "bold"

ASSUME TrackerAssumption ==
    /\ IsFiniteSet(Authors)
    /\ InitialText \in Seq(Authors \cup {Newline})
    /\ InitialText # <<>> /\ Last(InitialText) = Newline
    /\ MaxEdits \in [Authors -> Nat] /\ MaxLosses \in Nat
    /\ Edits \subseteq {"insert", "newline", "remove", "replace", "bold"}

VARIABLES
    revisions,   \* the pad: the changeset of each revision after revision 0
    atext,       \* the pad's text
    base,        \* baseAText of each browser
    submitted,   \* submittedChangeset, or None
    user,        \* userChangeset
    doc,         \* the text in the editor, character by character
    rev,         \* collab_client's rev
    sent,        \* whether a USER_CHANGES is on its way to the server
    wire,        \* what it says
    down,        \* the messages on their way to the browser
    edits,       \* how many edits each browser has made
    losses,
    rejected     \* a submission was answered with badChangeset

vars == <<revisions, atext, base, submitted, user, doc, rev, sent, wire,
          down, edits, losses, rejected>>

\* No changeset is of no text.
None == [ops |-> <<>>]

\* Texts as runs, and character by character.
Runs(text)   == Assemble([i \in DOMAIN text |-> insert(<<text[i].char>>, text[i].bold)])
Chars(runs)  == FlattenSeq([i \in DOMAIN runs |->
                    [j \in 1 .. runs[i].n |-> [char |-> runs[i].text[j], bold |-> runs[i].bold]]])
Plain(text)  == [i \in DOMAIN text |-> [char |-> text[i], bold |-> "none"]]
EndsInNewline(text) == text # <<>> /\ Last(text).char = Newline

Init ==
    /\ revisions = <<>>
    /\ atext = Runs(Plain(InitialText))
    /\ base = [a \in Authors |-> atext]
    /\ submitted = [a \in Authors |-> None]
    /\ user = [a \in Authors |-> identity(Len(InitialText))]
    /\ doc = [a \in Authors |-> Plain(InitialText)]
    /\ rev = [a \in Authors |-> 0]
    /\ sent = [a \in Authors |-> FALSE]
    /\ wire = [a \in Authors |-> [changeset |-> None, baseRev |-> 0]]
    /\ down = [a \in Authors |-> <<>>]
    /\ edits = [a \in Authors |-> 0]
    /\ losses = 0
    /\ rejected = FALSE

-----------------------------------------------------------------------------
(* The editor. *)

Spliced(text, start, ndel, ins) ==
    SubSeq(text, 1, start) \o Plain(ins) \o SubSeq(text, start + ndel + 1, Len(text))

\* doIncorpLineSplice keeps the final newline out of the splices it makes: text
\* typed behind it goes before it, and the line removed at the end of the text
\* loses the newline before it instead of its own.
Adjusted_not(text, start, ndel, ins) == splice(Len(text), start, ndel, ins, "none")
Adjusted(text, start, ndel, ins) ==
    LET len == Len(text) IN
    IF ndel = 0 /\ start = len /\ ins # <<>>
    THEN splice(len, start - 1, 0, <<Newline>> \o Front(ins), "none")
    ELSE IF start + ndel = len /\ ndel > 0 /\ ins = <<>> /\ start > 0
            /\ text[start].char = Newline
    THEN splice(len, start - 1, ndel, ins, "none")
    ELSE splice(len, start, ndel, ins, "none")

Insertions(a) == (IF "insert" \in Edits THEN {<<a>>} ELSE {})
                     \cup (IF "newline" \in Edits THEN {<<Newline>>} ELSE {})

\* The splices of the user of a: [start, ndel, ins].
Splices(a) ==
    [start : 0 .. Len(doc[a]), ndel : {0}, ins : Insertions(a)]
        \cup (IF "remove" \in Edits
              THEN [start : 0 .. Len(doc[a]) - 1, ndel : {1}, ins : {<<>>}] ELSE {})
        \cup (IF "replace" \in Edits
              THEN [start : 0 .. Len(doc[a]) - 2, ndel : {1}, ins : {<<a>>}] ELSE {})

\* composeUserChangeset.
Edit(a, cs, text) ==
    /\ edits[a] < MaxEdits[a]
    /\ ~isIdentity(cs)
    /\ edits' = [edits EXCEPT ![a] = @ + 1]
    /\ user' = [user EXCEPT ![a] = compose(@, cs)]
    /\ doc' = [doc EXCEPT ![a] = text]
    /\ UNCHANGED <<revisions, atext, base, submitted, rev, sent, wire, down, losses, rejected>>

Type(a) ==
    \E s \in Splices(a) :
        LET text == Spliced(doc[a], s.start, s.ndel, s.ins) IN
        /\ EndsInNewline(text)
        /\ Edit(a, Adjusted(doc[a], s.start, s.ndel, s.ins), text)

\* Styles are set within lines.
Embolden(a) ==
    /\ "bold" \in Edits
    /\ \E i \in 1 .. Len(doc[a]) - 1 :
         LET on == doc[a][i].bold = "none" IN
         doc[a][i].char # Newline /\
         Edit(a, setAttribute(Len(doc[a]), i - 1, 1, IF on THEN "true" ELSE "off"),
              [doc[a] EXCEPT ![i].bold = IF on THEN "true" ELSE "none"])

-----------------------------------------------------------------------------
(* The tracker. *)

\* prepareUserChangeset, and the USER_CHANGES sent with it.  A submission that
\* was lost is sent again, together with what was typed since.
ToSubmit_userOnly(a) == user[a]
ToSubmit(a) == IF submitted[a] = None THEN user[a] ELSE compose(submitted[a], user[a])

\* A browser has one submission under way.
Waiting(a) == sent[a] \/ \E i \in DOMAIN down[a] : down[a][i].type = "ACCEPT_COMMIT"

MayPrepare_fresh(a) == ~Waiting(a) /\ submitted[a] = None /\ ~isIdentity(user[a])
MayPrepare(a) == ~Waiting(a) /\ (submitted[a] # None \/ ~isIdentity(user[a]))

Prepare(a) ==
    /\ MayPrepare(a)
    /\ submitted' = [submitted EXCEPT ![a] = ToSubmit(a)]
    /\ user' = [user EXCEPT ![a] = identity(newLen(ToSubmit(a)))]
    /\ sent' = [sent EXCEPT ![a] = TRUE]
    /\ wire' = [wire EXCEPT ![a] = [changeset |-> ToSubmit(a), baseRev |-> rev[a]]]
    /\ UNCHANGED <<revisions, atext, base, doc, rev, down, edits, losses, rejected>>

Unsent(a) == /\ sent' = [sent EXCEPT ![a] = FALSE]
             /\ wire' = [wire EXCEPT ![a] = [changeset |-> None, baseRev |-> 0]]

LoseSubmission(a) ==
    /\ losses < MaxLosses
    /\ sent[a]
    /\ Unsent(a)
    /\ losses' = losses + 1
    /\ UNCHANGED <<revisions, atext, base, submitted, user, doc, rev, down, edits, rejected>>

\* What is submitted gives way to what the server has taken before it; what is
\* typed stays in front of it.
SubmittedAfter_reversed(c, sub) == follow(c, sub, TRUE)
SubmittedAfter(c, sub) == follow(c, sub, FALSE)
UserAfter_behind(c2, u) == follow(c2, u, FALSE)
UserAfter(c2, u) == follow(c2, u, TRUE)

applyChangesToBase(a, c) ==
    LET sub == submitted[a]
        c2  == IF sub = None THEN c ELSE follow(sub, c, TRUE)
    IN  /\ base' = [base EXCEPT ![a] = applyToAText(c, @)]
        /\ submitted' = [submitted EXCEPT ![a] =
                             IF sub = None THEN None ELSE SubmittedAfter(c, sub)]
        /\ user' = [user EXCEPT ![a] = UserAfter(c2, @)]
        /\ doc' = [doc EXCEPT ![a] = Chars(applyToAText(follow(user[a], c2, FALSE), Runs(@)))]

ReceiveNewChanges(a) ==
    /\ down[a] # <<>>
    /\ Head(down[a]).type = "NEW_CHANGES"
    /\ applyChangesToBase(a, revisions[Head(down[a]).newRev])
    /\ rev' = [rev EXCEPT ![a] = Head(down[a]).newRev]
    /\ down' = [down EXCEPT ![a] = Tail(@)]
    /\ UNCHANGED <<revisions, atext, sent, wire, edits, losses, rejected>>

\* applyPreparedChangesetToBase.
ReceiveAcceptCommit(a) ==
    /\ down[a] # <<>>
    /\ Head(down[a]).type = "ACCEPT_COMMIT"
    /\ base' = [base EXCEPT ![a] = applyToAText(submitted[a], @)]
    /\ submitted' = [submitted EXCEPT ![a] = None]
    /\ rev' = [rev EXCEPT ![a] = Head(down[a]).newRev]
    /\ down' = [down EXCEPT ![a] = Tail(@)]
    /\ UNCHANGED <<revisions, atext, user, doc, sent, wire, edits, losses, rejected>>

-----------------------------------------------------------------------------
(* The server. *)

\* A changeset of revision baseRev as it is after revision r.
RebasedTo(revs, cs, baseRev, r) ==
    LET rebased[i \in Nat] ==
            IF i <= baseRev THEN cs ELSE follow(revs[i], rebased[i - 1], FALSE)
    IN  rebased[r]

Rebased(cs, baseRev) == RebasedTo(revisions, cs, baseRev, Len(revisions))

\* A changeset that is not canonical, does not fit the text, or leaves it
\* without its final newline is refused.
Fits(cs)   == cs.oldLen = Length(atext)
Sound(cs)  == Fits(cs) /\ EndsInNewline(Chars(applyToAText(cs, atext)))

\* A changeset that changes nothing makes no revision; the others get the
\* revision it makes.
handleUserChanges(a) ==
    LET cs     == wire[a].changeset
        r      == Rebased(cs, wire[a].baseRev)
        after  == applyToAText(r, atext)
        newRev == IF after = atext THEN Len(revisions) ELSE Len(revisions) + 1
    IN  /\ sent[a]
        /\ Unsent(a)
        /\ IF ~Canonical(cs) \/ ~Sound(r)
           THEN rejected' = TRUE /\ UNCHANGED <<revisions, atext, down>>
           ELSE /\ atext' = after
                /\ revisions' = IF after = atext THEN revisions ELSE Append(revisions, r)
                /\ down' = [b \in Authors |->
                     IF b = a THEN Append(down[b], [type |-> "ACCEPT_COMMIT", newRev |-> newRev])
                     ELSE IF after = atext THEN down[b]
                     ELSE Append(down[b], [type |-> "NEW_CHANGES", newRev |-> newRev])]
                /\ UNCHANGED rejected
        /\ UNCHANGED <<base, submitted, user, doc, rev, edits, losses>>

Next == \E a \in Authors :
    \/ Type(a) \/ Embolden(a) \/ Prepare(a) \/ LoseSubmission(a)
    \/ ReceiveNewChanges(a) \/ ReceiveAcceptCommit(a) \/ handleUserChanges(a)

\* Messages arrive and are handled, and the editor's idle timer lets the
\* client submit; nobody has to type.  (Prepare alone sets `sent', and only
\* the receipt of a message shortens `down'.)
Fairness == \A a \in Authors :
    /\ WF_sent(MayPrepare(a) /\ sent' = [sent EXCEPT ![a] = TRUE])
    /\ WF_sent(sent[a] /\ sent' = [sent EXCEPT ![a] = FALSE])
    /\ WF_down(down[a] # <<>> /\ down' = [down EXCEPT ![a] = Tail(@)])

Spec == Init /\ [][Next]_vars /\ Fairness

-----------------------------------------------------------------------------
\* Texts end in a newline, and every changeset that is kept is in canonical
\* form and fits the text it applies to.
TypeOK ==
    /\ \A i \in DOMAIN revisions : Canonical(revisions[i])
    /\ EndsInNewline(Chars(atext))
    /\ \A a \in Authors :
         /\ rev[a] \in 0 .. Len(revisions)
         /\ edits[a] \in 0 .. MaxEdits[a]
         /\ Canonical(user[a]) /\ Canonical(submitted[a])
         /\ submitted[a] # None => submitted[a].oldLen = Length(base[a])
         /\ user[a].oldLen = IF submitted[a] = None THEN Length(base[a]) ELSE newLen(submitted[a])

\* What the user sees is the official text, then what is submitted, then what
\* is typed: edits that cross on the way leave editor and tracker in step
\* (applyChangesToBase; the two sides of follow lead to one text).
DocIsLayers ==
    \A a \in Authors :
        LET official == IF submitted[a] = None THEN base[a] ELSE applyToAText(submitted[a], base[a])
        IN  doc[a] = Chars(applyToAText(user[a], official))

\* The text of revision r.
TextAt(revs, r) ==
    LET text[i \in Nat] ==
            IF i = 0 THEN Runs(Plain(InitialText)) ELSE applyToAText(revs[i], text[i - 1])
    IN  text[r]

\* A browser's official text is the pad's text at its revision, although the
\* server rebased the submission on its own and never says with what result.
BaseIsRevision ==
    /\ atext = TextAt(revisions, Len(revisions))
    /\ \A a \in Authors : base[a] = TextAt(revisions, rev[a])

\* No submission of an unmodified browser is answered with badChangeset: what
\* one browser keeps whole, no rebase breaks.
NeverRejected == ~rejected

Inserted(cs) == FlattenSeq([i \in DOMAIN cs.ops |-> cs.ops[i].text])

\* A rebase neither drops nor reorders what its author has typed.
TypedTextArrives ==
    [][\A a \in Authors :
         sent[a] /\ ~sent'[a] /\ Len(revisions') > Len(revisions) =>
             Inserted(Last(revisions')) = Inserted(wire[a].changeset)]_vars

\* When nobody types any more, all browsers come to show the pad's text.
Converges == <>[](\A a \in Authors : doc[a] = Chars(atext))
=============================================================================

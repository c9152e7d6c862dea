---------------------------- MODULE PadRevisions ----------------------------
(***************************************************************************)
(* The data the collaborative editor moves around: edits, changesets, the  *)
(* text they are applied to and the stored revisions of one pad.           *)
(*                                                                         *)
(* A changeset is kept to what the protocol can tell apart: which edits it *)
(* inserts and the length of the document it was made for.  Positions and  *)
(* attributes are left out, so two texts are equal here when every edit    *)
(* occurs in both equally often.                                           *)
(***************************************************************************)
EXTENDS Naturals, Sequences, FiniteSets

CONSTANTS Clients,    \* browser tabs that have the pad open at some time
          Authors,    \* author ids, as stored in revisions
          AuthorOf,   \* the author id of each client's session
          Joined,     \* clients that have the pad open at the beginning
          Writers,    \* clients whose user types
          Api,        \* stands for HTTP API callers and imports
          Fix,        \* stands for the server's line-marker corrections
          MaxEdits,   \* bound: edits typed by one client
          MaxApi,     \* bound: revisions appended by API calls
          MaxFix      \* bound: corrections the server appends

ASSUME ClientsAssumption == /\ IsFiniteSet(Clients)
                            /\ AuthorOf \in [Clients -> Authors]
                            /\ Joined \subseteq Clients /\ Writers \subseteq Clients
ASSUME OriginsAssumption == Api \notin Clients /\ Fix \notin Clients /\ Api # Fix
ASSUME BoundsAssumption == MaxEdits \in Nat /\ MaxApi \in Nat /\ MaxFix \in Nat

EditsOf(c) == {c} \X (1..MaxEdits)
ApiEdits == {Api} \X (1..MaxApi)
FixEdits == {Fix} \X (1..MaxFix)
Edits == (Clients \X (1..MaxEdits)) \cup ApiEdits \cup FixEdits

Changesets == [edits: SUBSET Edits, oldLen: Nat]
Texts == [has: [Edits -> Nat], len: Nat]
Revisions == [changeset: Changesets, author: Authors \cup {Api}]

EmptyText == [has |-> [e \in Edits |-> 0], len |-> 0]

NewLen(cs) == cs.oldLen + Cardinality(cs.edits)
Identity(n) == [edits |-> {}, oldLen |-> n]
IsIdentity(cs) == cs.edits = {}

(* A changeset applies to a text of the length it was made for. *)
Fits(cs, text) == cs.oldLen = text.len

ApplyToText(cs, text) ==
    [has |-> [e \in Edits |-> text.has[e] + IF e \in cs.edits THEN 1 ELSE 0],
     len |-> text.len + Cardinality(cs.edits)]

(* follow(c, cs) rebases cs over c when both were made for texts of one     *)
(* length: the same insertions, made for the text after c.                  *)
CanFollow(c, cs) == c.oldLen = cs.oldLen
Follow(c, cs) == [edits |-> cs.edits, oldLen |-> NewLen(c)]

(* The text of revision r, by counting the revisions that insert an edit. *)
LengthAt(revisions, r) == IF r = 0 THEN 0 ELSE NewLen(revisions[r].changeset)
TextAt(revisions, r) ==
    [has |-> [e \in Edits |->
                 Cardinality({i \in 1..r : e \in revisions[i].changeset.edits})],
     len |-> LengthAt(revisions, r)]
=============================================================================

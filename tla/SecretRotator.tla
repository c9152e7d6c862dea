---------------------------- MODULE SecretRotator ----------------------------
(***************************************************************************)
(* Rotation of the secrets that sign cookies (node/security/SecretRotator, *)
(* used in node/hooks/express.ts and node/security/OAuth2Provider.ts): the *)
(* instances share a database, in which each keeps the parameters that the *)
(* secrets of all are derived from, and have clocks of their own.          *)
(*                                                                         *)
(* A secret is the parameters and the interval it is derived for.  Time    *)
(* stands still while an instance must act and is late by Slack already.   *)
(*                                                                         *)
(* A definition right before the one it varies (expired_early before       *)
(* expired) is a mistake the properties must notice.                       *)
(***************************************************************************)
EXTENDS Integers, FiniteSets, Functions

CONSTANTS
    Instances,
    Skew,          \* how far the clock of each is ahead
    Slack,         \* how late a timer or an answer of the database may be
    Intervals,     \* the values of keyRotationInterval
    Lifetime,      \* settings.cookie.sessionLifetime
    LegacyKey,     \* whether settings.sessionKey is set
    Live,          \* TRUE: the consumer holds the array (OAuth2Provider); FALSE: it
                   \* holds the first secret of the array as it was at the start (express)
    RacingStarts,  \* FALSE: no update of another instance overlaps the first one
                   \* of an instance
    Epoch, MaxTime, MaxStarts   \* the first moment; bounds on time and on starts

\* The clocks are to be in step by less than an interval (settings.json.template).
ASSUME RotatorAssumption ==
    /\ Skew \in [Instances -> Nat] /\ Slack \in Nat
    /\ Intervals \subseteq Nat \ {0} /\ Intervals # {} /\ Lifetime \in Nat \ {0}
    /\ \A i \in Instances, n \in Intervals : Skew[i] + Slack < n
    /\ LegacyKey \in BOOLEAN /\ Live \in BOOLEAN /\ RacingStarts \in BOOLEAN
    /\ MaxTime \in Nat /\ Epoch \in 0 .. MaxTime /\ MaxStarts \in Nat

VARIABLES
    now,
    db,        \* the published parameters, by id
    ids,       \* how many ids have been made up
    phase,     \* each instance is "down", "starting" or "up"
    interval,  \* its _interval
    update,    \* its _update in progress
    writes,    \* its writes on their way to the database
    due,       \* when its timer fires, by its clock
    secrets,   \* its secrets
    boot,      \* what a consumer that does not hold the array has instead
    used,      \* what has been signed: each secret, and when it was used last
    starts

vars == <<now, db, ids, phase, interval, update, writes, due, secrets, boot, used, starts>>

None   == [id |-> 0, start |-> 0, end |-> 0, interval |-> 0]
Params(id, start, end, n) == [id |-> id, start |-> start, end |-> end, interval |-> n]
IsLegacy(p) == p.interval = 0

Secret(p, start) == [id |-> p.id, start |-> start, interval |-> p.interval]
LegacySecret == Secret(None, 0)
NoSecrets    == [first |-> LegacySecret, all |-> {}]

Clock(i) == now + Skew[i]
AnInterval == CHOOSE n \in Intervals : TRUE
intervalStart(t, n) == t - (t % n)
Later(s, t)   == IF s > t THEN s ELSE t
Earlier(s, t) == IF s < t THEN s ELSE t

-----------------------------------------------------------------------------
(* _deriveSecrets: from the interval of time t back to the first one, or to *)
(* those whose signatures have expired, and the one to come.                *)
expired_early(p, tN, t) == t >= tN + p.interval + Lifetime
expired_never(p, tN, t) == FALSE
expired(p, tN, t)       == t >= tN + 2 * p.interval + Lifetime

FirstInterval_own(p) == intervalStart(p.start, p.interval)
FirstInterval(p)     == intervalStart(p.start - p.interval, p.interval)
LastInterval(p)      == intervalStart(p.end - 1, p.interval)

Current(p, t) == Earlier(intervalStart(t, p.interval), LastInterval(p))

deriveSecrets(p, t) ==
    IF IsLegacy(p) THEN {LegacySecret}
    ELSE LET next == intervalStart(t, p.interval) + p.interval
             past == {tN \in FirstInterval(p) .. Current(p, t) :
                         tN % p.interval = 0 /\ ~expired(p, tN, t)}
         IN  {Secret(p, tN) : tN \in past \cup ({next} \cap 0 .. LastInterval(p))}

-----------------------------------------------------------------------------
NoUpdate == [pc |-> "none", at |-> 0, todo |-> {}, current |-> None, others |-> {},
             legacyEnd |-> 0, legacyEnds |-> {}, next |-> 0]

\* Rotation has just been switched on.  Until then express signed with the key
\* itself, the static secret.  The identity provider signed with a hash of the
\* key, which is not among the secrets of any instance: what it signed is
\* refused from now on, and is left out.
Init ==
    /\ now = Epoch
    /\ db = <<>>
    /\ ids = 0
    /\ phase = [i \in Instances |-> "down"]
    /\ interval = [i \in Instances |-> AnInterval]
    /\ update = [i \in Instances |-> NoUpdate]
    /\ writes = [i \in Instances |-> {}]
    /\ due = [i \in Instances |-> 0]
    /\ secrets = [i \in Instances |-> NoSecrets]
    /\ boot = [i \in Instances |-> LegacySecret]
    /\ used = IF LegacyKey /\ ~Live THEN {[secret |-> LegacySecret, at |-> now]} ELSE {}
    /\ starts = 0

At(i, pc) == phase[i] # "down" /\ update[i].pc = pc
Update(i, new) == update' = [update EXCEPT ![i] = new]
Goto(i, pc) == Update(i, [update[i] EXCEPT !.pc = pc])

\* _update begins: it reads the clock.
Begun(i, n) ==
    LET t == Clock(i) IN
    [NoUpdate EXCEPT !.pc = "find", !.at = t, !.legacyEnd = t,
                     !.next = intervalStart(t, n) + n]

\* All instances have one configuration; it may change when none is running.
start(i) ==
    /\ phase[i] = "down"
    /\ starts < MaxStarts
    /\ RacingStarts \/ \A j \in Instances : update[j].pc = "none"
    /\ \E n \in Intervals :
         /\ \A j \in Instances : phase[j] # "down" => interval[j] = n
         /\ interval' = [interval EXCEPT ![i] = n]
         /\ Update(i, Begun(i, n))
    /\ phase' = [phase EXCEPT ![i] = "starting"]
    /\ due' = [due EXCEPT ![i] = Clock(i)]
    /\ starts' = starts + 1
    /\ UNCHANGED <<now, db, ids, writes, secrets, boot>>

TimerFires(i) ==
    /\ phase[i] = "up" /\ At(i, "none")
    /\ Clock(i) >= due[i]
    /\ RacingStarts \/ \A j \in Instances : phase[j] # "starting"
    /\ Update(i, Begun(i, interval[i]))
    /\ UNCHANGED <<now, db, ids, phase, interval, writes, due, secrets, boot, starts>>

FindKeys(i) ==
    /\ At(i, "find")
    /\ Update(i, [update[i] EXCEPT !.pc = "read", !.todo = DOMAIN db])
    /\ UNCHANGED <<now, db, ids, phase, interval, writes, due, secrets, boot, starts>>

\* The process ends, by itself or when an update throws.
Down(i) ==
    /\ phase' = [phase EXCEPT ![i] = "down"]
    /\ Update(i, NoUpdate)
    /\ writes' = [writes EXCEPT ![i] = {}]
    /\ secrets' = [secrets EXCEPT ![i] = NoSecrets]
    /\ boot' = [boot EXCEPT ![i] = LegacySecret]
    /\ due' = [due EXCEPT ![i] = 0]
    /\ interval' = [interval EXCEPT ![i] = AnInterval]
    /\ UNCHANGED <<now, db, ids, starts>>

\* Parameters are of use while anything signed with them may be valid.
Outdated_early(i, p, t) == t >= p.end
Outdated(i, p, t) ==
    t >= p.end + Lifetime + (IF IsLegacy(p) THEN interval[i] ELSE p.interval)

\* The parameters that are in force: the latest that cover the moment.
InForce(i, p, t) ==
    /\ p.interval = interval[i]
    /\ intervalStart(p.start, p.interval) <= intervalStart(t, p.interval) + p.interval
    /\ p.end > t
    /\ update[i].current = None \/ p.start > update[i].current.start

ReadParams(i, k) ==
    LET u == update[i]
        p == db[k]
        seen == [u EXCEPT !.todo = @ \ {k},
                          !.legacyEnd = Earlier(@, p.start),
                          !.legacyEnds = IF IsLegacy(p) THEN @ \cup {p.end} ELSE @]
        dated == [seen EXCEPT !.next = IF IsLegacy(p) THEN @
                     ELSE Earlier(@, intervalStart(u.at, p.interval) + p.interval)]
    IN  /\ At(i, "read")
        /\ k \in u.todo \cap DOMAIN db
        /\ IF Outdated(i, p, u.at)
           THEN Update(i, seen) /\ writes' = [writes EXCEPT ![i] = @ \cup {[k |-> k, params |-> None]}]
           ELSE /\ Update(i, IF InForce(i, p, u.at)
                             THEN [dated EXCEPT !.current = p,
                                                !.others = @ \cup ({u.current} \ {None})]
                             ELSE [dated EXCEPT !.others = @ \cup {p}])
                /\ UNCHANGED writes
        /\ UNCHANGED <<now, db, ids, phase, interval, due, secrets, boot, starts>>

\* The record is gone by now: db.get answers null, and _update throws.
ReadThrows(i) ==
    /\ At(i, "read")
    /\ update[i].todo \ DOMAIN db # {}
    /\ Down(i)

\* The static secret covers what was signed before rotation began.
NeedsLegacy(i) ==
    LET u == update[i] IN
    /\ LegacyKey
    /\ u.at < u.legacyEnd + Lifetime + interval[i]
    /\ \A end \in u.legacyEnds : end < u.legacyEnd

\* The parameters in force last until the end of the next interval.
Extended_not(i, p, t) == [p EXCEPT !.end = Later(@, intervalStart(t, interval[i]) + interval[i])]
Extended(i, p, t) == [p EXCEPT !.end = Later(@, intervalStart(t, interval[i]) + 2 * interval[i])]

Publish(i) ==
    LET u == update[i]
        legacy == IF NeedsLegacy(i) THEN {Params(ids + 1, u.legacyEnd, u.legacyEnd, 0)} ELSE {}
        made == ids + Cardinality(legacy)
        current == Extended(i, IF u.current # None THEN u.current
                               ELSE Params(made + 1, u.at, u.at, interval[i]), u.at)
    IN  /\ At(i, "read")
        /\ u.todo = {}
        /\ writes' = [writes EXCEPT ![i] =
                         @ \cup {[k |-> p.id, params |-> p] : p \in legacy \cup {current}}]
        /\ ids' = IF u.current # None THEN made ELSE made + 1
        /\ Update(i, [u EXCEPT !.pc = "derive", !.current = current, !.others = @ \cup legacy])
        /\ UNCHANGED <<now, db, phase, interval, due, secrets, boot, starts>>

\* The new secrets take the place of the old ones, published or not.
Activate(i) ==
    LET u == update[i] IN
    /\ At(i, "derive")
    /\ secrets' = [secrets EXCEPT ![i] =
           [first |-> Secret(u.current, Current(u.current, u.at)),
            all   |-> UNION {deriveSecrets(p, u.at) : p \in u.others \cup {u.current}}]]
    /\ Goto(i, "await")
    /\ UNCHANGED <<now, db, ids, phase, interval, writes, due, boot, starts>>

Put(k, p) == [j \in {k} \cup DOMAIN db |-> IF j = k THEN p ELSE db[j]]

Stored_emptied(w) == Put(w.k, w.params)
Stored(w) == IF w.params = None THEN Restrict(db, DOMAIN db \ {w.k}) ELSE Put(w.k, w.params)

Write(i) ==
    /\ \E w \in writes[i] :
         /\ db' = Stored(w)
         /\ writes' = [writes EXCEPT ![i] = @ \ {w}]
    /\ UNCHANGED <<now, ids, phase, interval, update, due, secrets, boot, starts>>

Finish(i) ==
    /\ At(i, "await")
    /\ writes[i] = {}
    /\ Update(i, NoUpdate)
    /\ due' = [due EXCEPT ![i] = Later(update[i].next, Clock(i))]
    /\ phase' = [phase EXCEPT ![i] = "up"]
    /\ boot' = [boot EXCEPT ![i] = IF phase[i] = "starting" /\ ~Live THEN secrets[i].first ELSE @]
    /\ UNCHANGED <<now, db, ids, interval, writes, secrets, starts>>

Stop(i) == phase[i] # "down" /\ Down(i)

Tick ==
    /\ now < MaxTime
    /\ \A i \in Instances : phase[i] # "down" => Clock(i) < due[i] + Slack
    /\ now' = now + 1
    /\ UNCHANGED <<db, ids, phase, interval, update, writes, due, secrets, boot, starts>>

Step ==
    \/ \E i \in Instances :
         \/ start(i) \/ TimerFires(i) \/ FindKeys(i) \/ ReadThrows(i) \/ Publish(i)
         \/ Activate(i) \/ Write(i) \/ Finish(i) \/ Stop(i)
         \/ \E k \in DOMAIN db : ReadParams(i, k)
    \/ Tick

-----------------------------------------------------------------------------
(* The consumer: it signs with the first of its keys, and accepts what any  *)
(* of them has signed.                                                      *)
Signs(i)   == IF Live THEN secrets[i].first ELSE boot[i]
Accepts(i) == IF Live THEN secrets[i].all ELSE {boot[i]}

\* An instance that is up signs at any moment.
Signing == {[secret |-> Signs(i), at |-> now] : i \in {j \in Instances : phase[j] = "up"}}

Next ==
    /\ Step
    /\ used' = Signing' \cup {u \in used : /\ now' < u.at + Lifetime
                                           /\ \A s \in Signing' : s.secret # u.secret}

Spec == Init /\ [][Next]_vars

-----------------------------------------------------------------------------
ParamsType   == [id : 1 .. ids, start : Int, end : Int, interval : Intervals \cup {0}]
RotatingType == {p \in ParamsType : ~IsLegacy(p)}
SecretType   == [id : 0 .. ids, start : Int, interval : Intervals \cup {0}]
Named(k, p)  == p.id = k /\ p \in ParamsType
WriteType    == {w \in [k : 1 .. ids, params : ParamsType \cup {None}] :
                    w.params = None \/ w.params.id = w.k}

\* From Publish on, an update has parameters that are in force.
UpdateType ==
    {u \in [pc : {"none", "find", "read", "derive", "await"}, at : Nat, todo : SUBSET (1 .. ids),
            current : RotatingType \cup {None}, others : SUBSET ParamsType,
            legacyEnd : Int, legacyEnds : SUBSET Int, next : Nat] :
        u.pc \in {"derive", "await"} => u.current # None}

RotationOK ==
    /\ now \in Epoch .. MaxTime /\ ids \in Nat /\ starts \in 0 .. MaxStarts
    /\ DOMAIN db \subseteq 1 .. ids /\ \A k \in DOMAIN db : Named(k, db[k])
    /\ phase \in [Instances -> {"down", "starting", "up"}]
    /\ interval \in [Instances -> Intervals]
    /\ update \in [Instances -> UpdateType]
    /\ writes \in [Instances -> SUBSET WriteType]
    /\ due \in [Instances -> Nat]
    /\ secrets \in [Instances -> [first : SecretType, all : SUBSET SecretType]]
    /\ boot \in [Instances -> SecretType]

\* What is published, read, derived and signed with are parameters and secrets
\* of their kind, and every record is found under its own id.
TypeOK == RotationOK /\ used \subseteq [secret : SecretType, at : Epoch .. now]

\* What any instance has signed is accepted by every instance that is up, for
\* as long as it should be valid: over rotations, skewed clocks, late timers,
\* restarts and time in which nothing runs.  (Of one interval: see README.)
SignedIsAccepted ==
    \A i \in Instances, u \in used :
        phase[i] = "up" /\ now < u.at + Lifetime => u.secret \in Accepts(i)

\* No secret is kept once nothing signed with it can be valid any more, and an
\* update's time has passed.
OldSecretsGo ==
    \A i \in Instances : phase[i] = "up" => \A s \in secrets[i].all \ {LegacySecret} :
        Clock(i) < s.start + 3 * s.interval + Lifetime + Slack
=============================================================================

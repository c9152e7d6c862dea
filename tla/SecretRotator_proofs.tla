------------------------ MODULE SecretRotator_proofs ------------------------
(***************************************************************************)
(* Type correctness of the secret rotation, and that an instance drops each *)
(* secret in time, for any instances, clocks, timers and intervals that    *)
(* satisfy RotatorAssumption, racing starts included; and that what is     *)
(* signed is accepted, where the interval stays and nothing races.         *)
(***************************************************************************)
EXTENDS SecretRotator, FiniteSetTheorems, TLAPS

LEMMA Constants ==
    /\ Intervals \subseteq Nat \ {0} /\ AnInterval \in Intervals
    /\ Lifetime \in Nat \ {0} /\ Slack \in Nat /\ Epoch \in Nat
    /\ \A i \in Instances : Skew[i] \in Nat
    /\ \A n \in Intervals : Instances # {} => Slack < n
  BY RotatorAssumption DEF AnInterval

LEMMA IntervalStart ==
    ASSUME NEW t \in Int, NEW n \in Nat \ {0}
    PROVE  /\ intervalStart(t, n) \in Int
           /\ intervalStart(t, n) <= t
           /\ t < intervalStart(t, n) + n
           /\ t \in Nat => intervalStart(t, n) \in Nat
  <1>1. t % n \in 0 .. n - 1
    OBVIOUS
  <1>2. t \in Nat => t % n <= t
    <2>1. CASE t < n
      BY <2>1
    <2>2. CASE t >= n
      BY <1>1, <2>2
    <2> QED BY <2>1, <2>2
  <1> QED BY <1>1, <1>2 DEF intervalStart

\* The next interval begins at most an interval later.
LEMMA NextInterval ==
    ASSUME NEW t \in Nat, NEW n \in Nat \ {0}
    PROVE  /\ intervalStart(t, n) \in Nat /\ intervalStart(t, n) + n \in Nat
           /\ intervalStart(t, n) + 2 * n \in Nat
           /\ t < intervalStart(t, n) + n /\ intervalStart(t, n) + n <= t + n
  <1>1. /\ intervalStart(t, n) \in Nat /\ intervalStart(t, n) <= t
        /\ t < intervalStart(t, n) + n
    BY IntervalStart
  <1> DEFINE s == intervalStart(t, n)
  <1> HIDE DEF s
  <1>2. s \in Nat /\ s <= t => s + n \in Nat /\ s + 2 * n \in Nat /\ s + n <= t + n
    OBVIOUS
  <1> QED BY <1>1, <1>2 DEF s

\* Types grow with the ids that have been made up.
LEMMA TypesGrow ==
    ASSUME ids \in Nat, ids' \in Nat, ids <= ids'
    PROVE  /\ ParamsType \subseteq ParamsType' /\ SecretType \subseteq SecretType'
           /\ RotatingType \subseteq RotatingType'
           /\ UpdateType \subseteq UpdateType' /\ WriteType \subseteq WriteType'
           /\ \A k, p : Named(k, p) => Named(k, p)'
  <1>1. 0 .. ids \subseteq 0 .. ids' /\ 1 .. ids \subseteq 1 .. ids'
    OBVIOUS
  <1>2. ParamsType \subseteq ParamsType'
    BY <1>1 DEF ParamsType
  <1>3. SecretType \subseteq SecretType'
    BY <1>1 DEF SecretType
  <1>a. RotatingType \subseteq RotatingType'
    BY <1>2 DEF RotatingType
  <1>4. UpdateType \subseteq UpdateType'
    BY <1>1, <1>2, <1>a DEF UpdateType
  <1>5. WriteType \subseteq WriteType'
    BY <1>1, <1>2 DEF WriteType
  <1>6. \A k, p : Named(k, p) => Named(k, p)'
    BY <1>2 DEF Named
  <1> QED BY <1>2, <1>3, <1>a, <1>4, <1>5, <1>6

LEMMA TypesStay ==
    ASSUME ids' = ids
    PROVE  /\ ParamsType' = ParamsType /\ SecretType' = SecretType
           /\ RotatingType' = RotatingType
           /\ UpdateType' = UpdateType /\ WriteType' = WriteType
           /\ \A k, p : Named(k, p)' <=> Named(k, p)
  BY DEF ParamsType, RotatingType, SecretType, UpdateType, WriteType, Named

LEMMA NoneTyped ==
    ASSUME ids \in Nat
    PROVE  /\ LegacySecret \in SecretType /\ NoUpdate \in UpdateType
           /\ NoSecrets \in [first : SecretType, all : SUBSET SecretType]
  <1>1. LegacySecret \in SecretType
    BY DEF None, LegacySecret, Secret, SecretType
  <1> QED BY <1>1 DEF NoUpdate, UpdateType, NoSecrets

LEMMA ClockTyped ==
    ASSUME RotationOK, NEW i \in Instances
    PROVE  Clock(i) \in Nat
  BY Constants, RotatorAssumption DEF RotationOK, Clock

\* A secret is derived for parameters and the start of an interval.
LEMMA SecretTyped ==
    ASSUME NEW p \in ParamsType, NEW t \in Int
    PROVE  Secret(p, t) \in SecretType /\ Secret(p, t).interval = p.interval
  BY DEF Secret, ParamsType, SecretType

LEMMA DerivedTyped ==
    ASSUME ids \in Nat, NEW p \in ParamsType, NEW t \in Int
    PROVE  deriveSecrets(p, t) \subseteq SecretType
  <1>1. CASE IsLegacy(p)
    BY <1>1, NoneTyped DEF deriveSecrets
  <1>2. CASE ~IsLegacy(p)
    <2>1. p.interval \in Nat \ {0} /\ p.start \in Int /\ p.end \in Int
      BY <1>2, Constants DEF ParamsType, IsLegacy
    <2>a. \A x \in Int : intervalStart(x, p.interval) \in Int
      BY <2>1, IntervalStart
    <2>b. p.start - p.interval \in Int /\ p.end - 1 \in Int
      BY <2>1
    <2>2. /\ intervalStart(t, p.interval) \in Int
          /\ FirstInterval(p) \in Int /\ LastInterval(p) \in Int /\ Current(p, t) \in Int
      BY <2>a, <2>b DEF FirstInterval, LastInterval, Current, Earlier
    <2>3. SUFFICES ASSUME NEW s \in deriveSecrets(p, t) PROVE s \in SecretType
      OBVIOUS
    <2>4. PICK tN \in Int : s = Secret(p, tN)
      BY <1>2, <2>1, <2>2 DEF deriveSecrets
    <2> QED BY <2>4, SecretTyped
  <1> QED BY <1>1, <1>2

\* The two shapes a step gives to `update'.
LEMMA GotoTyped ==
    ASSUME RotationOK, NEW i \in Instances, NEW u \in UpdateType, Update(i, u)
    PROVE  update' \in [Instances -> UpdateType] /\ update'[i] = u
           /\ \A j \in Instances \ {i} : update'[j] = update[j]
  BY DEF RotationOK, Update

-----------------------------------------------------------------------------
(* Each step keeps the types, and ids that have been made up stay so. *)

LEMMA InitTyped == ASSUME Init PROVE TypeOK
  <1>1. ids \in Nat /\ Epoch \in Nat /\ AnInterval \in Intervals
    BY Constants DEF Init
  <1>2. RotationOK
    BY <1>1, NoneTyped, RotatorAssumption DEF Init, RotationOK
  <1>3. used \subseteq [secret : SecretType, at : Epoch .. now]
    BY <1>1, NoneTyped DEF Init
  <1> QED BY <1>2, <1>3 DEF TypeOK

LEMMA BegunTyped ==
    ASSUME RotationOK, NEW i \in Instances, NEW n \in Intervals
    PROVE  Begun(i, n) \in UpdateType
  <1>1. ids \in Nat /\ Clock(i) \in Nat /\ n \in Nat \ {0}
    BY ClockTyped, Constants DEF RotationOK
  <1>2. intervalStart(Clock(i), n) + n \in Nat
    BY <1>1, NextInterval
  <1>3. Clock(i) \in Int
    BY <1>1
  <1> HIDE DEF Clock
  <1>4. NoUpdate \in UpdateType
    BY <1>1, NoneTyped
  <1> QED BY <1>1, <1>2, <1>3, <1>4 DEF Begun, UpdateType

LEMMA startTyped ==
    ASSUME RotationOK, NEW i \in Instances, start(i)
    PROVE  RotationOK' /\ ids <= ids'
  <1>1. PICK n \in Intervals : /\ interval' = [interval EXCEPT ![i] = n]
                               /\ Update(i, Begun(i, n))
    BY DEF start
  <1>2. update' \in [Instances -> UpdateType]
    BY <1>1, BegunTyped, GotoTyped
  <1>3. due' \in [Instances -> Nat]
    BY ClockTyped DEF start, RotationOK
  <1>4. starts' \in 0 .. MaxStarts
    BY RotatorAssumption DEF start, RotationOK
  <1>5. ids' = ids /\ ids \in Nat
    BY DEF start, RotationOK
  <1> QED BY <1>1, <1>2, <1>3, <1>4, <1>5, TypesStay DEF start, RotationOK

LEMMA TimerFiresTyped ==
    ASSUME RotationOK, NEW i \in Instances, TimerFires(i)
    PROVE  RotationOK' /\ ids <= ids'
  <1>1. update' \in [Instances -> UpdateType]
    BY BegunTyped, GotoTyped DEF TimerFires, RotationOK
  <1>2. ids' = ids /\ ids \in Nat
    BY DEF TimerFires, RotationOK
  <1> QED BY <1>1, <1>2, TypesStay DEF TimerFires, RotationOK

LEMMA FindKeysTyped ==
    ASSUME RotationOK, NEW i \in Instances, FindKeys(i)
    PROVE  RotationOK' /\ ids <= ids'
  <1>1. [update[i] EXCEPT !.pc = "read", !.todo = DOMAIN db] \in UpdateType
    <2>1. update[i] \in UpdateType /\ DOMAIN db \in SUBSET (1 .. ids)
      BY DEF RotationOK
    <2> QED BY <2>1 DEF UpdateType
  <1>2. update' \in [Instances -> UpdateType]
    BY <1>1, GotoTyped DEF FindKeys
  <1>3. ids' = ids /\ ids \in Nat
    BY DEF FindKeys, RotationOK
  <1> QED BY <1>2, <1>3, TypesStay DEF FindKeys, RotationOK

LEMMA DownTyped ==
    ASSUME RotationOK, NEW i \in Instances, Down(i)
    PROVE  RotationOK' /\ ids <= ids'
  <1>1. update' \in [Instances -> UpdateType]
    BY NoneTyped, GotoTyped DEF Down, RotationOK
  <1>2. secrets' \in [Instances -> [first : SecretType, all : SUBSET SecretType]]
    BY NoneTyped DEF Down, RotationOK
  <1>3. boot' \in [Instances -> SecretType]
    BY NoneTyped DEF Down, RotationOK
  <1>4. interval' \in [Instances -> Intervals] /\ due' \in [Instances -> Nat]
    BY Constants DEF Down, RotationOK
  <1>5. writes' \in [Instances -> SUBSET WriteType]
    BY DEF Down, RotationOK
  <1>6. ids' = ids /\ ids \in Nat
    BY DEF Down, RotationOK
  <1> QED BY <1>1, <1>2, <1>3, <1>4, <1>5, <1>6, TypesStay DEF Down, RotationOK

LEMMA ReadParamsTyped ==
    ASSUME RotationOK, NEW i \in Instances, NEW k \in DOMAIN db, ReadParams(i, k)
    PROVE  RotationOK' /\ ids <= ids'
  <1> DEFINE u == update[i]
             p == db[k]
             seen == [u EXCEPT !.todo = @ \ {k}, !.legacyEnd = Earlier(@, p.start),
                               !.legacyEnds = IF IsLegacy(p) THEN @ \cup {p.end} ELSE @]
             dated == [seen EXCEPT !.next = IF IsLegacy(p) THEN @
                          ELSE Earlier(@, intervalStart(u.at, p.interval) + p.interval)]
             inForce == [dated EXCEPT !.current = p, !.others = @ \cup ({u.current} \ {None})]
             other == [dated EXCEPT !.others = @ \cup {p}]
  <1>1. ids' = ids /\ ids \in Nat
    BY DEF ReadParams, RotationOK
  <1>2. u \in UpdateType /\ p \in ParamsType /\ k \in 1 .. ids
    BY DEF RotationOK, Named
  <1>3. p.start \in Int /\ p.end \in Int
    BY <1>2 DEF ParamsType
  <1>4. seen \in UpdateType /\ seen.next \in Nat
    BY <1>2, <1>3 DEF UpdateType, Earlier
  <1>5. ~IsLegacy(p) => intervalStart(u.at, p.interval) + p.interval \in Nat
    <2>1. ~IsLegacy(p) => p.interval \in Nat \ {0}
      BY <1>2, Constants DEF ParamsType, IsLegacy
    <2>2. u.at \in Nat
      BY <1>2 DEF UpdateType
    <2> QED BY <2>1, <2>2, NextInterval
  <1>6. dated \in UpdateType
    <2>1. (IF IsLegacy(p) THEN seen.next
           ELSE Earlier(seen.next, intervalStart(u.at, p.interval) + p.interval)) \in Nat
      BY <1>4, <1>5 DEF Earlier
    <2> HIDE DEF seen
    <2> QED BY <1>4, <2>1 DEF UpdateType
  <1>7. (InForce(i, p, u.at) => inForce \in UpdateType) /\ other \in UpdateType
    <2> HIDE DEF dated
    <2>1. /\ u.current \in ParamsType \cup {None}
          /\ u.pc = "read" /\ dated.pc = "read"
      BY <1>2 DEF UpdateType, RotatingType, ReadParams, At, dated, seen
    <2>2. InForce(i, p, u.at) => p \in RotatingType
      BY <1>2, Constants DEF InForce, RotatingType, IsLegacy, RotationOK
    <2>3. InForce(i, p, u.at) => inForce \in UpdateType
      BY <1>2, <1>6, <2>1, <2>2 DEF UpdateType
    <2>4. other \in UpdateType
      BY <1>2, <1>6, <2>1 DEF UpdateType
    <2> QED BY <2>3, <2>4
  <1>8. [k |-> k, params |-> None] \in WriteType
    BY <1>1, <1>2, NoneTyped DEF WriteType
  <1>9. writes' \in [Instances -> SUBSET WriteType]
    <2>1. \/ writes' = [writes EXCEPT ![i] = @ \cup {[k |-> k, params |-> None]}]
          \/ writes' = writes
      BY DEF ReadParams
    <2> QED BY <1>8, <2>1 DEF RotationOK
  <1>10. \/ Update(i, seen) \/ Update(i, other)
         \/ InForce(i, p, u.at) /\ Update(i, inForce)
    BY DEF ReadParams
  <1>11. update' \in [Instances -> UpdateType]
    <2> HIDE DEF seen, inForce, other
    <2> QED BY <1>4, <1>7, <1>10, GotoTyped
  <1> QED BY <1>1, <1>9, <1>11, TypesStay DEF ReadParams, RotationOK

LEMMA ExtendedTyped ==
    ASSUME RotationOK, NEW i \in Instances, NEW t \in Nat, NEW ID, NEW N,
           NEW p \in [id : ID, start : Int, end : Int, interval : N]
    PROVE  LET new == Extended(i, p, t)
           IN  new = [p EXCEPT !.end = new.end] /\ new.end \in Int
  <1>1. intervalStart(t, interval[i]) + 2 * interval[i] \in Int
    <2>1. interval[i] \in Nat \ {0}
      BY Constants DEF RotationOK
    <2> QED BY <2>1, NextInterval
  <1>2. Later(p.end, intervalStart(t, interval[i]) + 2 * interval[i]) \in Int
    BY <1>1 DEF Later
  <1> QED BY <1>2 DEF Extended

LEMMA MadeTyped ==
    ASSUME NEW id \in Nat \ {0}, NEW s \in Int, NEW e \in Int, NEW n \in Intervals \cup {0},
           ids' \in Nat, id <= ids'
    PROVE  Params(id, s, e, n) \in ParamsType'
  <1>1. id \in 1 .. ids'
    OBVIOUS
  <1> QED BY <1>1 DEF Params, ParamsType

\* Publish makes up an id for the static secret and one for new parameters.
LEMMA PublishTyped ==
    ASSUME RotationOK, NEW i \in Instances, Publish(i)
    PROVE  RotationOK' /\ ids <= ids'
  <1> DEFINE u == update[i]
             legacy == IF NeedsLegacy(i) THEN {Params(ids + 1, u.legacyEnd, u.legacyEnd, 0)}
                       ELSE {}
             made == ids + Cardinality(legacy)
             chosen == IF u.current # None THEN u.current
                       ELSE Params(made + 1, u.at, u.at, interval[i])
             current == Extended(i, chosen, u.at)
             new == [u EXCEPT !.pc = "derive", !.current = current, !.others = @ \cup legacy]
             sent == {[k |-> p.id, params |-> p] : p \in legacy \cup {current}}
  <1>1. /\ ids' = (IF u.current # None THEN made ELSE made + 1)
        /\ Update(i, new) /\ writes' = [writes EXCEPT ![i] = @ \cup sent]
    BY DEF Publish
  <1>2. u \in UpdateType /\ ids \in Nat /\ interval[i] \in Intervals
    BY DEF RotationOK
  <1>3. u.at \in Nat /\ u.legacyEnd \in Int /\ u.current \in RotatingType \cup {None}
    BY <1>2 DEF UpdateType
  <1>4. made \in Nat /\ (IF legacy = {} THEN made = ids ELSE made = ids + 1)
    <2>1. CASE ~NeedsLegacy(i)
      BY <1>2, <2>1, FS_EmptySet
    <2>2. CASE NeedsLegacy(i)
      <3> DEFINE x == Params(ids + 1, u.legacyEnd, u.legacyEnd, 0)
      <3>1. legacy = {x}
        BY <2>2
      <3> HIDE DEF legacy, x
      <3>2. Cardinality({x}) = 1 /\ {x} # {}
        BY FS_Singleton
      <3> QED BY <1>2, <3>1, <3>2
    <2> QED BY <2>1, <2>2
  <1> HIDE DEF made
  <1>5. ids' \in Nat /\ ids <= ids' /\ made <= ids' /\ (u.current = None => ids' = made + 1)
    BY <1>1, <1>2, <1>4
  <1>6. legacy \subseteq ParamsType'
    <2>1. NeedsLegacy(i) => ids + 1 <= ids' /\ ids + 1 \in Nat \ {0}
      BY <1>2, <1>4, <1>5
    <2> QED BY <1>3, <1>5, <2>1, MadeTyped
  <1>7. chosen \in RotatingType'
    <2>1. CASE u.current # None
      BY <1>2, <1>3, <1>5, <2>1, TypesGrow
    <2>2. CASE u.current = None
      <3>1. Params(made + 1, u.at, u.at, interval[i]) \in ParamsType'
        BY <1>2, <1>3, <1>4, <1>5, <2>2, MadeTyped
      <3>2. ~IsLegacy(Params(made + 1, u.at, u.at, interval[i]))
        BY <1>2, Constants DEF Params, IsLegacy
      <3> QED BY <2>2, <3>1, <3>2 DEF RotatingType
    <2> QED BY <2>1, <2>2
  <1> HIDE DEF legacy, chosen
  <1>8. current \in RotatingType'
    <2>1. chosen \in [id : 1 .. ids', start : Int, end : Int, interval : Intervals \cup {0}]
      BY <1>7 DEF RotatingType, ParamsType
    <2>2. ~IsLegacy(chosen)
      BY <1>7 DEF RotatingType
    <2>3. /\ current = [chosen EXCEPT !.end = current.end] /\ current.end \in Int
      BY <1>2, <1>3, <2>1, ExtendedTyped
    <2> HIDE DEF current
    <2> QED BY <2>1, <2>2, <2>3 DEF RotatingType, ParamsType, IsLegacy
  <1> HIDE DEF current
  <1>9. current # None /\ new \in UpdateType'
    <2>1. u \in UpdateType' /\ u \in UpdateType
      BY <1>2, <1>5, TypesGrow
    <2>2. current # None
      BY <1>8 DEF RotatingType, None, IsLegacy
    <2> QED BY <1>6, <1>8, <2>1, <2>2 DEF UpdateType
  <1>10. sent \subseteq WriteType'
    <2>1. \A p \in legacy \cup {current} : p \in ParamsType'
      BY <1>6, <1>8 DEF RotatingType
    <2> QED BY <2>1 DEF WriteType, ParamsType
  <1>11. update' \in [Instances -> UpdateType']
    BY <1>1, <1>2, <1>5, <1>9, TypesGrow DEF Update, RotationOK
  <1>12. writes' \in [Instances -> SUBSET WriteType']
    <2> HIDE DEF sent
    <2>1. WriteType \subseteq WriteType'
      BY <1>2, <1>5, TypesGrow
    <2> QED BY <1>1, <1>10, <2>1 DEF RotationOK
  <1>13. /\ secrets' \in [Instances -> [first : SecretType', all : SUBSET SecretType']]
         /\ boot' \in [Instances -> SecretType']
    <2>1. SecretType \subseteq SecretType'
      BY <1>2, <1>5, TypesGrow
    <2> QED BY <2>1 DEF Publish, RotationOK
  <1>14. (DOMAIN db \subseteq 1 .. ids /\ \A k \in DOMAIN db : Named(k, db[k]))'
    <2>1. ParamsType \subseteq ParamsType' /\ 1 .. ids \subseteq 1 .. ids'
      BY <1>2, <1>5, TypesGrow
    <2> QED BY <2>1 DEF Publish, RotationOK, Named
  <1> QED BY <1>5, <1>11, <1>12, <1>13, <1>14 DEF Publish, RotationOK

LEMMA ActivateTyped ==
    ASSUME RotationOK, NEW i \in Instances, Activate(i)
    PROVE  RotationOK' /\ ids <= ids'
  <1> DEFINE u == update[i]
             new == [first |-> Secret(u.current, Current(u.current, u.at)),
                     all   |-> UNION {deriveSecrets(p, u.at) : p \in u.others \cup {u.current}}]
  <1>1. ids' = ids /\ ids \in Nat /\ u \in UpdateType
    BY DEF Activate, RotationOK
  <1>2. /\ u.pc = "derive" /\ u.at \in Int /\ u.current # None
        /\ u.current \in RotatingType /\ u.others \subseteq ParamsType
    BY <1>1 DEF Activate, At, UpdateType
  <1>3. u.current \in ParamsType /\ ~IsLegacy(u.current)
    BY <1>2 DEF RotatingType
  <1>4. Current(u.current, u.at) \in Int
    <2> HIDE DEF u
    <2>1. \A p \in ParamsType : ~IsLegacy(p) => p.interval \in Nat \ {0} /\ p.end - 1 \in Int
      <3>1. \A p \in ParamsType : ~IsLegacy(p) => p.interval \in Intervals
        BY DEF ParamsType, IsLegacy
      <3>2. \A p \in ParamsType : p.end - 1 \in Int
        BY DEF ParamsType
      <3> QED BY <3>1, <3>2, Constants
    <2>2. u.current.interval \in Nat \ {0} /\ u.current.end - 1 \in Int
      BY <1>3, <2>1
    <2> QED BY <1>2, <2>2, IntervalStart DEF Current, LastInterval, Earlier
  <1>5. new.first \in SecretType
    BY <1>3, <1>4, SecretTyped
  <1>6. new.all \subseteq SecretType
    <2>1. \A p \in u.others \cup {u.current} : deriveSecrets(p, u.at) \subseteq SecretType
      BY <1>1, <1>2, <1>3, DerivedTyped
    <2> QED BY <2>1
  <1>7. secrets' \in [Instances -> [first : SecretType, all : SUBSET SecretType]]
    <2>1. new \in [first : SecretType, all : SUBSET SecretType]
      BY <1>5, <1>6
    <2>2. secrets' = [secrets EXCEPT ![i] = new]
      BY DEF Activate
    <2> HIDE DEF new
    <2> QED BY <2>1, <2>2 DEF RotationOK
  <1>8. update' \in [Instances -> UpdateType]
    <2>1. [u EXCEPT !.pc = "await"] \in UpdateType
      BY <1>1, <1>2 DEF UpdateType
    <2> QED BY <2>1, GotoTyped DEF Activate, Goto
  <1> QED BY <1>1, <1>7, <1>8, TypesStay DEF Activate, RotationOK

LEMMA WriteTyped ==
    ASSUME RotationOK, NEW i \in Instances, Write(i)
    PROVE  RotationOK' /\ ids <= ids'
  <1>1. PICK w \in writes[i] : /\ db' = Stored(w)
                               /\ writes' = [writes EXCEPT ![i] = @ \ {w}]
    BY DEF Write
  <1>2. ids' = ids /\ ids \in Nat /\ w \in WriteType
    BY DEF Write, RotationOK
  <1>3. /\ w.k \in 1 .. ids
        /\ w.params # None => w.params \in ParamsType /\ w.params.id = w.k
    BY <1>2 DEF WriteType
  <1>4. DOMAIN db' \subseteq 1 .. ids /\ \A k \in DOMAIN db' : Named(k, db'[k])
    <2>0. DOMAIN db \subseteq 1 .. ids /\ \A k \in DOMAIN db : Named(k, db[k])
      BY DEF RotationOK
    <2>1. CASE w.params = None
      <3>1. db' = [k \in DOMAIN db \cap (DOMAIN db \ {w.k}) |-> db[k]]
        BY <1>1, <2>1 DEF Stored, Restrict
      <3> QED BY <2>0, <3>1
    <2>2. CASE w.params # None
      <3>1. db' = [k \in {w.k} \cup DOMAIN db |-> IF k = w.k THEN w.params ELSE db[k]]
        BY <1>1, <2>2 DEF Stored, Put
      <3>2. Named(w.k, w.params)
        BY <1>3, <2>2 DEF Named
      <3> QED BY <1>3, <2>0, <3>1, <3>2
    <2> QED BY <2>1, <2>2
  <1>5. writes' \in [Instances -> SUBSET WriteType]
    BY <1>1 DEF RotationOK
  <1>6. (DOMAIN db \subseteq 1 .. ids /\ \A k \in DOMAIN db : Named(k, db[k]))'
    BY <1>2, <1>4 DEF Named, ParamsType
  <1> QED BY <1>2, <1>5, <1>6, TypesStay DEF Write, RotationOK

LEMMA FinishTyped ==
    ASSUME RotationOK, NEW i \in Instances, Finish(i)
    PROVE  RotationOK' /\ ids <= ids'
  <1>1. ids' = ids /\ ids \in Nat
    BY DEF Finish, RotationOK
  <1>2. update' \in [Instances -> UpdateType]
    BY <1>1, NoneTyped, GotoTyped DEF Finish
  <1>3. Later(update[i].next, Clock(i)) \in Nat
    <2>1. update[i].next \in Nat
      BY DEF RotationOK, UpdateType
    <2> QED BY <2>1, ClockTyped DEF Later
  <1>4. due' \in [Instances -> Nat]
    BY <1>3 DEF Finish, RotationOK
  <1>5. boot' \in [Instances -> SecretType]
    <2>1. secrets[i].first \in SecretType /\ boot[i] \in SecretType
      BY DEF RotationOK
    <2> QED BY <2>1 DEF Finish, RotationOK
  <1> QED BY <1>1, <1>2, <1>4, <1>5, TypesStay DEF Finish, RotationOK

LEMMA TickTyped ==
    ASSUME RotationOK, Tick
    PROVE  RotationOK' /\ ids <= ids' /\ now <= now'
  <1>1. ids' = ids /\ ids \in Nat /\ now' \in Epoch .. MaxTime /\ now <= now'
    BY Constants, RotatorAssumption DEF Tick, RotationOK
  <1> QED BY <1>1, TypesStay DEF Tick, RotationOK

LEMMA StepTyped ==
    ASSUME RotationOK, Step
    PROVE  RotationOK' /\ ids <= ids' /\ now <= now'
  <1>1. CASE Tick
    BY <1>1, TickTyped
  <1>2. CASE ~Tick
    <2>1. PICK i \in Instances :
             \/ start(i) \/ TimerFires(i) \/ FindKeys(i) \/ ReadThrows(i) \/ Publish(i)
             \/ Activate(i) \/ Write(i) \/ Finish(i) \/ Stop(i)
             \/ \E k \in DOMAIN db : ReadParams(i, k)
      BY <1>2 DEF Step
    <2>2. RotationOK' /\ ids <= ids'
      BY <2>1, startTyped, TimerFiresTyped, FindKeysTyped, PublishTyped, ActivateTyped,
         WriteTyped, FinishTyped, DownTyped, ReadParamsTyped DEF ReadThrows, Stop
    <2>3. now' = now
      BY <2>1 DEF start, TimerFires, FindKeys, ReadThrows, Publish, Activate, Write, Finish,
         Stop, Down, ReadParams
    <2>4. now \in Nat
      BY Constants, RotatorAssumption DEF RotationOK
    <2> QED BY <2>2, <2>3, <2>4
  <1> QED BY <1>1, <1>2

LEMMA NextTyped == ASSUME TypeOK, [Next]_vars PROVE TypeOK'
  <1>1. CASE UNCHANGED vars
    <2>1. ids' = ids
      BY <1>1 DEF vars
    <2> QED BY <1>1, <2>1, TypesStay DEF vars, TypeOK, RotationOK
  <1>2. CASE Next
    <2>1. RotationOK' /\ ids <= ids' /\ now <= now'
      BY <1>2, StepTyped DEF Next, TypeOK
    <2>2. ids \in Nat /\ ids' \in Nat /\ now \in Nat /\ now' \in Epoch .. MaxTime
      BY <2>1, Constants, RotatorAssumption DEF TypeOK, RotationOK
    <2>3. Signing' \subseteq [secret : SecretType', at : Epoch .. now']
      <3>1. \A i \in Instances : Signs(i)' \in SecretType'
        BY <2>1 DEF RotationOK, Signs
      <3>2. now' \in Epoch .. now'
        BY <2>2, Constants
      <3> QED BY <3>1, <3>2 DEF Signing
    <2>4. used \subseteq [secret : SecretType', at : Epoch .. now']
      <3>1. SecretType \subseteq SecretType'
        BY <2>1, <2>2, TypesGrow
      <3>2. Epoch .. now \subseteq Epoch .. now'
        BY <2>1, <2>2, Constants
      <3> QED BY <3>1, <3>2 DEF TypeOK
    <2>5. used' \subseteq Signing' \cup used
      BY <1>2 DEF Next
    <2> QED BY <2>1, <2>3, <2>4, <2>5 DEF TypeOK
  <1> QED BY <1>1, <1>2

\* Every record of the database is found under its id, an update that has
\* published holds parameters in force, and every secret an instance holds,
\* signs with or has signed with is derived from parameters that were made up.
THEOREM RotatorTypeCorrect == Spec => []TypeOK
  <1>1. Init => TypeOK
    BY InitTyped
  <1>2. TypeOK /\ [Next]_vars => TypeOK'
    BY NextTyped
  <1> QED BY <1>1, <1>2, PTL DEF Spec

-----------------------------------------------------------------------------
(* No instance is later than Slack, an update in progress will set the     *)
(* timer no later than an interval of any parameters it has seen, and the  *)
(* timer of an instance is set to go off before any secret it keeps has    *)
(* been of no use for an interval.                                         *)

Kept(i) == secrets[i].all \ {LegacySecret}

Timely(i) ==
    /\ phase[i] = "down" => update[i].pc = "none" /\ secrets[i] = NoSecrets
    /\ phase[i] # "down" => Clock(i) <= due[i] + Slack
    /\ \A s \in Kept(i) : s.interval \in Intervals /\ due[i] < s.start + 3 * s.interval + Lifetime
    /\ update[i].pc # "none" =>
         /\ due[i] <= update[i].at /\ update[i].at <= Clock(i)
         /\ update[i].next <= update[i].at + interval[i]
         /\ \A p \in update[i].others \cup {update[i].current} :
              ~IsLegacy(p) => update[i].next <= update[i].at + p.interval
    /\ update[i].pc = "await" => \A s \in Kept(i) :
         /\ update[i].at < s.start + 2 * s.interval + Lifetime
         /\ update[i].next <= update[i].at + s.interval

LEMMA TimelyStays ==
    ASSUME NEW i \in Instances, Timely(i), now' = now, phase'[i] = phase[i],
           update'[i] = update[i], due'[i] = due[i], secrets'[i] = secrets[i],
           interval'[i] = interval[i]
    PROVE  Timely(i)'
  BY DEF Timely, Kept, Clock

LEMMA NothingKept == NoSecrets.all = {}
  BY DEF NoSecrets

LEMMA BegunTimely ==
    ASSUME RotationOK, NEW i \in Instances, NEW n \in Intervals
    PROVE  LET u == Begun(i, n)
           IN  /\ u.pc = "find" /\ u.at = Clock(i) /\ u.next <= u.at + n
               /\ \A p \in u.others \cup {u.current} : IsLegacy(p)
  <1>1. Clock(i) \in Nat /\ n \in Nat \ {0}
    BY ClockTyped, Constants
  <1>2. intervalStart(Clock(i), n) + n <= Clock(i) + n
    BY <1>1, NextInterval
  <1> HIDE DEF Clock
  <1> QED BY <1>2 DEF Begun, NoUpdate, None, IsLegacy

LEMMA startTimely ==
    ASSUME RotationOK, NEW i \in Instances, Timely(i), start(i)
    PROVE  Timely(i)'
  <1>1. PICK n \in Intervals : /\ interval' = [interval EXCEPT ![i] = n]
                               /\ Update(i, Begun(i, n))
    BY DEF start
  <1>2. /\ interval'[i] = n /\ update'[i] = Begun(i, n) /\ due'[i] = Clock(i)
        /\ phase'[i] = "starting" /\ secrets'[i] = NoSecrets /\ now' = now
    BY <1>1 DEF start, Update, Timely, RotationOK
  <1>3. Clock(i)' = Clock(i) /\ Clock(i) \in Nat /\ Slack \in Nat
    BY <1>2, ClockTyped, Constants DEF Clock
  <1>4. Kept(i)' = {}
    BY <1>2, NothingKept DEF Kept
  <1> HIDE DEF Clock
  <1> QED BY <1>2, <1>3, <1>4, BegunTimely DEF Timely

LEMMA TimerFiresTimely ==
    ASSUME RotationOK, NEW i \in Instances, Timely(i), TimerFires(i)
    PROVE  Timely(i)'
  <1>1. /\ interval'[i] = interval[i] /\ interval[i] \in Intervals
        /\ update'[i] = Begun(i, interval[i]) /\ due'[i] = due[i] /\ due[i] <= Clock(i)
        /\ phase'[i] = phase[i] /\ phase[i] = "up" /\ Kept(i)' = Kept(i) /\ now' = now
    <2>1. Clock(i) \in Nat /\ due[i] \in Nat
      BY ClockTyped DEF RotationOK
    <2> QED BY <2>1 DEF TimerFires, At, Update, Kept, RotationOK
  <1>2. Clock(i)' = Clock(i) /\ Clock(i) \in Nat
    BY <1>1, ClockTyped DEF Clock
  <1> HIDE DEF Clock
  <1> QED BY <1>1, <1>2, BegunTimely DEF Timely

LEMMA FindKeysTimely ==
    ASSUME RotationOK, NEW i \in Instances, Timely(i), FindKeys(i)
    PROVE  Timely(i)'
  <1>1. /\ update'[i] = [update[i] EXCEPT !.pc = "read", !.todo = DOMAIN db]
        /\ update[i] \in UpdateType /\ update[i].pc = "find" /\ phase[i] # "down"
    BY DEF FindKeys, At, Update, RotationOK
  <1>2. /\ update'[i].pc = "read" /\ update'[i].at = update[i].at
        /\ update'[i].next = update[i].next /\ update'[i].current = update[i].current
        /\ update'[i].others = update[i].others
    BY <1>1 DEF UpdateType
  <1>3. /\ phase' = phase /\ Clock(i)' = Clock(i) /\ due' = due /\ interval' = interval
        /\ Kept(i)' = Kept(i)
    BY DEF FindKeys, Clock, Kept
  <1> QED BY <1>1, <1>2, <1>3 DEF Timely

LEMMA DownTimely ==
    ASSUME RotationOK, NEW i \in Instances, Down(i)
    PROVE  Timely(i)'
  <1>1. phase'[i] = "down" /\ update'[i] = NoUpdate /\ secrets'[i] = NoSecrets
    BY DEF Down, Update, RotationOK
  <1>2. Kept(i)' = {}
    BY <1>1, NothingKept DEF Kept
  <1> QED BY <1>1, <1>2 DEF Timely, NoUpdate

\* Timely, of an update that goes on without touching what else it speaks of.
LEMMA GoesOnTimely ==
    ASSUME RotationOK, NEW i \in Instances, Timely(i), update[i].pc # "none",
           update'[i].pc \notin {"none", "await"}, update'[i].at = update[i].at,
           update'[i].next <= update[i].at + interval[i],
           \A p \in update'[i].others \cup {update'[i].current} :
              ~IsLegacy(p) => update'[i].next <= update[i].at + p.interval,
           UNCHANGED <<now, phase, interval, due, secrets>>
    PROVE  Timely(i)'
  <1>1. Clock(i)' = Clock(i) /\ Kept(i)' = Kept(i) /\ phase[i] # "down"
    BY DEF Clock, Kept, Timely
  <1> QED BY <1>1 DEF Timely

LEMMA ReadParamsTimely ==
    ASSUME RotationOK, NEW i \in Instances, NEW k \in DOMAIN db, Timely(i), ReadParams(i, k)
    PROVE  Timely(i)'
  <1> DEFINE u == update[i]
             p == db[k]
             v == update'[i]
             soon == intervalStart(u.at, p.interval) + p.interval
  <1>1. u \in UpdateType /\ p \in ParamsType /\ u.pc = "read"
    BY DEF ReadParams, At, RotationOK, Named
  <1>2. /\ v.pc = "read" /\ v.at = u.at
        /\ \/ v.next = u.next /\ v.others = u.others /\ v.current = u.current
           \/ /\ v.next = IF IsLegacy(p) THEN u.next ELSE Earlier(u.next, soon)
              /\ v.others \cup {v.current} \subseteq u.others \cup {u.current, p}
    <2> DEFINE seen == [u EXCEPT !.todo = @ \ {k}, !.legacyEnd = Earlier(@, p.start),
                                 !.legacyEnds = IF IsLegacy(p) THEN @ \cup {p.end} ELSE @]
               dated == [seen EXCEPT !.next = IF IsLegacy(p) THEN @ ELSE Earlier(@, soon)]
    <2>1. \/ v = seen
          \/ v = [dated EXCEPT !.current = p, !.others = @ \cup ({u.current} \ {None})]
          \/ v = [dated EXCEPT !.others = @ \cup {p}]
      BY DEF ReadParams, Update, RotationOK
    <2>2. /\ seen.pc = "read" /\ seen.at = u.at /\ seen.next = u.next
          /\ seen.others = u.others /\ seen.current = u.current
          /\ DOMAIN seen = DOMAIN u
      BY <1>1 DEF UpdateType
    <2> HIDE DEF seen
    <2>3. /\ dated.pc = "read" /\ dated.at = u.at
          /\ dated.next = IF IsLegacy(p) THEN u.next ELSE Earlier(u.next, soon)
          /\ dated.others = u.others /\ dated.current = u.current
          /\ DOMAIN dated = DOMAIN u
      BY <1>1, <2>2 DEF UpdateType
    <2> HIDE DEF dated, p, soon
    <2>4. {"pc", "at", "next", "others", "current"} \subseteq DOMAIN u
      BY <1>1 DEF UpdateType
    <2> HIDE DEF u, v
    <2>5. CASE v = seen
      BY <2>2, <2>5
    <2>6. CASE v = [dated EXCEPT !.current = p, !.others = @ \cup ({u.current} \ {None})]
      BY <2>3, <2>4, <2>6
    <2>7. CASE v = [dated EXCEPT !.others = @ \cup {p}]
      BY <2>3, <2>4, <2>7
    <2> QED BY <2>1, <2>5, <2>6, <2>7
  <1>3. /\ u.at \in Nat /\ u.next \in Nat /\ u.next <= u.at + interval[i]
        /\ \A q \in u.others \cup {u.current} : ~IsLegacy(q) => u.next <= u.at + q.interval
    BY <1>1 DEF Timely, UpdateType
  <1>4. ~IsLegacy(p) => soon \in Nat /\ soon <= u.at + p.interval
    <2>1. ~IsLegacy(p) => p.interval \in Nat \ {0}
      BY <1>1, Constants DEF ParamsType, IsLegacy
    <2> QED BY <1>3, <2>1, NextInterval
  <1>5. /\ \A q \in ParamsType : q.interval \in Nat
        /\ u.others \subseteq ParamsType /\ u.current \in ParamsType \cup {None}
        /\ interval[i] \in Nat
    <2>1. \A q \in ParamsType : q.interval \in Nat
      <3>1. \A q \in ParamsType : q.interval \in Intervals \cup {0}
        BY DEF ParamsType
      <3>2. Intervals \cup {0} \subseteq Nat
        BY Constants
      <3> QED BY <3>1, <3>2
    <2>2. u.others \subseteq ParamsType /\ u.current \in ParamsType \cup {None}
      BY <1>1 DEF UpdateType, RotatingType
    <2> QED BY <2>1, <2>2, Constants DEF RotationOK
  <1> HIDE DEF soon
  <1>6. v.next \in Nat /\ v.next <= u.next /\ (v.next <= soon \/ IsLegacy(p) \/ v.others = u.others)
    BY <1>2, <1>3, <1>4 DEF Earlier
  <1>7. v.next <= u.at + interval[i]
    BY <1>3, <1>5, <1>6
  <1>8. \A q \in v.others \cup {v.current} : ~IsLegacy(q) => v.next <= u.at + q.interval
    <2> SUFFICES ASSUME NEW q \in v.others \cup {v.current}, ~IsLegacy(q)
                 PROVE  v.next <= u.at + q.interval
      OBVIOUS
    <2>1. q.interval \in Nat
      BY <1>1, <1>2, <1>5 DEF None, IsLegacy
    <2>2. CASE q \in u.others \cup {u.current}
      BY <1>3, <1>6, <2>1, <2>2
    <2>3. CASE q = p /\ v.next = Earlier(u.next, soon)
      BY <1>3, <1>4, <2>1, <2>3 DEF Earlier
    <2> QED BY <1>2, <2>2, <2>3
  <1>9. UNCHANGED <<now, phase, interval, due, secrets>>
    BY DEF ReadParams
  <1> HIDE DEF p
  <1> QED BY <1>1, <1>2, <1>7, <1>8, <1>9, GoesOnTimely

LEMMA PublishTimely ==
    ASSUME RotationOK, NEW i \in Instances, Timely(i), Publish(i)
    PROVE  Timely(i)'
  <1> DEFINE u == update[i]
             v == update'[i]
  <1>1. u \in UpdateType /\ u.pc = "read" /\ interval[i] \in Nat
    BY Constants DEF Publish, At, RotationOK
  <1>2. PICK legacy, chosen, made :
           /\ \A p \in legacy : IsLegacy(p)
           /\ chosen = IF u.current # None THEN u.current
                       ELSE Params(made, u.at, u.at, interval[i])
           /\ v = [u EXCEPT !.pc = "derive", !.current = Extended(i, chosen, u.at),
                            !.others = @ \cup legacy]
    <2> DEFINE legacy == IF NeedsLegacy(i)
                         THEN {Params(ids + 1, u.legacyEnd, u.legacyEnd, 0)} ELSE {}
               made == ids + Cardinality(legacy)
    <2>1. \A p \in legacy : IsLegacy(p)
      BY DEF Params, IsLegacy
    <2>2. v = [u EXCEPT !.pc = "derive",
                        !.current = Extended(i, IF u.current # None THEN u.current
                                       ELSE Params(made + 1, u.at, u.at, interval[i]), u.at),
                        !.others = @ \cup legacy]
      BY DEF Publish, Update, RotationOK
    <2> HIDE DEF legacy, made, v
    <2> QED BY <2>1, <2>2
  <1>3. chosen.interval = Extended(i, chosen, u.at).interval
    <2>1. u.current # None => u.current \in ParamsType
      BY <1>1 DEF UpdateType, RotatingType
    <2>2. chosen = [chosen EXCEPT !.end = chosen.end] /\ {"end", "interval"} \subseteq DOMAIN chosen
      BY <1>2, <2>1 DEF ParamsType, Params
    <2> QED BY <2>2 DEF Extended
  <1>4. /\ v.pc = "derive" /\ v.at = u.at /\ v.next = u.next
        /\ v.others = u.others \cup legacy /\ v.current = Extended(i, chosen, u.at)
    BY <1>1, <1>2 DEF UpdateType
  <1>5. u.next <= u.at + interval[i]
    BY <1>1 DEF Timely
  <1>6. \A p \in v.others \cup {v.current} : ~IsLegacy(p) => u.next <= u.at + p.interval
    <2>1. \A p \in u.others \cup {u.current} : ~IsLegacy(p) => u.next <= u.at + p.interval
      BY <1>1 DEF Timely
    <2>2. ~IsLegacy(chosen) => u.next <= u.at + chosen.interval
      BY <1>2, <1>5, <2>1 DEF Params
    <2> HIDE DEF u, v
    <2> QED BY <1>2, <1>3, <1>4, <2>1, <2>2 DEF IsLegacy
  <1>7. UNCHANGED <<now, phase, interval, due, secrets>>
    BY DEF Publish
  <1> QED BY <1>1, <1>4, <1>5, <1>6, <1>7, GoesOnTimely

\* A secret derived for a moment is of use then, or in the interval to come.
LEMMA DerivedInTime ==
    ASSUME NEW p \in ParamsType, NEW t \in Nat, NEW s \in deriveSecrets(p, t) \ {LegacySecret}
    PROVE  /\ ~IsLegacy(p) /\ s.interval = p.interval /\ s.interval \in Intervals
           /\ s.start \in Int /\ t < s.start + 2 * s.interval + Lifetime
  <1>1. ~IsLegacy(p)
    BY DEF deriveSecrets
  <1>2. p.interval \in Intervals
    BY <1>1 DEF ParamsType, IsLegacy
  <1>3. /\ p.interval \in Nat \ {0} /\ Lifetime \in Nat
        /\ \A x \in Int : intervalStart(x, p.interval) \in Int
        /\ t < intervalStart(t, p.interval) + p.interval
    BY <1>2, Constants, IntervalStart, NextInterval
  <1>4. p.start - p.interval \in Int /\ p.end - 1 \in Int
    BY <1>3 DEF ParamsType
  <1>5. FirstInterval(p) \in Int /\ Current(p, t) \in Int
    BY <1>3, <1>4 DEF FirstInterval, LastInterval, Current, Earlier
  <1>6. PICK tN \in Int :
           /\ s = Secret(p, tN)
           /\ ~expired(p, tN, t) \/ tN = intervalStart(t, p.interval) + p.interval
    BY <1>1, <1>3, <1>5 DEF deriveSecrets
  <1>7. s.interval = p.interval /\ s.start = tN
    BY <1>6 DEF Secret
  <1>8. CASE tN = intervalStart(t, p.interval) + p.interval
    <2>1. t < tN
      BY <1>3, <1>8
    <2> QED BY <1>1, <1>2, <1>3, <1>7, <2>1
  <1>9. CASE ~expired(p, tN, t)
    BY <1>1, <1>2, <1>3, <1>7, <1>9 DEF expired
  <1> QED BY <1>6, <1>8, <1>9

LEMMA ActivateTimely ==
    ASSUME RotationOK, NEW i \in Instances, Timely(i), Activate(i)
    PROVE  Timely(i)'
  <1> DEFINE u == update[i]
             new == UNION {deriveSecrets(p, u.at) : p \in u.others \cup {u.current}}
  <1>1. u \in UpdateType /\ u.pc = "derive" /\ phase[i] # "down"
    BY DEF Activate, At, RotationOK
  <1>2. /\ secrets'[i].all = new /\ update'[i] = [u EXCEPT !.pc = "await"]
        /\ UNCHANGED <<now, phase, interval, due>>
    BY DEF Activate, Goto, Update, RotationOK
  <1>3. /\ update'[i].pc = "await" /\ update'[i].at = u.at /\ update'[i].next = u.next
        /\ update'[i].others = u.others /\ update'[i].current = u.current
    BY <1>1, <1>2 DEF UpdateType
  <1>4. /\ u.at \in Nat /\ due[i] \in Nat /\ due[i] <= u.at /\ Lifetime \in Nat
        /\ \A p \in u.others \cup {u.current} : ~IsLegacy(p) => u.next <= u.at + p.interval
    BY <1>1, Constants DEF Timely, UpdateType, RotationOK
  <1>5. \A p \in u.others \cup {u.current} : p \in ParamsType
    BY <1>1 DEF UpdateType, RotatingType
  <1>6. Kept(i)' = new \ {LegacySecret}
    BY <1>2 DEF Kept, LegacySecret, Secret, None
  <1>7. ASSUME NEW s \in Kept(i)'
        PROVE  /\ s.interval \in Intervals /\ u.at < s.start + 2 * s.interval + Lifetime
               /\ due[i] < s.start + 3 * s.interval + Lifetime
               /\ u.next <= u.at + s.interval
    <2>1. PICK p \in u.others \cup {u.current} : s \in deriveSecrets(p, u.at) \ {LegacySecret}
      BY <1>6
    <2>2. /\ ~IsLegacy(p) /\ s.interval = p.interval /\ s.interval \in Intervals
          /\ s.start \in Int /\ u.at < s.start + 2 * s.interval + Lifetime
      BY <1>4, <1>5, <2>1, DerivedInTime
    <2>3. s.interval \in Nat
      BY <2>2, Constants
    <2>4. due[i] < s.start + 3 * s.interval + Lifetime
      BY <1>4, <2>2, <2>3
    <2> QED BY <1>4, <2>2, <2>4
  <1>8. Clock(i)' = Clock(i)
    BY <1>2 DEF Clock
  <1> HIDE DEF u, new
  <1> QED BY <1>1, <1>2, <1>3, <1>7, <1>8 DEF Timely, u

LEMMA FinishTimely ==
    ASSUME RotationOK, NEW i \in Instances, Timely(i), Finish(i)
    PROVE  Timely(i)'
  <1> DEFINE u == update[i]
  <1>1. u \in UpdateType /\ u.pc = "await" /\ phase[i] # "down"
    BY DEF Finish, At, RotationOK
  <1>2. /\ update'[i] = NoUpdate /\ due'[i] = Later(u.next, Clock(i)) /\ phase'[i] = "up"
        /\ Clock(i)' = Clock(i) /\ Kept(i)' = Kept(i)
    BY DEF Finish, Update, Kept, Clock, RotationOK
  <1>3. /\ u.at \in Nat /\ u.next \in Nat /\ due[i] \in Nat /\ Clock(i) \in Nat
        /\ Slack \in Nat /\ Lifetime \in Nat
    BY <1>1, ClockTyped, Constants DEF UpdateType, RotationOK
  <1>4. due[i] <= u.at /\ Clock(i) <= due[i] + Slack
    BY <1>1 DEF Timely
  <1>5. Clock(i)' <= due'[i] + Slack
    BY <1>2, <1>3 DEF Later
  <1>6. ASSUME NEW s \in Kept(i)
        PROVE  s.interval \in Intervals /\ due'[i] < s.start + 3 * s.interval + Lifetime
    <2>1. /\ s.interval \in Intervals /\ u.at < s.start + 2 * s.interval + Lifetime
          /\ u.next <= u.at + s.interval
      BY <1>1 DEF Timely
    <2>2. s.interval \in Nat /\ Slack < s.interval /\ s.start \in Int
      <3>1. s \in SecretType
        BY DEF Kept, RotationOK
      <3> QED BY <2>1, <3>1, Constants DEF SecretType
    <2> HIDE DEF Clock
    <2> QED BY <1>2, <1>3, <1>4, <2>1, <2>2 DEF Later
  <1> QED BY <1>2, <1>5, <1>6 DEF Timely, NoUpdate

LEMMA TickTimely ==
    ASSUME RotationOK, NEW i \in Instances, Timely(i), Tick
    PROVE  Timely(i)'
  <1>1. /\ Clock(i)' = Clock(i) + 1 /\ Clock(i) \in Nat /\ due[i] \in Nat /\ Slack \in Nat
        /\ phase[i] # "down" => Clock(i) < due[i] + Slack
    <2>1. now \in Nat /\ Skew[i] \in Nat /\ now' = now + 1
      BY Constants, RotatorAssumption DEF Tick, RotationOK
    <2> QED BY <2>1, ClockTyped, Constants DEF Tick, Clock, RotationOK
  <1>2. UNCHANGED <<phase, interval, update, due>> /\ Kept(i)' = Kept(i) /\ secrets' = secrets
    BY DEF Tick, Kept
  <1>3. update[i].at \in Nat
    BY DEF RotationOK, UpdateType
  <1> HIDE DEF Clock
  <1> QED BY <1>1, <1>2, <1>3 DEF Timely

\* What a step of one instance leaves alone in the others.
LEMMA OthersStay ==
    ASSUME RotationOK, NEW i \in Instances, NEW j \in Instances \ {i},
           \/ start(i) \/ TimerFires(i) \/ FindKeys(i) \/ ReadThrows(i) \/ Publish(i)
           \/ Activate(i) \/ Write(i) \/ Finish(i) \/ Stop(i)
           \/ \E k \in DOMAIN db : ReadParams(i, k)
    PROVE  /\ now' = now /\ phase'[j] = phase[j] /\ update'[j] = update[j] /\ due'[j] = due[j]
           /\ secrets'[j] = secrets[j] /\ interval'[j] = interval[j]
  <1> USE DEF RotationOK, Update
  <1>1. CASE start(i)
    <2>1. PICK n \in Intervals : /\ interval' = [interval EXCEPT ![i] = n]
                                 /\ Update(i, Begun(i, n))
      BY <1>1 DEF start
    <2> QED BY <1>1, <2>1 DEF start
  <1>2. CASE TimerFires(i)
    BY <1>2 DEF TimerFires
  <1>3. CASE FindKeys(i)
    BY <1>3 DEF FindKeys
  <1>4. CASE Down(i)
    BY <1>4 DEF Down
  <1>5. CASE Publish(i)
    BY <1>5 DEF Publish
  <1>6. CASE Activate(i)
    BY <1>6 DEF Activate, Goto
  <1>7. CASE Write(i)
    BY <1>7 DEF Write
  <1>8. CASE Finish(i)
    BY <1>8 DEF Finish
  <1>9. ASSUME NEW k \in DOMAIN db, ReadParams(i, k)
        PROVE  /\ UNCHANGED <<now, phase, due, secrets, interval>>
               /\ \E u : update' = [update EXCEPT ![i] = u]
    BY <1>9 DEF ReadParams
  <1> QED BY <1>1, <1>2, <1>3, <1>4, <1>5, <1>6, <1>7, <1>8, <1>9 DEF ReadThrows, Stop

LEMMA StepTimely ==
    ASSUME RotationOK, NEW j \in Instances, Timely(j), Step
    PROVE  Timely(j)'
  <1>1. CASE Tick
    BY <1>1, TickTimely
  <1>2. CASE ~Tick
    <2>1. PICK i \in Instances :
             \/ start(i) \/ TimerFires(i) \/ FindKeys(i) \/ ReadThrows(i) \/ Publish(i)
             \/ Activate(i) \/ Write(i) \/ Finish(i) \/ Stop(i)
             \/ \E k \in DOMAIN db : ReadParams(i, k)
      BY <1>2 DEF Step
    <2>2. CASE i # j
      BY <2>1, <2>2, OthersStay, TimelyStays
    <2>3. CASE i = j
      <3>1. Write(i) => Timely(i)'
        BY <2>3, TimelyStays DEF Write
      <3> QED BY <2>1, <2>3, <3>1, startTimely, TimerFiresTimely, FindKeysTimely, DownTimely,
                 PublishTimely, ActivateTimely, FinishTimely, ReadParamsTimely
              DEF ReadThrows, Stop
    <2> QED BY <2>2, <2>3
  <1> QED BY <1>1, <1>2

\* The inductive invariant: OldSecretsGo says nothing of when the timer fires.
IInv == TypeOK /\ \A i \in Instances : Timely(i)

LEMMA IInvInit == ASSUME Init PROVE IInv
  <1>1. ASSUME NEW i \in Instances PROVE Timely(i)
    <2>1. phase[i] = "down" /\ update[i] = NoUpdate /\ secrets[i] = NoSecrets
      BY DEF Init
    <2>2. Kept(i) = {} /\ NoUpdate.pc = "none"
      BY <2>1, NothingKept DEF Kept, NoUpdate
    <2> QED BY <2>1, <2>2 DEF Timely
  <1> QED BY <1>1, InitTyped DEF IInv

LEMMA IInvNext == ASSUME IInv, [Next]_vars PROVE IInv'
  <1>1. TypeOK'
    BY NextTyped DEF IInv
  <1>2. ASSUME NEW i \in Instances PROVE Timely(i)'
    <2>1. Timely(i) /\ RotationOK
      BY DEF IInv, TypeOK
    <2>2. CASE Next
      BY <2>1, <2>2, StepTimely DEF Next
    <2>3. CASE UNCHANGED vars
      BY <2>1, <2>3, TimelyStays DEF vars
    <2> QED BY <2>2, <2>3
  <1> QED BY <1>1, <1>2 DEF IInv

LEMMA IInvImplies == ASSUME IInv PROVE OldSecretsGo
  <1>1. SUFFICES ASSUME NEW i \in Instances, phase[i] = "up",
                        NEW s \in secrets[i].all \ {LegacySecret}
                 PROVE  Clock(i) < s.start + 3 * s.interval + Lifetime + Slack
    BY DEF OldSecretsGo
  <1>2. /\ Clock(i) <= due[i] + Slack /\ s.interval \in Intervals
        /\ due[i] < s.start + 3 * s.interval + Lifetime
    BY <1>1 DEF IInv, Timely, Kept
  <1>3. s \in SecretType /\ due[i] \in Nat /\ RotationOK
    BY DEF IInv, TypeOK, RotationOK
  <1>4. /\ Clock(i) \in Nat /\ Slack \in Nat /\ Lifetime \in Nat
        /\ s.interval \in Nat /\ s.start \in Int
    BY <1>2, <1>3, ClockTyped, Constants DEF SecretType
  <1> HIDE DEF Clock
  <1> QED BY <1>2, <1>3, <1>4

\* An instance that is up keeps no secret for more than three intervals and the
\* lifetime of a session after it began to be used, give or take Slack: over
\* restarts, racing starts, skewed clocks and changes of the interval.
THEOREM OldSecretsAreDropped == Spec => []OldSecretsGo
  <1>1. Init => IInv
    BY IInvInit
  <1>2. IInv /\ [Next]_vars => IInv'
    BY IInvNext
  <1>3. IInv => OldSecretsGo
    BY IInvImplies
  <1> QED BY <1>1, <1>2, <1>3, PTL DEF Spec

-----------------------------------------------------------------------------
(* What is signed is accepted, by consumers that hold the array, while the *)
(* interval stays the same, no update runs beside the first one of another *)
(* instance, and clocks and timers together are off by less than an        *)
(* interval.  The argument: the parameters in the database follow each     *)
(* other, all that are up sign with the latest, and nobody drops any while *)
(* something signed with them is valid.                                    *)

\* The interval, and the beginning of the one that a moment is in.
Period   == AnInterval
Begin(t) == intervalStart(t, Period)

\* With two intervals, starts that race, or timers that are later, an instance may
\* sign what another does not accept.
Punctual ==
    /\ Live /\ ~RacingStarts /\ Intervals = {Period}
    /\ \A i \in Instances : Skew[i] + 2 * Slack < Period

LEMMA PunctualConstants ==
    ASSUME Punctual
    PROVE  /\ Period \in Nat \ {0} /\ Slack \in Nat /\ Lifetime \in Nat \ {0} /\ Epoch \in Nat
           /\ Live /\ ~RacingStarts /\ Intervals = {Period}
           /\ \A i \in Instances : Skew[i] \in Nat /\ Skew[i] + 2 * Slack < Period
  BY Constants DEF Punctual, Period

\* Arithmetic of multiples of the interval.
LEMMA Divides ==
    ASSUME NEW t \in Int, NEW n \in Nat \ {0}
    PROVE  t % n \in 0 .. n - 1 /\ \E q \in Int : t = n * q + (t % n)
  <1>1. t % n \in 0 .. n - 1
    OBVIOUS
  <1>2. t = n * (t \div n) + (t % n)
    BY Z3
  <1>3. t \div n \in Int
    BY Z3
  <1> QED BY <1>1, <1>2, <1>3

LEMMA Multiples ==
    ASSUME NEW n \in Nat \ {0}, NEW p \in Int, NEW q \in Int
    PROVE  /\ n * p \in Int /\ (n * p) % n = 0
           /\ n * p < n * q + n => n * p <= n * q
           /\ n * p + n = n * (p + 1) /\ n * p - n = n * (p - 1) /\ n * p + 2 * n = n * (p + 2)
  OBVIOUS

\* A moment is in the interval that begins at Begin of it.
LEMMA Begins ==
    ASSUME Punctual, NEW t \in Int
    PROVE  Begin(t) \in Int /\ Begin(t) <= t /\ t < Begin(t) + Period
           /\ (t \in Nat => Begin(t) \in Nat) /\ Begin(Begin(t)) = Begin(t)
  <1> DEFINE n == Period
  <1>1. n \in Nat \ {0}
    BY PunctualConstants
  <1> HIDE DEF n
  <1>2. PICK q \in Int : t = n * q + (t % n)
    BY <1>1, Divides
  <1>3. t - (t % n) = n * q
    BY <1>1, <1>2, Divides, Multiples
  <1>4. (t - (t % n)) % n = 0
    BY <1>1, <1>3, Multiples
  <1>5. Begin(t) = t - (t % n) /\ Begin(Begin(t)) = Begin(t) - (Begin(t) % n)
    BY DEF Begin, intervalStart, n
  <1>6. Begin(t) \in Int /\ Begin(t) % n = 0
    BY <1>1, <1>3, <1>4, <1>5, Multiples
  <1>7. Begin(Begin(t)) = Begin(t)
    BY <1>5, <1>6
  <1> QED BY <1>1, <1>7, IntervalStart DEF Begin, n

\* Beginnings of intervals are an interval apart.
LEMMA Apart ==
    ASSUME Punctual, NEW a \in Int, NEW b \in Int, Begin(a) = a, Begin(b) = b
    PROVE  /\ a < b + Period => a <= b
           /\ Begin(a + Period) = a + Period /\ Begin(a - Period) = a - Period
           /\ Begin(a + 2 * Period) = a + 2 * Period
  <1> DEFINE n == Period
  <1>1. n \in Nat \ {0}
    BY PunctualConstants
  <1>2. \A x \in Int : Begin(x) = x - (x % n)
    BY DEF Begin, intervalStart, n
  <1>3. /\ a < b + n => a <= b
        /\ Begin(a + n) = a + n /\ Begin(a - n) = a - n /\ Begin(a + 2 * n) = a + 2 * n
    <2> HIDE DEF n
    <2>1. a % n = 0 /\ b % n = 0
      BY <1>1, <1>2, Divides
    <2>2. PICK p \in Int : a = n * p
      <3>1. PICK p \in Int : a = n * p + (a % n)
        BY <1>1, Divides
      <3>2. a = n * p
        BY <1>1, <2>1, <3>1, Multiples
      <3> QED BY <3>2
    <2>3. PICK q \in Int : b = n * q
      <3>1. PICK q \in Int : b = n * q + (b % n)
        BY <1>1, Divides
      <3>2. b = n * q
        BY <1>1, <2>1, <3>1, Multiples
      <3> QED BY <3>2
    <2>4. \A x \in Int : Begin(n * x) = n * x
      BY <1>1, <1>2, Multiples
    <2>5. a + n = n * (p + 1) /\ a - n = n * (p - 1) /\ a + 2 * n = n * (p + 2)
      BY <1>1, <2>2, Multiples
    <2>6. a < b + n => a <= b
      BY <1>1, <2>2, <2>3, Multiples
    <2> QED BY <2>4, <2>5, <2>6
  <1> QED BY <1>3
\* A later moment is in no earlier interval.
LEMMA BeginsInOrder ==
    ASSUME Punctual, NEW s \in Int, NEW t \in Int
    PROVE  /\ s <= t => Begin(s) <= Begin(t)
           /\ Begin(s) = s /\ s <= t /\ t < s + Period => Begin(t) = s
  <1>1. Period \in Nat
    BY PunctualConstants
  <1>2. /\ Begin(s) \in Int /\ Begin(s) <= s /\ s < Begin(s) + Period /\ Begin(Begin(s)) = Begin(s)
        /\ Begin(t) \in Int /\ Begin(t) <= t /\ t < Begin(t) + Period /\ Begin(Begin(t)) = Begin(t)
    BY Begins
  <1>3. Begin(s) < Begin(t) + Period => Begin(s) <= Begin(t)
    BY <1>2, Apart
  <1>4. Begin(t) < Begin(s) + Period => Begin(t) <= Begin(s)
    BY <1>2, Apart
  <1> QED BY <1>1, <1>2, <1>3, <1>4

\* Clocks are in step: what has begun by one will have begun, or is the next to
\* begin, by another.
LEMMA InStep ==
    ASSUME Punctual, NEW i \in Instances, NEW j \in Instances, NEW t \in Nat,
           NEW a \in Int, NEW b \in Int, Begin(a) = a, Begin(b) = b, a <= t + Skew[i]
    PROVE  /\ t + Skew[j] <= b + 2 * Slack => a <= b
           /\ t + Skew[j] <= b + Period + 2 * Slack => a <= b + Period
  <1>1. /\ Period \in Nat /\ Slack \in Nat /\ Skew[i] \in Nat /\ Skew[j] \in Nat
        /\ Skew[i] + 2 * Slack < Period
    BY PunctualConstants
  <1>2. Begin(b + Period) = b + Period /\ b + Period \in Int
    BY <1>1, Apart
  <1>3. a < b + Period => a <= b
    BY Apart
  <1>4. a < (b + Period) + Period => a <= b + Period
    BY <1>2, Apart
  <1> QED BY <1>1, <1>3, <1>4

-----------------------------------------------------------------------------
(* The inductive invariant. *)

Key(k, x)   == [id |-> k, start |-> x, interval |-> Period]
Rotating(k) == k \in DOMAIN db /\ ~IsLegacy(db[k])
Latest(k)   == Rotating(k) /\ \A l \in DOMAIN db : Rotating(l) => l <= k

\* Parameters that rotate end where an interval does.
Sound(p) ==
    /\ Epoch <= p.start /\ Epoch <= p.end
    /\ IsLegacy(p) \/ (p.start < p.end /\ Begin(p.end) = p.end)

\* The parameters in the database follow each other.
InOrder ==
    /\ \A k \in DOMAIN db : Sound(db[k])
    /\ \A k \in DOMAIN db : Rotating(k) => db[k].start < now + Period
    /\ \A k, l \in DOMAIN db :
         Rotating(k) /\ Rotating(l) /\ k < l => db[k].end <= db[l].start

\* The first update of an instance has no other beside it.
OneStarts ==
    \A i \in Instances :
        /\ update[i].pc = "none" => writes[i] = {} /\ phase[i] # "starting"
        /\ phase[i] = "starting" => \A j \in Instances \ {i} : update[j].pc = "none"

First(i) == secrets[i].first

\* An instance that is up signs for the interval its last update was in, or, until
\* the update in progress has derived its secrets, for the one before.
OnTime(i) ==
    LET u == update[i]
        next == IF u.pc = "await" THEN First(i).start ELSE First(i).start + Period
    IN  /\ u.pc # "none" =>
             /\ u.next = Begin(u.at) + Period
             /\ \A k \in DOMAIN db : Rotating(k) => db[k].start < u.at + Period
        /\ u.pc = "await" => First(i).start = Begin(u.at)
        /\ phase[i] = "starting" => due[i] = u.at
        /\ phase[i] = "up" =>
             /\ First(i).start \in Nat /\ Begin(First(i).start) = First(i).start
             /\ First(i).start <= Clock(i)
             /\ next <= due[i] /\ due[i] <= next + Slack
             /\ u.pc # "none" => Begin(u.at) = next

\* From Publish on, an update has parameters, and until Write a write of them.
Published(i) == update[i].pc \in {"derive", "await"}
Own(i) == [k |-> update[i].current.id, params |-> update[i].current]

\* What is on its way to the database: deletions of what is of no use to anybody,
\* the static secret under an id of its own, and the parameters in force.
Pending(i) ==
    \A w \in writes[i] :
        \/ /\ w.params = None
           /\ Rotating(w.k) => db[w.k].end + Lifetime + Period <= update[i].at
           /\ Published(i) => w.k # update[i].current.id
        \/ /\ w.params # None /\ IsLegacy(w.params) /\ Sound(w.params)
           /\ ~Rotating(w.k) /\ Published(i) /\ w.k # update[i].current.id
        \/ w = Own(i) /\ Published(i)

\* The parameters of an update last until the end of the next interval.  Where an
\* instance is up they are those it signs with.  An instance that starts chooses
\* the latest, or makes some if nobody uses what is there.
Chosen(i) ==
    LET c == update[i].current IN
    Published(i) =>
        /\ Sound(c) /\ c.start < update[i].at + Period /\ c.start < now + Period
        /\ Begin(update[i].at) + 2 * Period <= c.end
        /\ phase[i] = "up" =>
             /\ c.id = First(i).id /\ db[c.id].start = c.start
             /\ Own(i) \in writes[i] \/ Begin(update[i].at) + 2 * Period <= db[c.id].end
        /\ phase[i] = "starting" =>
             \/ /\ Latest(c.id) /\ db[c.id].start = c.start
                /\ IF Own(i) \in writes[i] THEN db[c.id].end <= c.end ELSE db[c.id] = c
             \/ /\ Own(i) \in writes[i] /\ c.id \notin DOMAIN db
                /\ \A k \in DOMAIN db : Rotating(k) => k < c.id /\ db[k].end <= c.start
                /\ \A j \in Instances : phase[j] # "up"

\* What an update has read: everything that may be of use, the latest parameters
\* as its own if they are in force.
Gathered(i) ==
    LET u == update[i]
        c == u.current
    IN  /\ u.pc = "find" => c = None
        /\ u.pc = "derive" => u.todo = {}
        /\ u.pc \in {"read", "derive"} => \A k \in DOMAIN db \ u.todo : Rotating(k) =>
             \/ db[k].end + Lifetime + Period <= u.at
             \/ db[k] \in u.others
             \/ c # None /\ c.id = k /\ c.start = db[k].start /\ (Latest(k) \/ c = db[k])
        /\ u.pc = "read" => \A k \in DOMAIN db \ u.todo :
             Rotating(k) /\ u.at < db[k].end => c # None /\ db[k].start <= c.start
        /\ u.pc = "read" /\ c # None =>
             /\ Sound(c)
             /\ \A k \in DOMAIN db : Latest(k) =>
                  IF c.id = k THEN c.start = db[k].start ELSE c.start < db[k].start
             /\ phase[i] = "up" /\ Rotating(c.id) /\ ~Latest(c.id) => c = db[c.id]
             /\ phase[i] = "starting" => Rotating(c.id) /\ db[c.id] = c /\ u.at < c.end

\* All that are up sign with the latest parameters, each for an interval they cover,
\* and accept what others may sign for an interval later or earlier.
KeysAround(k, from, b) ==
    {Key(k, x) : x \in {y \in {b - Period, b, b + Period} : Begin(from - Period) <= y}}

Uses(i) ==
    phase[i] = "up" =>
        LET k == First(i).id
            b == First(i).start
        IN  /\ Latest(k) /\ First(i) = Key(k, b)
            /\ Begin(db[k].start - Period) <= b
            /\ b + Period <= db[k].end
            /\ \/ b + 2 * Period <= db[k].end
               \/ update[i].pc = "await" /\ Own(i) \in writes[i]
            /\ KeysAround(k, db[k].start, b) \subseteq secrets[i].all

\* So does an update that has derived its secrets and waits for its writes.
Derives(i) ==
    update[i].pc = "await" =>
        LET c == update[i].current
            b == First(i).start
        IN  /\ First(i) = Key(c.id, b)
            /\ Begin(c.start - Period) <= b
            /\ KeysAround(c.id, c.start, b) \subseteq secrets[i].all

\* The static secret is kept for what was signed before rotation began.
Static(i) ==
    LET u == update[i] IN
    /\ u.pc # "none" => Epoch <= u.legacyEnd /\ Epoch <= u.at
    /\ u.pc \in {"find", "read"} /\ now < Epoch + Lifetime =>
         u.legacyEnds = {} \/ \E p \in u.others : IsLegacy(p)
    /\ u.pc = "derive" /\ now < Epoch + Lifetime /\ LegacyKey => \E p \in u.others : IsLegacy(p)

Local(i) ==
    OnTime(i) /\ Pending(i) /\ Chosen(i) /\ Gathered(i) /\ Uses(i) /\ Derives(i) /\ Static(i)

\* The instances whose secrets must do: that are up, or about to be.
Activated(i) == phase[i] = "up" \/ update[i].pc = "await"

\* The parameters of what is valid are in the database and not outdated.
Known(u) ==
    LET k == u.secret.id
        s == u.secret.start
    IN  \/ u.secret = LegacySecret /\ LegacyKey /\ u.at = Epoch
        \/ /\ u.secret = Key(k, s) /\ Rotating(k) /\ s \in Nat /\ Begin(s) = s
           /\ Begin(db[k].start - Period) <= s /\ s + Period <= db[k].end
           /\ u.at <= s + Period + 2 * Slack /\ s + 2 * Slack < u.at + Period

Valid(u) == now < u.at + Lifetime

\* What is valid is known, and accepted wherever secrets are in place.
AllKnown    == \A u \in used : Valid(u) => Known(u)
AllAccepted == \A i \in Instances : Activated(i) =>
                   /\ LegacyKey /\ now < Epoch + Lifetime => LegacySecret \in secrets[i].all
                   /\ \A u \in used : Valid(u) => u.secret \in secrets[i].all

AInv == /\ IInv /\ InOrder /\ OneStarts /\ \A i \in Instances : Local(i)
        /\ AllKnown /\ AllAccepted

-----------------------------------------------------------------------------
(* What a step leaves of each instance's part of the invariant. *)

LEMMA RecordTyped ==
    ASSUME Punctual, RotationOK, NEW k \in DOMAIN db
    PROVE  /\ db[k] \in ParamsType /\ db[k].id = k /\ k \in Nat \ {0} /\ k <= ids /\ ids \in Nat
           /\ db[k].start \in Int /\ db[k].end \in Int /\ db[k].interval \in {Period, 0}
           /\ (Rotating(k) <=> db[k].interval = Period) /\ db[k] # None
  <1>1. /\ Period \in Nat \ {0} /\ Intervals = {Period}
    BY PunctualConstants
  <1>2. db[k] \in ParamsType /\ db[k].id = k /\ k \in 1 .. ids /\ ids \in Nat
    BY DEF RotationOK, Named
  <1>3. db[k].start \in Int /\ db[k].end \in Int /\ db[k].interval \in {Period, 0}
    BY <1>1, <1>2 DEF ParamsType
  <1>4. k # 0
    BY <1>2
  <1> QED BY <1>1, <1>2, <1>3, <1>4 DEF Rotating, IsLegacy, None

LEMMA UpdateTyped ==
    ASSUME Punctual, RotationOK, NEW i \in Instances
    PROVE  LET u == update[i]
               c == u.current
           IN  /\ u \in UpdateType /\ u.at \in Nat /\ u.next \in Nat /\ u.legacyEnd \in Int
               /\ u.pc \in {"none", "find", "read", "derive", "await"}
               /\ u.others \subseteq ParamsType /\ interval[i] = Period
               /\ Clock(i) \in Nat /\ due[i] \in Nat /\ now \in Nat /\ ids \in Nat
               /\ c # None => /\ c \in ParamsType /\ c.interval = Period /\ ~IsLegacy(c)
                              /\ c.id \in Nat \ {0} /\ c.id <= ids
                              /\ c.start \in Int /\ c.end \in Int
               /\ Published(i) => c # None
               /\ c = None \/ c \in RotatingType
  <1> DEFINE u == update[i]
             c == u.current
  <1>1. /\ Period \in Nat \ {0} /\ Intervals = {Period} /\ Epoch \in Nat
    BY PunctualConstants
  <1>2. u \in UpdateType /\ interval[i] \in Intervals /\ now \in Epoch .. MaxTime /\ ids \in Nat
    BY DEF RotationOK
  <1>3. /\ u.at \in Nat /\ u.next \in Nat /\ u.legacyEnd \in Int
        /\ u.pc \in {"none", "find", "read", "derive", "await"}
        /\ u.others \subseteq ParamsType /\ c \in RotatingType \cup {None}
        /\ u.pc \in {"derive", "await"} => c # None
    BY <1>2 DEF UpdateType
  <1>4. c # None => c \in ParamsType /\ ~IsLegacy(c)
    BY <1>3 DEF RotatingType
  <1>5. c # None => c.interval = Period /\ c.id \in 1 .. ids /\ c.start \in Int /\ c.end \in Int
    BY <1>1, <1>4 DEF ParamsType, IsLegacy
  <1>6. now \in Nat
    BY <1>1, <1>2, RotatorAssumption
  <1>7. due[i] \in Nat /\ Clock(i) \in Nat
    BY ClockTyped DEF RotationOK
  <1> QED BY <1>1, <1>2, <1>3, <1>4, <1>5, <1>6, <1>7 DEF Published

\* What an instance's part of the invariant rests on.
LEMMA LocalStays ==
    ASSUME NEW j \in Instances, Local(j), db' = db, now' = now, phase'[j] = phase[j],
           update'[j] = update[j], writes'[j] = writes[j], due'[j] = due[j],
           secrets'[j] = secrets[j],
           phase[j] = "starting" =>
               \A l \in Instances : phase'[l] = "up" => phase[l] = "up"
    PROVE  Local(j)'
  <1>1. /\ \A k : Rotating(k)' <=> Rotating(k)
        /\ \A k : Latest(k)' <=> Latest(k)
        /\ Clock(j)' = Clock(j) /\ First(j)' = First(j) /\ Own(j)' = Own(j)
        /\ Published(j)' <=> Published(j)
        /\ \A p : Sound(p)' <=> Sound(p)
        /\ \A k, b, s : KeysAround(k, s, b)' = KeysAround(k, s, b) /\ Key(k, b)' = Key(k, b)
        /\ \A t : Begin(t)' = Begin(t)
    BY DEF Rotating, Latest, Clock, First, Own, Published, Sound, KeysAround, Key, Begin,
           intervalStart, IsLegacy
  <1>2. OnTime(j)'
    BY <1>1 DEF Local, OnTime
  <1>3. Pending(j)'
    BY <1>1 DEF Local, Pending
  <1>4. Chosen(j)'
    BY <1>1 DEF Local, Chosen
  <1>5. Gathered(j)'
    BY <1>1 DEF Local, Gathered
  <1>6. Uses(j)'
    BY <1>1 DEF Local, Uses
  <1>7. Derives(j)'
    BY <1>1 DEF Local, Derives
  <1>8. Static(j)'
    BY <1>1 DEF Local, Static
  <1> QED BY <1>2, <1>3, <1>4, <1>5, <1>6, <1>7, <1>8 DEF Local

LEMMA SameRecords ==
    ASSUME db' = db
    PROVE  /\ \A k : (Rotating(k)' <=> Rotating(k)) /\ (Latest(k)' <=> Latest(k))
           /\ \A p : Sound(p)' <=> Sound(p)
           /\ \A t : Begin(t)' = Begin(t)
           /\ \A k, b, s : KeysAround(k, s, b)' = KeysAround(k, s, b) /\ Key(k, b)' = Key(k, b)
  BY DEF Rotating, Latest, Sound, KeysAround, Key, Begin, intervalStart, IsLegacy

LEMMA BegunFields ==
    ASSUME NEW i \in Instances
    PROVE  LET u == Begun(i, Period)
           IN  /\ u.pc = "find" /\ u.at = Clock(i) /\ u.todo = {} /\ u.current = None
               /\ u.others = {} /\ u.legacyEnd = Clock(i) /\ u.legacyEnds = {}
               /\ u.next = Begin(Clock(i)) + Period
  BY DEF Begun, NoUpdate, Begin

\* An update that begins has nothing to answer for yet.
LEMMA BegunLocal ==
    ASSUME Punctual, RotationOK, InOrder, NEW i \in Instances,
           update'[i] = Begun(i, Period), writes'[i] = {}, db' = db, now' = now,
           OnTime(i)', Uses(i)'
    PROVE  Local(i)'
  <1>1. /\ update'[i].pc = "find" /\ update'[i].current = None /\ update'[i].at = Clock(i)
        /\ update'[i].legacyEnd = Clock(i) /\ update'[i].legacyEnds = {}
    BY BegunFields
  <1>2. Epoch <= Clock(i)
    <2>1. Skew[i] \in Nat /\ Epoch \in Nat /\ now \in Epoch .. MaxTime /\ MaxTime \in Nat
      BY PunctualConstants, RotatorAssumption DEF RotationOK
    <2> QED BY <2>1 DEF Clock
  <1>3. Pending(i)' /\ Chosen(i)' /\ Gathered(i)' /\ Derives(i)' /\ Static(i)'
    BY <1>1, <1>2 DEF Pending, Chosen, Gathered, Derives, Static, Published
  <1> QED BY <1>3 DEF Local

LEMMA startLocal ==
    ASSUME Punctual, RotationOK, InOrder, OneStarts, NEW i \in Instances, Timely(i), start(i)
    PROVE  Local(i)'
  <1>1. /\ update'[i] = Begun(i, Period) /\ writes' = writes /\ db' = db /\ now' = now
        /\ phase'[i] = "starting" /\ due'[i] = Clock(i)
    <2>1. Intervals = {Period}
      BY PunctualConstants
    <2> QED BY <2>1 DEF start, Update, RotationOK
  <1>2. writes[i] = {}
    BY DEF start, Timely, OneStarts
  <1>3. /\ update'[i].pc = "find" /\ update'[i].at = Clock(i)
        /\ update'[i].next = Begin(Clock(i)) + Period
    BY <1>1, BegunFields
  <1>4. \A k \in DOMAIN db : Rotating(k) => db[k].start < Clock(i) + Period
    <2>1. /\ Clock(i) \in Nat /\ now \in Nat /\ Period \in Nat /\ now <= Clock(i)
      <3>1. Skew[i] \in Nat /\ now \in Nat
        BY PunctualConstants, UpdateTyped
      <3> QED BY <3>1, PunctualConstants DEF Clock
    <2> SUFFICES ASSUME NEW k \in DOMAIN db, Rotating(k) PROVE db[k].start < Clock(i) + Period
      OBVIOUS
    <2>2. db[k].start \in Int /\ db[k].start < now + Period
      BY RecordTyped DEF InOrder
    <2> QED BY <2>1, <2>2
  <1>5. OnTime(i)'
    <2>1. (\A k \in DOMAIN db : Rotating(k) => db[k].start < Clock(i) + Period)'
      BY <1>1, <1>4, SameRecords DEF Clock
    <2>2. Begin(Clock(i))' = Begin(Clock(i)) /\ Clock(i)' = Clock(i)
      BY <1>1 DEF Clock, Begin, intervalStart
    <2> QED BY <1>1, <1>3, <2>1, <2>2 DEF OnTime
  <1>6. Uses(i)'
    BY <1>1 DEF Uses
  <1> QED BY <1>1, <1>2, <1>5, <1>6, BegunLocal

LEMMA TimerFiresLocal ==
    ASSUME Punctual, RotationOK, InOrder, OneStarts, NEW i \in Instances, Timely(i), Local(i),
           TimerFires(i)
    PROVE  Local(i)'
  <1> DEFINE b == First(i).start
  <1>1. /\ update'[i] = Begun(i, Period) /\ writes' = writes /\ db' = db /\ now' = now
        /\ phase' = phase /\ due' = due /\ secrets' = secrets /\ phase[i] = "up"
        /\ update[i].pc = "none" /\ due[i] <= Clock(i)
    <2>1. interval[i] = Period /\ Clock(i) \in Nat /\ due[i] \in Nat
      BY UpdateTyped
    <2> QED BY <2>1 DEF TimerFires, At, Update, RotationOK
  <1>2. writes[i] = {}
    BY <1>1 DEF OneStarts
  <1>3. /\ update'[i].pc = "find" /\ update'[i].at = Clock(i)
        /\ update'[i].next = Begin(Clock(i)) + Period
    BY <1>1, BegunFields
  <1>4. /\ b \in Nat /\ Begin(b) = b /\ b + Period <= due[i] /\ due[i] <= b + Period + Slack
        /\ Clock(i) <= due[i] + Slack
    BY <1>1 DEF Local, OnTime, Timely
  <1>5. /\ Clock(i) \in Nat /\ now \in Nat /\ Period \in Nat /\ now <= Clock(i) /\ Slack \in Nat
        /\ due[i] \in Nat /\ 2 * Slack < Period
    <2>1. Skew[i] \in Nat /\ now \in Nat /\ Skew[i] + 2 * Slack < Period
      BY PunctualConstants, UpdateTyped
    <2> QED BY <2>1, PunctualConstants, UpdateTyped DEF Clock
  <1>6. \A k \in DOMAIN db : Rotating(k) => db[k].start < Clock(i) + Period
    <2> SUFFICES ASSUME NEW k \in DOMAIN db, Rotating(k) PROVE db[k].start < Clock(i) + Period
      OBVIOUS
    <2>1. db[k].start \in Int /\ db[k].start < now + Period
      BY RecordTyped DEF InOrder
    <2> QED BY <1>5, <2>1
  <1>7. Begin(Clock(i)) = b + Period
    <2>1. Begin(b + Period) = b + Period /\ b + Period \in Int
      BY <1>4, <1>5, Apart
    <2>2. b + Period <= Clock(i) /\ Clock(i) < (b + Period) + Period
      BY <1>1, <1>4, <1>5
    <2> HIDE DEF b, Clock
    <2> QED BY <1>5, <2>1, <2>2, BeginsInOrder
  <1>8. OnTime(i)'
    <2>1. (\A k \in DOMAIN db : Rotating(k) => db[k].start < Clock(i) + Period)'
      BY <1>1, <1>6, SameRecords DEF Clock
    <2>2. Begin(Clock(i))' = Begin(Clock(i)) /\ Clock(i)' = Clock(i) /\ First(i)' = First(i)
      BY <1>1 DEF Clock, Begin, intervalStart, First
    <2>3. Begin(b)' = b /\ b <= Clock(i)
      <3>1. Begin(b)' = Begin(b)
        BY <2>2 DEF Begin, intervalStart
      <3> QED BY <1>1, <1>4, <3>1 DEF Local, OnTime
    <2> HIDE DEF Clock
    <2> QED BY <1>1, <1>3, <1>4, <1>7, <2>1, <2>2, <2>3 DEF OnTime
  <1>9. Uses(i)'
    <2>1. First(i)' = First(i)
      BY <1>1 DEF First
    <2>2. Uses(i)
      BY DEF Local
    <2> QED BY <1>1, <1>3, <2>1, <2>2, SameRecords DEF Uses
  <1> QED BY <1>1, <1>2, <1>8, <1>9, BegunLocal

LEMMA FindKeysLocal ==
    ASSUME Punctual, RotationOK, NEW i \in Instances, Local(i), FindKeys(i)
    PROVE  Local(i)'
  <1> DEFINE u == update[i]
             v == update'[i]
  <1>1. /\ v = [u EXCEPT !.pc = "read", !.todo = DOMAIN db] /\ u.pc = "find"
        /\ u \in UpdateType /\ phase[i] # "down"
        /\ UNCHANGED <<now, db, phase, writes, due, secrets>>
    BY DEF FindKeys, At, Update, RotationOK
  <1>2. /\ v.pc = "read" /\ v.todo = DOMAIN db /\ v.at = u.at /\ v.current = u.current
        /\ v.others = u.others /\ v.next = u.next /\ v.legacyEnd = u.legacyEnd
        /\ v.legacyEnds = u.legacyEnds
    BY <1>1 DEF UpdateType
  <1>3. First(i)' = First(i) /\ Clock(i)' = Clock(i)
    BY <1>1 DEF First, Clock
  <1> HIDE DEF v
  <1>4. OnTime(i)'
    BY <1>1, <1>2, <1>3, SameRecords DEF Local, OnTime, v, Begin, intervalStart
  <1>5. Pending(i)'
    BY <1>1, <1>2, SameRecords DEF Local, Pending, Published, v
  <1>6. Chosen(i)' /\ Derives(i)'
    BY <1>2 DEF Chosen, Derives, Published, v
  <1>7. Gathered(i)'
    BY <1>1, <1>2 DEF Local, Gathered, v
  <1>8. Uses(i)'
    BY <1>1, <1>2, <1>3, SameRecords DEF Local, Uses, v
  <1>9. Static(i)'
    BY <1>1, <1>2 DEF Local, Static, v
  <1> QED BY <1>4, <1>5, <1>6, <1>7, <1>8, <1>9 DEF Local

LEMMA DownLocal ==
    ASSUME RotationOK, NEW i \in Instances, Down(i)
    PROVE  Local(i)'
  <1>1. /\ update'[i] = NoUpdate /\ NoUpdate.pc = "none" /\ writes'[i] = {}
        /\ phase'[i] = "down"
    BY DEF Down, Update, NoUpdate, RotationOK
  <1> QED BY <1>1 DEF Local, OnTime, Pending, Chosen, Gathered, Uses, Derives, Static, Published

LEMMA TickLocal ==
    ASSUME Punctual, RotationOK, NEW i \in Instances, Local(i), Tick
    PROVE  Local(i)'
  <1>1. /\ UNCHANGED <<db, ids, phase, update, writes, due, secrets>>
        /\ now' = now + 1 /\ now \in Nat /\ Clock(i)' = Clock(i) + 1 /\ Clock(i) \in Nat
    <2>1. now \in Nat /\ Clock(i) \in Nat /\ Skew[i] \in Nat
      BY UpdateTyped, PunctualConstants
    <2> QED BY <2>1 DEF Tick, Clock
  <1>2. First(i)' = First(i) /\ Own(i)' = Own(i) /\ (Published(i)' <=> Published(i))
    BY <1>1 DEF First, Own, Published
  <1>3. OnTime(i)'
    <2>1. phase[i] = "up" => First(i).start \in Nat /\ First(i).start <= Clock(i)
      BY DEF Local, OnTime
    <2> HIDE DEF Clock
    <2> QED BY <1>1, <1>2, <2>1, SameRecords DEF Local, OnTime
  <1>4. Pending(i)'
    BY <1>1, <1>2, SameRecords DEF Local, Pending
  <1>5. Chosen(i)'
    <2>1. /\ Published(i) => update[i].current.start \in Int
          /\ Period \in Nat
      BY UpdateTyped, PunctualConstants
    <2>2. Published(i) => update[i].current.start < now' + Period
      BY <1>1, <2>1 DEF Local, Chosen
    <2> QED BY <1>1, <1>2, <2>2, SameRecords DEF Local, Chosen
  <1>6. Gathered(i)'
    BY <1>1, SameRecords DEF Local, Gathered
  <1>7. Uses(i)' /\ Derives(i)'
    BY <1>1, <1>2, SameRecords DEF Local, Uses, Derives
  <1>8. Static(i)'
    <2>1. Epoch \in Nat /\ Lifetime \in Nat
      BY PunctualConstants
    <2> QED BY <1>1, <2>1 DEF Local, Static
  <1> QED BY <1>3, <1>4, <1>5, <1>6, <1>7, <1>8 DEF Local

LEMMA ReadParamsFields ==
    ASSUME Punctual, RotationOK, NEW i \in Instances, NEW k \in DOMAIN db, ReadParams(i, k)
    PROVE  LET u == update[i]
               v == update'[i]
               p == db[k]
               soon == intervalStart(u.at, p.interval) + p.interval
           IN  /\ UNCHANGED <<now, db, phase, due, secrets>> /\ phase[i] # "down"
               /\ u.pc = "read" /\ v.pc = "read" /\ v.at = u.at /\ k \in u.todo
               /\ v.todo = u.todo \ {k} /\ v.legacyEnd = Earlier(u.legacyEnd, p.start)
               /\ v.legacyEnds = IF IsLegacy(p) THEN u.legacyEnds \cup {p.end} ELSE u.legacyEnds
               /\ v.next = u.next \/ (~IsLegacy(p) /\ v.next = Earlier(u.next, soon))
               /\ \/ /\ Outdated(i, p, u.at) /\ v.current = u.current /\ v.others = u.others
                     /\ writes'[i] = writes[i] \cup {[k |-> k, params |-> None]}
                  \/ /\ ~Outdated(i, p, u.at) /\ InForce(i, p, u.at)
                     /\ v.current = p /\ v.others = u.others \cup ({u.current} \ {None})
                     /\ writes'[i] = writes[i]
                  \/ /\ ~Outdated(i, p, u.at) /\ ~InForce(i, p, u.at)
                     /\ v.current = u.current /\ v.others = u.others \cup {p}
                     /\ writes'[i] = writes[i]
  <1> DEFINE u == update[i]
             v == update'[i]
             p == db[k]
             soon == intervalStart(u.at, p.interval) + p.interval
             seen == [u EXCEPT !.todo = @ \ {k}, !.legacyEnd = Earlier(@, p.start),
                               !.legacyEnds = IF IsLegacy(p) THEN @ \cup {p.end} ELSE @]
             dated == [seen EXCEPT !.next = IF IsLegacy(p) THEN @ ELSE Earlier(@, soon)]
             chosen == [dated EXCEPT !.current = p, !.others = @ \cup ({u.current} \ {None})]
             other == [dated EXCEPT !.others = @ \cup {p}]
  <1>1. /\ UNCHANGED <<now, db, phase, due, secrets>> /\ phase[i] # "down" /\ k \in u.todo
        /\ u \in UpdateType /\ u.pc = "read"
    BY DEF ReadParams, At, RotationOK
  <1>2. \/ /\ Outdated(i, p, u.at) /\ v = seen
           /\ writes'[i] = writes[i] \cup {[k |-> k, params |-> None]}
        \/ ~Outdated(i, p, u.at) /\ InForce(i, p, u.at) /\ v = chosen /\ writes'[i] = writes[i]
        \/ ~Outdated(i, p, u.at) /\ ~InForce(i, p, u.at) /\ v = other /\ writes'[i] = writes[i]
    BY DEF ReadParams, Update, RotationOK
  <1>3. /\ seen.pc = "read" /\ seen.at = u.at /\ seen.next = u.next
        /\ seen.todo = u.todo \ {k} /\ seen.legacyEnd = Earlier(u.legacyEnd, p.start)
        /\ seen.legacyEnds = IF IsLegacy(p) THEN u.legacyEnds \cup {p.end} ELSE u.legacyEnds
        /\ seen.others = u.others /\ seen.current = u.current
        /\ DOMAIN seen = DOMAIN u
    BY <1>1 DEF UpdateType
  <1>4. {"pc", "at", "next", "others", "current", "todo", "legacyEnd", "legacyEnds"} = DOMAIN u
    BY <1>1 DEF UpdateType
  <1> HIDE DEF seen, soon, p, u, v
  <1>5. /\ dated.pc = "read" /\ dated.at = u.at
        /\ dated.next = u.next \/ (~IsLegacy(p) /\ dated.next = Earlier(u.next, soon))
        /\ dated.todo = u.todo \ {k} /\ dated.legacyEnd = Earlier(u.legacyEnd, p.start)
        /\ dated.legacyEnds = IF IsLegacy(p) THEN u.legacyEnds \cup {p.end} ELSE u.legacyEnds
        /\ dated.others = u.others /\ dated.current = u.current
        /\ DOMAIN dated = DOMAIN u
    BY <1>3, <1>4
  <1> HIDE DEF dated
  <1>6. CASE /\ v = seen /\ Outdated(i, p, u.at)
             /\ writes'[i] = writes[i] \cup {[k |-> k, params |-> None]}
    BY <1>1, <1>3, <1>6 DEF u, v, p, soon
  <1>7. CASE v = chosen /\ ~Outdated(i, p, u.at) /\ InForce(i, p, u.at) /\ writes'[i] = writes[i]
    <2>1. /\ v.pc = "read" /\ v.at = dated.at /\ v.next = dated.next /\ v.todo = dated.todo
          /\ v.legacyEnd = dated.legacyEnd /\ v.legacyEnds = dated.legacyEnds
          /\ v.current = p /\ v.others = u.others \cup ({u.current} \ {None})
      BY <1>4, <1>5, <1>7
    <2> HIDE DEF chosen
    <2> QED BY <1>1, <1>5, <1>7, <2>1 DEF u, v, p, soon
  <1>8. CASE v = other /\ ~Outdated(i, p, u.at) /\ ~InForce(i, p, u.at) /\ writes'[i] = writes[i]
    <2>1. /\ v.pc = "read" /\ v.at = dated.at /\ v.next = dated.next /\ v.todo = dated.todo
          /\ v.legacyEnd = dated.legacyEnd /\ v.legacyEnds = dated.legacyEnds
          /\ v.current = u.current /\ v.others = u.others \cup {p}
      BY <1>4, <1>5, <1>8
    <2> HIDE DEF other
    <2> QED BY <1>1, <1>5, <1>8, <2>1 DEF u, v, p, soon
  <1> QED
    <2> HIDE DEF chosen, other
    <2> QED BY <1>2, <1>6, <1>7, <1>8

\* What Outdated and InForce come to, in an update that runs on time.
LEMMA InForceIs ==
    ASSUME Punctual, RotationOK, NEW i \in Instances, OnTime(i), update[i].pc # "none",
           NEW k \in DOMAIN db, Rotating(k)
    PROVE  LET u == update[i]
               p == db[k]
           IN  /\ Outdated(i, p, u.at) <=> p.end + Lifetime + Period <= u.at
               /\ InForce(i, p, u.at) <=>
                    u.at < p.end /\ (u.current = None \/ u.current.start < p.start)
               /\ Outdated(i, p, u.at) => p.end <= u.at
  <1> DEFINE u == update[i]
             p == db[k]
  <1>1. /\ Period \in Nat \ {0} /\ Lifetime \in Nat \ {0} /\ u.at \in Nat /\ interval[i] = Period
        /\ p.start \in Int /\ p.end \in Int /\ p.interval = Period /\ ~IsLegacy(p)
    BY PunctualConstants, UpdateTyped, RecordTyped DEF Rotating
  <1>2. Outdated(i, p, u.at) <=> p.end + Lifetime + Period <= u.at
    <2> HIDE DEF u, p
    <2> QED BY <1>1 DEF Outdated
  <1>3. Begin(p.start) <= Begin(u.at) + Period
    <2>1. p.start < u.at + Period
      BY DEF OnTime
    <2>2. /\ Begin(p.start) \in Int /\ Begin(p.start) <= p.start
          /\ Begin(Begin(p.start)) = Begin(p.start)
          /\ Begin(u.at) \in Int /\ u.at < Begin(u.at) + Period
          /\ Begin(Begin(u.at)) = Begin(u.at)
      BY <1>1, Begins
    <2>3. Begin(Begin(u.at) + Period) = Begin(u.at) + Period
      BY <2>2, Apart
    <2> DEFINE x == Begin(p.start)
               y == Begin(u.at) + Period
    <2>4. x \in Int /\ y \in Int /\ Begin(x) = x /\ Begin(y) = y /\ x < y + Period
      BY <1>1, <2>1, <2>2, <2>3
    <2> HIDE DEF x, y
    <2>5. x <= y
      BY <2>4, Apart
    <2> QED BY <2>5 DEF x, y
  <1>4. InForce(i, p, u.at) <=> u.at < p.end /\ (u.current = None \/ u.current.start < p.start)
    <2>1. intervalStart(p.start, p.interval) = Begin(p.start)
          /\ intervalStart(u.at, p.interval) = Begin(u.at)
      BY <1>1 DEF Begin
    <2>2. u.current # None => u.current.start \in Int
      BY UpdateTyped
    <2>3. InForce(i, p, u.at) <=>
             /\ p.interval = interval[i]
             /\ intervalStart(p.start, p.interval) <= intervalStart(u.at, p.interval) + p.interval
             /\ p.end > u.at
             /\ u.current = None \/ p.start > u.current.start
      BY DEF InForce
    <2> HIDE DEF u, p
    <2> QED BY <1>1, <1>3, <2>1, <2>2, <2>3
  <1>5. Outdated(i, p, u.at) => p.end <= u.at
    <2> HIDE DEF u, p
    <2> QED BY <1>1, <1>2
  <1> QED BY <1>2, <1>4, <1>5

LEMMA LatestOrder ==
    ASSUME Punctual, RotationOK, InOrder, NEW k \in DOMAIN db, NEW l \in DOMAIN db,
           Rotating(k), Rotating(l), k # l
    PROVE  /\ db[k].end <= db[l].start \/ db[l].end <= db[k].start
           /\ Latest(l) => db[k].end <= db[l].start
           /\ db[k].start < db[k].end /\ db[l].start < db[l].end
           /\ db[k].start \in Int /\ db[l].start \in Int /\ db[k].end \in Int /\ db[l].end \in Int
  <1>1. k \in Nat /\ l \in Nat
    BY RecordTyped
  <1>2. k < l \/ l < k
    BY <1>1
  <1>3. Latest(l) => k < l
    BY <1>1, <1>2 DEF Latest
  <1> QED BY <1>2, <1>3, RecordTyped DEF InOrder, Sound, Rotating

LEMMA ReadParamsGathered ==
    ASSUME Punctual, RotationOK, InOrder, NEW i \in Instances, NEW k \in DOMAIN db, Local(i),
           ReadParams(i, k)
    PROVE  Gathered(i)'
  <1> DEFINE u == update[i]
             v == update'[i]
             p == db[k]
             c == u.current
             d == v.current
  <1>1. /\ UNCHANGED <<now, db, phase, due, secrets>>
        /\ u.pc = "read" /\ v.pc = "read" /\ v.at = u.at /\ k \in u.todo
        /\ v.todo = u.todo \ {k}
    BY ReadParamsFields
  <1>2. \/ Outdated(i, p, u.at) /\ d = c /\ v.others = u.others
        \/ /\ ~Outdated(i, p, u.at) /\ InForce(i, p, u.at)
           /\ d = p /\ v.others = u.others \cup ({c} \ {None})
        \/ ~Outdated(i, p, u.at) /\ ~InForce(i, p, u.at) /\ d = c /\ v.others = u.others \cup {p}
    BY ReadParamsFields
  <1>3. /\ Period \in Nat \ {0} /\ Lifetime \in Nat \ {0} /\ u.at \in Nat
        /\ p.start \in Int /\ p.end \in Int /\ p.id = k /\ p # None
        /\ c # None => c.start \in Int
        /\ InForce(i, p, u.at) => Rotating(k)
    <2>1. InForce(i, p, u.at) => p.interval = Period
      BY UpdateTyped DEF InForce
    <2> QED BY <2>1, PunctualConstants, UpdateTyped, RecordTyped
  <1>4. Rotating(k) =>
           /\ Outdated(i, p, u.at) <=> p.end + Lifetime + Period <= u.at
           /\ InForce(i, p, u.at) <=> u.at < p.end /\ (c = None \/ c.start < p.start)
           /\ Outdated(i, p, u.at) => p.end <= u.at
    BY <1>1, InForceIs DEF Local
  <1>5. /\ \A l : (Rotating(l)' <=> Rotating(l)) /\ (Latest(l)' <=> Latest(l))
        /\ \A q : Sound(q)' <=> Sound(q)
    BY <1>1, SameRecords
  <1>6. \A l \in DOMAIN db : l # k /\ Rotating(l) /\ Rotating(k) =>
           /\ Latest(l) => p.start < db[l].start
           /\ Latest(k) => db[l].start < p.start
           /\ db[l].start \in Int
    <2> SUFFICES ASSUME NEW l \in DOMAIN db, l # k, Rotating(l), Rotating(k)
                 PROVE  /\ Latest(l) => p.start < db[l].start
                        /\ Latest(k) => db[l].start < p.start
                        /\ db[l].start \in Int
      OBVIOUS
    <2>1. /\ Latest(l) => p.end <= db[l].start
          /\ Latest(k) => db[l].end <= p.start
          /\ p.start < p.end /\ db[l].start < db[l].end
          /\ db[l].start \in Int /\ db[l].end \in Int
      BY LatestOrder
    <2> QED BY <1>3, <2>1
  <1>7. Gathered(i) /\ \A l : Latest(l) => Rotating(l)
    BY DEF Local, Latest
  <1> HIDE DEF u, v, p, c, d
  <1>8. ASSUME NEW l \in DOMAIN db \ v.todo, Rotating(l)
        PROVE  \/ db[l].end + Lifetime + Period <= u.at
               \/ db[l] \in v.others
               \/ d # None /\ d.id = l /\ d.start = db[l].start /\ (Latest(l) \/ d = db[l])
    <2>1. CASE l = k
      BY <1>2, <1>3, <1>4, <1>8, <2>1 DEF p
    <2>2. CASE l # k
      <3>1. \/ db[l].end + Lifetime + Period <= u.at
            \/ db[l] \in u.others
            \/ c # None /\ c.id = l /\ c.start = db[l].start /\ (Latest(l) \/ c = db[l])
        BY <1>1, <1>7, <1>8, <2>2 DEF Gathered, u, c
      <3>2. CASE d = c
        BY <1>2, <3>1, <3>2
      <3>3. CASE InForce(i, p, u.at) /\ d = p /\ v.others = u.others \cup ({c} \ {None})
        <4>1. Latest(l) /\ c # None /\ c.start = db[l].start => FALSE
          BY <1>3, <1>4, <1>6, <1>8, <2>2, <3>3
        <4> QED BY <3>1, <3>3, <4>1
      <3> QED BY <1>2, <3>2, <3>3
    <2> QED BY <2>1, <2>2
  <1>9. ASSUME NEW l \in DOMAIN db \ v.todo, Rotating(l), u.at < db[l].end
        PROVE  d # None /\ db[l].start <= d.start
    <2>1. CASE l = k
      <3>1. ~Outdated(i, p, u.at)
        BY <1>3, <1>4, <1>9, <2>1 DEF p
      <3>2. InForce(i, p, u.at) \/ (c # None /\ p.start <= c.start)
        BY <1>3, <1>4, <1>9, <2>1 DEF p
      <3> QED BY <1>2, <1>3, <2>1, <3>1, <3>2 DEF p
    <2>2. CASE l # k
      <3>1. c # None /\ db[l].start <= c.start
        BY <1>1, <1>7, <1>9, <2>2 DEF Gathered, u, c
      <3>2. InForce(i, p, u.at) => c.start < p.start
        BY <1>3, <1>4, <3>1
      <3>3. db[l].start \in Int
        BY RecordTyped
      <3> QED BY <1>2, <1>3, <3>1, <3>2, <3>3
    <2> QED BY <2>1, <2>2
  <1>10. d # None =>
            /\ Sound(d)
            /\ \A l \in DOMAIN db : Latest(l) =>
                 IF d.id = l THEN d.start = db[l].start ELSE d.start < db[l].start
            /\ phase[i] = "up" /\ Rotating(d.id) /\ ~Latest(d.id) => d = db[d.id]
            /\ phase[i] = "starting" => Rotating(d.id) /\ db[d.id] = d /\ u.at < d.end
    <2>1. CASE d = c
      BY <1>1, <1>7, <2>1 DEF Gathered, u, c
    <2>2. CASE InForce(i, p, u.at) /\ d = p
      <3>1. Sound(p) /\ Rotating(k) /\ u.at < p.end
        BY <1>3, <1>4, <2>2 DEF InOrder, p
      <3>2. \A l \in DOMAIN db : Latest(l) =>
               IF d.id = l THEN d.start = db[l].start ELSE d.start < db[l].start
        BY <1>3, <1>6, <1>7, <2>2, <3>1 DEF p
      <3> QED BY <1>3, <2>2, <3>1, <3>2 DEF p
    <2> QED BY <1>2, <2>1, <2>2
  <1> QED BY <1>1, <1>5, <1>8, <1>9, <1>10 DEF Gathered, u, v, d

LEMMA ReadParamsLocal ==
    ASSUME Punctual, RotationOK, InOrder, NEW i \in Instances, NEW k \in DOMAIN db, Timely(i),
           Local(i), ReadParams(i, k)
    PROVE  Local(i)'
  <1> DEFINE u == update[i]
             v == update'[i]
             p == db[k]
             soon == intervalStart(u.at, p.interval) + p.interval
  <1>1. /\ UNCHANGED <<now, db, phase, due, secrets>>
        /\ u.pc = "read" /\ v.pc = "read" /\ v.at = u.at
        /\ v.legacyEnd = Earlier(u.legacyEnd, p.start)
        /\ v.legacyEnds = IF IsLegacy(p) THEN u.legacyEnds \cup {p.end} ELSE u.legacyEnds
        /\ v.next = u.next \/ (~IsLegacy(p) /\ v.next = Earlier(u.next, soon))
    BY ReadParamsFields
  <1>2. /\ Period \in Nat \ {0} /\ Lifetime \in Nat \ {0} /\ Epoch \in Nat
        /\ u.at \in Nat /\ u.next \in Nat /\ u.legacyEnd \in Int
        /\ interval[i] = Period /\ p.start \in Int /\ p.end \in Int /\ p # None
        /\ ~IsLegacy(p) => p.interval = Period
    BY PunctualConstants, UpdateTyped, RecordTyped DEF IsLegacy
  <1>3. First(i)' = First(i) /\ Clock(i)' = Clock(i)
    BY <1>1 DEF First, Clock
  <1>4. v.next = u.next
    <2>1. u.next = Begin(u.at) + Period
      BY <1>1 DEF Local, OnTime
    <2>2. ~IsLegacy(p) => soon = u.next
      BY <1>2, <2>1 DEF Begin
    <2> QED BY <1>1, <1>2, <2>2 DEF Earlier
  <1>5. OnTime(i)'
    <2> HIDE DEF u, v, p
    <2> QED BY <1>1, <1>3, <1>4, SameRecords DEF Local, OnTime, Begin, intervalStart, u, v
  <1>6. Pending(i)'
    <2> SUFFICES ASSUME NEW w \in writes'[i]
                 PROVE  /\ w.params = None
                        /\ Rotating(w.k) => db[w.k].end + Lifetime + Period <= u.at
      <3>1. ~Published(i)'
        BY <1>1 DEF Published
      <3> QED BY <1>1, <3>1, SameRecords DEF Pending
    <2>1. CASE w \in writes[i]
      <3>1. ~Published(i)
        BY <1>1 DEF Published
      <3> QED BY <2>1, <3>1 DEF Local, Pending
    <2>2. CASE w = [k |-> k, params |-> None] /\ Outdated(i, p, u.at)
      <3>1. Rotating(k) => p.end + Lifetime + Period <= u.at
        BY <1>1, <2>2, InForceIs DEF Local
      <3> QED BY <2>2, <3>1
    <2>3. \/ writes'[i] = writes[i]
          \/ Outdated(i, p, u.at) /\ writes'[i] = writes[i] \cup {[k |-> k, params |-> None]}
      BY ReadParamsFields
    <2> QED BY <2>1, <2>2, <2>3
  <1>7. Chosen(i)' /\ Derives(i)'
    BY <1>1 DEF Chosen, Derives, Published
  <1>8. Gathered(i)'
    BY ReadParamsGathered
  <1>9. Uses(i)'
    <2> HIDE DEF u, v, p
    <2> QED BY <1>1, <1>3, SameRecords DEF Local, Uses, u, v
  <1>10. Static(i)'
    <2>1. Epoch <= p.start /\ Epoch <= p.end
      BY DEF InOrder, Sound
    <2>2. Epoch <= v.legacyEnd
      BY <1>1, <1>2, <2>1 DEF Local, Static, Earlier
    <2>3. ASSUME now < Epoch + Lifetime
          PROVE  v.legacyEnds = {} \/ \E q \in v.others : IsLegacy(q)
      <3>1. u.legacyEnds = {} \/ \E q \in u.others : IsLegacy(q)
        BY <1>1, <2>3 DEF Local, Static
      <3>2. u.others \subseteq v.others
        <4>1. \/ v.others = u.others \/ v.others = u.others \cup {p}
              \/ v.others = u.others \cup ({u.current} \ {None})
          BY ReadParamsFields
        <4> QED BY <4>1
      <3>3. IsLegacy(p) => p \in v.others
        <4>1. IsLegacy(p) => ~InForce(i, p, u.at)
          BY <1>2 DEF InForce, IsLegacy
        <4>2. ~Outdated(i, p, u.at)
          <5>1. u.at <= Clock(i) /\ Skew[i] \in Nat /\ Slack \in Nat /\ now \in Nat
                /\ Skew[i] + 2 * Slack < Period
            BY <1>1, PunctualConstants, UpdateTyped DEF Timely
          <5>2. u.at < p.end + Lifetime + Period
            <6> HIDE DEF u, p
            <6> QED BY <1>2, <2>1, <2>3, <5>1 DEF Clock
          <5>3. (IF IsLegacy(p) THEN interval[i] ELSE p.interval) = Period
            BY <1>2
          <5> HIDE DEF u, p
          <5> QED BY <1>2, <5>2, <5>3 DEF Outdated
        <4> QED BY <4>1, <4>2, ReadParamsFields
      <3> HIDE DEF u, v, p
      <3> QED BY <1>1, <3>1, <3>2, <3>3
    <2>4. Epoch <= v.at
      BY <1>1 DEF Local, Static
    <2> QED BY <1>1, <2>2, <2>3, <2>4 DEF Static
  <1> QED BY <1>5, <1>6, <1>7, <1>8, <1>9, <1>10 DEF Local

StaticParams(i) == Params(ids + 1, update[i].legacyEnd, update[i].legacyEnd, 0)

LEMMA PublishFields ==
    ASSUME Punctual, RotationOK, NEW i \in Instances, Publish(i)
    PROVE  LET u == update[i]
               v == update'[i]
               legacy == IF NeedsLegacy(i) THEN {StaticParams(i)} ELSE {}
           IN  /\ UNCHANGED <<now, db, phase, due, secrets>> /\ phase[i] # "down"
               /\ u.pc = "read" /\ u.todo = {} /\ v.pc = "derive" /\ v.at = u.at /\ v.todo = {}
               /\ v.next = u.next /\ v.legacyEnd = u.legacyEnd
               /\ v.others = u.others \cup legacy
               /\ v.current.interval = Period
               /\ v.current.end = Later(IF u.current # None THEN u.current.end ELSE u.at,
                                        Begin(u.at) + 2 * Period)
               /\ IF u.current # None
                  THEN v.current.id = u.current.id /\ v.current.start = u.current.start
                  ELSE v.current.start = u.at /\ v.current.id > ids
                       /\ (NeedsLegacy(i) => v.current.id # ids + 1)
               /\ writes'[i] = writes[i] \cup {[k |-> p.id, params |-> p] :
                                                  p \in legacy \cup {v.current}}
  <1> DEFINE u == update[i]
             v == update'[i]
             legacy == IF NeedsLegacy(i) THEN {StaticParams(i)} ELSE {}
             made == ids + Cardinality(legacy)
             chosen == IF u.current # None THEN u.current
                       ELSE Params(made + 1, u.at, u.at, interval[i])
             current == Extended(i, chosen, u.at)
  <1>1. /\ UNCHANGED <<now, db, phase, due, secrets>> /\ phase[i] # "down"
        /\ u.pc = "read" /\ u.todo = {} /\ u \in UpdateType
        /\ v = [u EXCEPT !.pc = "derive", !.current = current, !.others = @ \cup legacy]
        /\ writes'[i] = writes[i] \cup {[k |-> p.id, params |-> p] : p \in legacy \cup {current}}
    BY DEF Publish, At, Update, RotationOK, StaticParams
  <1>2. /\ v.pc = "derive" /\ v.at = u.at /\ v.todo = u.todo /\ v.next = u.next
        /\ v.legacyEnd = u.legacyEnd /\ v.others = u.others \cup legacy /\ v.current = current
    <2> HIDE DEF current, legacy
    <2> QED BY <1>1 DEF UpdateType
  <1>3. /\ interval[i] = Period /\ Period \in Nat \ {0} /\ u.at \in Nat /\ ids \in Nat
        /\ u.current # None => u.current.interval = Period /\ u.current \in ParamsType
    BY PunctualConstants, UpdateTyped
  <1>4. made \in Nat /\ made >= ids /\ (NeedsLegacy(i) => made = ids + 1)
    <2>1. CASE ~NeedsLegacy(i)
      BY <1>3, <2>1, FS_EmptySet
    <2>2. CASE NeedsLegacy(i)
      <3>1. legacy = {StaticParams(i)}
        BY <2>2
      <3> HIDE DEF legacy
      <3>2. Cardinality({StaticParams(i)}) = 1
        BY FS_Singleton
      <3> QED BY <1>3, <3>1, <3>2
    <2> QED BY <2>1, <2>2
  <1>5. /\ chosen.interval = Period
        /\ chosen.end = IF u.current # None THEN u.current.end ELSE u.at
        /\ IF u.current # None THEN chosen.id = u.current.id /\ chosen.start = u.current.start
           ELSE chosen.start = u.at /\ chosen.id = made + 1
        /\ DOMAIN chosen = {"id", "start", "end", "interval"}
    BY <1>3 DEF Params, ParamsType
  <1> HIDE DEF chosen, made, legacy, u, v
  <1>6. /\ current.interval = Period /\ current.id = chosen.id /\ current.start = chosen.start
        /\ current.end = Later(chosen.end, intervalStart(u.at, Period) + 2 * Period)
    BY <1>3, <1>5 DEF Extended
  <1>7. u.current = None =>
           chosen.id > ids /\ (NeedsLegacy(i) => chosen.id # ids + 1)
    BY <1>3, <1>4, <1>5
  <1> HIDE DEF current
  <1> QED BY <1>1, <1>2, <1>5, <1>6, <1>7 DEF Begin, u, v, legacy

\* While an instance is up, the parameters it signs with are in force by every
\* clock: in its own updates, and for an instance that starts beside it.
LEMMA UpToDate ==
    ASSUME Punctual, RotationOK, OneStarts, NEW i \in Instances, NEW j \in Instances,
           Timely(i), Timely(j), Local(i), Local(j), phase[j] = "up",
           update[i].pc \in {"find", "read"}, i = j \/ phase[i] = "starting"
    PROVE  Rotating(First(j).id) /\ update[i].at < db[First(j).id].end
  <1> DEFINE k == First(j).id
             b == First(j).start
             t == update[i].at
  <1>1. /\ Period \in Nat \ {0} /\ Slack \in Nat /\ Skew[i] \in Nat /\ Skew[j] \in Nat
        /\ Skew[i] + 2 * Slack < Period /\ Skew[j] + 2 * Slack < Period
        /\ now \in Nat /\ t \in Nat /\ due[j] \in Nat
    BY PunctualConstants, UpdateTyped
  <1>2. update[j].pc # "await"
    BY DEF OneStarts
  <1>3. Latest(k) /\ b + 2 * Period <= db[k].end
    BY <1>2 DEF Local, Uses
  <1>4. /\ b \in Nat /\ due[j] <= b + Period + Slack /\ Clock(j) <= due[j] + Slack
        /\ t <= Clock(i)
    BY <1>2 DEF Local, OnTime, Timely
  <1>5. db[k].end \in Int
    BY <1>3, RecordTyped DEF Latest, Rotating
  <1>6. t < db[k].end
    <2> HIDE DEF b, k, t
    <2> QED BY <1>1, <1>3, <1>4, <1>5 DEF Clock
  <1> QED BY <1>3, <1>6 DEF Latest

\* Who publishes has chosen the latest parameters, or found that none are in force.
LEMMA PublishChoice ==
    ASSUME Punctual, RotationOK, InOrder, OneStarts, NEW i \in Instances,
           \A j \in Instances : Timely(j) /\ Local(j),
           phase[i] # "down", update[i].pc = "read", update[i].todo = {}
    PROVE  LET u == update[i]
               c == u.current
           IN  IF c # None
               THEN /\ Latest(c.id) /\ c.start = db[c.id].start /\ u.at < db[c.id].end /\ Sound(c)
                    /\ phase[i] = "up" => c.id = First(i).id
                    /\ phase[i] = "starting" => c = db[c.id]
               ELSE /\ phase[i] = "starting"
                    /\ \A k \in DOMAIN db : Rotating(k) => db[k].end <= u.at
                    /\ \A j \in Instances : phase[j] # "up"
  <1> DEFINE u == update[i]
             c == u.current
  <1>1. /\ phase[i] \in {"up", "starting"} /\ u.at \in Nat
        /\ c # None => c.start \in Int /\ c.end \in Int /\ c.id \in Nat /\ ~IsLegacy(c)
    <2>1. phase[i] \in {"down", "starting", "up"}
      BY DEF RotationOK
    <2> QED BY <2>1, UpdateTyped
  <1>2. Gathered(i)
    BY DEF Local
  <1>3. \A k \in DOMAIN db : Rotating(k) /\ u.at < db[k].end => c # None /\ db[k].start <= c.start
    BY <1>2 DEF Gathered
  <1>4. c # None =>
            /\ Sound(c)
            /\ \A k \in DOMAIN db : Latest(k) =>
                 IF c.id = k THEN c.start = db[k].start ELSE c.start < db[k].start
            /\ phase[i] = "starting" => Rotating(c.id) /\ db[c.id] = c /\ u.at < c.end
    BY <1>2 DEF Gathered
  <1>5. CASE phase[i] = "up"
    <2> DEFINE k == First(i).id
    <2>1. Latest(k)
      BY <1>5 DEF Local, Uses
    <2>2. Rotating(k) /\ u.at < db[k].end
      BY <1>5, UpToDate
    <2>3. k \in DOMAIN db /\ db[k].start \in Int
      BY <2>2, RecordTyped DEF Rotating
    <2>4. c # None /\ c.id = k /\ c.start = db[k].start /\ Sound(c)
      <3> HIDE DEF u, c, k
      <3> QED BY <1>1, <1>3, <1>4, <2>1, <2>2, <2>3
    <2> QED BY <1>5, <2>1, <2>2, <2>4
  <1>6. CASE phase[i] = "starting" /\ c # None
    <2>1. Rotating(c.id) /\ db[c.id] = c /\ u.at < c.end /\ Sound(c)
      BY <1>4, <1>6
    <2>2. ASSUME NEW l \in DOMAIN db, Rotating(l), ~(l <= c.id)
          PROVE  FALSE
      <3>1. l \in Nat /\ db[l].start \in Int /\ db[l].end \in Int
        BY RecordTyped
      <3>2. db[c.id].end <= db[l].start
        BY <1>1, <1>6, <2>1, <2>2, <3>1 DEF InOrder, Rotating
      <3>3. db[l].start < db[l].end /\ c.start < c.end
        BY <1>1, <1>6, <2>1, <2>2 DEF InOrder, Sound, Rotating
      <3>4. db[l].start <= c.start
        <4> HIDE DEF u, c
        <4> QED BY <1>1, <1>3, <1>6, <2>1, <2>2, <3>1, <3>2, <3>3
      <3> HIDE DEF u, c
      <3> QED BY <1>1, <1>6, <2>1, <3>1, <3>2, <3>3, <3>4
    <2> QED BY <1>6, <2>1, <2>2 DEF Latest
  <1>7. CASE phase[i] = "starting" /\ c = None
    <2>1. ASSUME NEW k \in DOMAIN db, Rotating(k) PROVE db[k].end <= u.at
      <3>1. db[k].end \in Int
        BY RecordTyped
      <3> QED BY <1>1, <1>3, <1>7, <2>1, <3>1
    <2>2. ASSUME NEW j \in Instances, phase[j] = "up" PROVE FALSE
      <3>1. Rotating(First(j).id) /\ u.at < db[First(j).id].end
        BY <1>7, <2>2, UpToDate
      <3> QED BY <1>3, <1>7, <3>1 DEF Rotating
    <2> QED BY <1>7, <2>1, <2>2
  <1> QED BY <1>1, <1>5, <1>6, <1>7

LEMMA PublishChosen ==
    ASSUME Punctual, RotationOK, RotationOK', InOrder, OneStarts, NEW i \in Instances,
           \A j \in Instances : Timely(j) /\ Local(j), Publish(i)
    PROVE  Chosen(i)'
  <1> DEFINE u == update[i]
             v == update'[i]
             c == u.current
             d == v.current
             until == Begin(u.at) + 2 * Period
  <1>1. /\ UNCHANGED <<now, db, phase, due, secrets>> /\ phase[i] # "down"
        /\ u.pc = "read" /\ u.todo = {} /\ v.pc = "derive" /\ v.at = u.at
        /\ d.end = Later(IF c # None THEN c.end ELSE u.at, until)
        /\ IF c # None THEN d.id = c.id /\ d.start = c.start
           ELSE d.start = u.at /\ d.id > ids
        /\ d.interval = Period
    BY PublishFields
  <1>2. Own(i)' \in writes'[i]
    <2>1. PICK legacy : writes'[i] = writes[i] \cup {[k |-> p.id, params |-> p] :
                                                      p \in legacy \cup {d}}
      BY PublishFields
    <2>2. d \in legacy \cup {d} /\ Own(i)' = [k |-> d.id, params |-> d]
      BY DEF Own
    <2> HIDE DEF d
    <2> QED BY <2>1, <2>2
  <1>3. IF c # None
        THEN /\ Latest(c.id) /\ c.start = db[c.id].start /\ u.at < db[c.id].end /\ Sound(c)
             /\ phase[i] = "up" => c.id = First(i).id
             /\ phase[i] = "starting" => c = db[c.id]
        ELSE /\ phase[i] = "starting"
             /\ \A k \in DOMAIN db : Rotating(k) => db[k].end <= u.at
             /\ \A j \in Instances : phase[j] # "up"
    BY <1>1, PublishChoice
  <1>4. /\ Period \in Nat \ {0} /\ Epoch \in Nat /\ u.at \in Nat /\ now \in Nat
        /\ Skew[i] \in Nat /\ Skew[i] < Period /\ ids \in Nat
        /\ c # None => c.start \in Int /\ c.end \in Int /\ ~IsLegacy(c)
        /\ Begin(u.at) \in Int /\ u.at < Begin(u.at) + Period
        /\ Begin(Begin(u.at)) = Begin(u.at) /\ Begin(u.at) <= u.at
    <2>1. Slack \in Nat /\ Skew[i] + 2 * Slack < Period /\ Skew[i] \in Nat /\ Period \in Nat
      BY PunctualConstants
    <2>2. Skew[i] < Period
      BY <2>1
    <2> QED BY <2>2, PunctualConstants, UpdateTyped, Begins
  <1>5. until \in Int /\ Begin(until) = until /\ u.at < until
    BY <1>4, Apart
  <1>6. u.at <= now + Skew[i] /\ Epoch <= u.at
    BY <1>1 DEF Timely, Clock, Local, Static
  <1>7. /\ d.start < u.at + Period /\ d.start < now + Period /\ Epoch <= d.start
        /\ d.start \in Int
    <2>1. CASE c # None
      <3>1. Rotating(c.id) /\ c.id \in DOMAIN db
        BY <1>3, <2>1 DEF Latest, Rotating
      <3>2. c.start < u.at + Period /\ c.start < now + Period
        BY <1>1, <1>3, <2>1, <3>1 DEF InOrder, Local, OnTime
      <3>3. Epoch <= c.start
        BY <1>3, <2>1 DEF Sound
      <3> QED BY <1>1, <1>4, <2>1, <3>2, <3>3
    <2>2. CASE c = None
      <3> HIDE DEF u, v, c, d
      <3> QED BY <1>1, <1>4, <1>6, <2>2
    <2> QED BY <2>1, <2>2
  <1>8. /\ d.end \in Int /\ until <= d.end /\ Begin(d.end) = d.end
        /\ c # None => c.end <= d.end
    <2>1. c # None => Begin(c.end) = c.end
      BY <1>3, <1>4 DEF Sound
    <2> HIDE DEF u, v, c, d, until
    <2> QED BY <1>1, <1>4, <1>5, <2>1 DEF Later
  <1>9. Sound(d)
    <2> HIDE DEF u, v, c, d
    <2>1. d.start < d.end /\ Epoch <= d.end
      BY <1>4, <1>5, <1>6, <1>7, <1>8
    <2> QED BY <1>7, <1>8, <2>1 DEF Sound
  <1>10. phase[i] = "up" => d.id = First(i).id /\ db[d.id].start = d.start
    <2> HIDE DEF u, v, c, d
    <2> QED BY <1>1, <1>3
  <1>11. phase[i] = "starting" =>
            \/ Latest(d.id) /\ db[d.id].start = d.start /\ db[d.id].end <= d.end
            \/ /\ d.id \notin DOMAIN db
               /\ \A k \in DOMAIN db : Rotating(k) => k < d.id /\ db[k].end <= d.start
               /\ \A j \in Instances : phase[j] # "up"
    <2>1. CASE c # None
      <3> HIDE DEF u, v, c, d, until
      <3> QED BY <1>1, <1>3, <1>8, <2>1
    <2>2. CASE c = None
      <3>1. \A k \in DOMAIN db : k \in Nat /\ k <= ids
        BY RecordTyped
      <3>2. d.id \in Nat
        <4>1. d # None /\ Published(i)'
          BY <1>1, <1>4 DEF None, Published
        <4> QED BY <1>1, <4>1 DEF RotationOK, UpdateType, RotatingType, ParamsType
      <3> HIDE DEF u, v, c, d, until
      <3>3. d.id > ids /\ d.start = u.at
        BY <1>1, <2>2
      <3>4. \A k \in DOMAIN db : k < d.id
        BY <1>4, <3>1, <3>2, <3>3
      <3>5. d.id \notin DOMAIN db
        BY <3>2, <3>4
      <3> QED BY <1>3, <2>2, <3>3, <3>4, <3>5
    <2> QED BY <2>1, <2>2
  <1> HIDE DEF u, v, c, d, until
  <1>12. First(i)' = First(i) /\ update'[i].current = d /\ update'[i].at = u.at
    BY <1>1 DEF First, d, v
  <1> QED BY <1>1, <1>2, <1>7, <1>8, <1>9, <1>10, <1>11, <1>12, SameRecords DEF Chosen, until

LEMMA PublishPending ==
    ASSUME Punctual, RotationOK, RotationOK', InOrder, OneStarts, NEW i \in Instances,
           \A j \in Instances : Timely(j) /\ Local(j), Publish(i)
    PROVE  Pending(i)'
  <1> DEFINE u == update[i]
             v == update'[i]
             c == u.current
             d == v.current
             s == StaticParams(i)
  <1>1. /\ UNCHANGED <<now, db, phase, due, secrets>> /\ phase[i] # "down"
        /\ u.pc = "read" /\ u.todo = {} /\ v.pc = "derive" /\ v.at = u.at
        /\ IF c # None THEN d.id = c.id ELSE d.id > ids /\ (NeedsLegacy(i) => d.id # ids + 1)
    BY PublishFields
  <1>2. \A w \in writes'[i] : \/ w \in writes[i]
                              \/ w = [k |-> d.id, params |-> d]
                              \/ NeedsLegacy(i) /\ w = [k |-> s.id, params |-> s]
    <2> DEFINE legacy == IF NeedsLegacy(i) THEN {s} ELSE {}
    <2>1. writes'[i] = writes[i] \cup {[k |-> p.id, params |-> p] : p \in legacy \cup {d}}
      BY PublishFields
    <2>2. \A p \in legacy : NeedsLegacy(i) /\ p = s
      OBVIOUS
    <2> HIDE DEF legacy, s, d
    <2> QED BY <2>1, <2>2
  <1>3. c # None => Rotating(c.id) /\ u.at < db[c.id].end
    BY <1>1, PublishChoice DEF Latest
  <1>4. /\ Period \in Nat \ {0} /\ Lifetime \in Nat \ {0} /\ u.at \in Nat /\ ids \in Nat
        /\ u.legacyEnd \in Int /\ Epoch <= u.legacyEnd
        /\ \A k \in DOMAIN db : db[k].end \in Int /\ k <= ids /\ k \in Nat
        /\ c # None => c.id <= ids /\ c.id \in Nat
    BY <1>1, PunctualConstants, UpdateTyped, RecordTyped DEF Local, Static
  <1>5. d.id \in Nat
    <2>1. Published(i)' /\ Intervals = {Period}
      BY <1>1, PunctualConstants DEF Published
    <2>2. d \in RotatingType'
      BY <1>1 DEF RotationOK, UpdateType, RotatingType
    <2> QED BY <2>2 DEF RotatingType, ParamsType
  <1>6. (Published(i)' /\ ~Published(i)) /\ update'[i].current = d /\ update'[i].at = u.at
    BY <1>1 DEF Published
  <1>7. s.id = ids + 1 /\ IsLegacy(s) /\ s # None /\ s.start = u.legacyEnd /\ s.end = u.legacyEnd
    BY <1>4 DEF StaticParams, Params, None, IsLegacy
  <1>8. Own(i)' = [k |-> d.id, params |-> d]
    BY DEF Own
  <1> SUFFICES ASSUME NEW w \in writes'[i]
               PROVE  \/ /\ w.params = None
                         /\ Rotating(w.k) => db[w.k].end + Lifetime + Period <= u.at
                         /\ w.k # d.id
                      \/ /\ w.params # None /\ IsLegacy(w.params) /\ Sound(w.params)
                         /\ ~Rotating(w.k) /\ w.k # d.id
                      \/ w = [k |-> d.id, params |-> d]
    BY <1>1, <1>6, <1>8, SameRecords DEF Pending
  <1>9. CASE w \in writes[i]
    <2>1. /\ w.params = None
          /\ Rotating(w.k) => db[w.k].end + Lifetime + Period <= u.at
      BY <1>6, <1>9 DEF Local, Pending
    <2>2. w.k \in Nat /\ w.k <= ids
      BY <1>4, <1>9 DEF RotationOK, WriteType
    <2>3. CASE c # None
      <3>1. Rotating(w.k) => w.k \in DOMAIN db
        BY DEF Rotating
      <3> HIDE DEF u, v, c, d
      <3> QED BY <1>1, <1>3, <1>4, <2>1, <2>3, <3>1
    <2>4. CASE c = None
      <3> HIDE DEF u, v, c, d
      <3> QED BY <1>1, <1>4, <1>5, <2>1, <2>2, <2>4
    <2> QED BY <2>3, <2>4
  <1>10. CASE NeedsLegacy(i) /\ w = [k |-> s.id, params |-> s]
    <2>1. Sound(s)
      BY <1>4, <1>7 DEF Sound
    <2>2. ~Rotating(ids + 1)
      BY <1>4 DEF Rotating
    <2>3. d.id # ids + 1
      <3> HIDE DEF u, v, c, d, s
      <3> QED BY <1>1, <1>4, <1>5, <1>10
    <2> HIDE DEF s, d
    <2> QED BY <1>7, <1>10, <2>1, <2>2, <2>3
  <1> QED BY <1>2, <1>9, <1>10

LEMMA PublishLocal ==
    ASSUME Punctual, RotationOK, RotationOK', InOrder, OneStarts, NEW i \in Instances,
           \A j \in Instances : Timely(j) /\ Local(j), Publish(i)
    PROVE  Local(i)'
  <1> DEFINE u == update[i]
             v == update'[i]
             c == u.current
             d == v.current
  <1>1. /\ UNCHANGED <<now, db, phase, due, secrets>> /\ phase[i] # "down"
        /\ u.pc = "read" /\ u.todo = {} /\ v.pc = "derive" /\ v.at = u.at /\ v.todo = {}
        /\ v.next = u.next /\ v.legacyEnd = u.legacyEnd /\ u.others \subseteq v.others
        /\ c # None => d.id = c.id /\ d.start = c.start
        /\ NeedsLegacy(i) => StaticParams(i) \in v.others
    BY PublishFields
  <1>2. First(i)' = First(i) /\ Clock(i)' = Clock(i) /\ Local(i)
    BY <1>1 DEF First, Clock
  <1>3. OnTime(i)'
    <2> HIDE DEF u, v
    <2> QED BY <1>1, <1>2, SameRecords DEF Local, OnTime, Begin, intervalStart, u, v
  <1>4. Pending(i)' /\ Chosen(i)'
    BY PublishPending, PublishChosen
  <1>5. Gathered(i)'
    <2> SUFFICES ASSUME NEW k \in DOMAIN db, Rotating(k)
                 PROVE  \/ db[k].end + Lifetime + Period <= u.at
                        \/ db[k] \in v.others
                        \/ d # None /\ d.id = k /\ d.start = db[k].start /\ Latest(k)
      BY <1>1, SameRecords DEF Gathered
    <2>1. \/ db[k].end + Lifetime + Period <= u.at
          \/ db[k] \in u.others
          \/ c # None /\ c.id = k /\ c.start = db[k].start
      BY <1>1, <1>2 DEF Local, Gathered
    <2>2. c # None => Latest(c.id)
      BY <1>1, PublishChoice
    <2>3. d # None
      BY <1>1 DEF RotationOK, UpdateType
    <2> QED BY <1>1, <2>1, <2>2, <2>3
  <1>6. Uses(i)'
    <2> HIDE DEF u, v
    <2> QED BY <1>1, <1>2, SameRecords DEF Local, Uses, u, v
  <1>7. Derives(i)'
    BY <1>1 DEF Derives
  <1>8. Static(i)'
    <2>1. Epoch <= v.legacyEnd /\ Epoch <= v.at
      BY <1>1, <1>2 DEF Local, Static
    <2>2. ASSUME now < Epoch + Lifetime, LegacyKey
          PROVE  \E p \in v.others : IsLegacy(p)
      <3>1. u.legacyEnds = {} \/ \E p \in u.others : IsLegacy(p)
        BY <1>1, <1>2, <2>2 DEF Local, Static
      <3>2. IsLegacy(StaticParams(i))
        BY DEF StaticParams, Params, IsLegacy
      <3>3. CASE u.legacyEnds = {}
        <4>1. u.at <= Clock(i) /\ Skew[i] \in Nat /\ Slack \in Nat /\ now \in Nat
              /\ Skew[i] + 2 * Slack < Period /\ u.legacyEnd \in Int /\ Epoch \in Nat
              /\ Lifetime \in Nat /\ u.at \in Nat /\ interval[i] = Period /\ Period \in Nat
          BY <1>1, PunctualConstants, UpdateTyped DEF Timely
        <4>2. u.at < u.legacyEnd + Lifetime + Period
          <5> HIDE DEF u, v
          <5> QED BY <1>1, <2>1, <2>2, <4>1 DEF Clock
        <4>3. NeedsLegacy(i)
          BY <2>2, <3>3, <4>1, <4>2 DEF NeedsLegacy
        <4> QED BY <1>1, <3>2, <4>3
      <3> HIDE DEF u, v
      <3> QED BY <1>1, <3>1, <3>3
    <2> QED BY <1>1, <2>1, <2>2 DEF Static
  <1> QED BY <1>3, <1>4, <1>5, <1>6, <1>7, <1>8 DEF Local

LEMMA DerivedKeys ==
    ASSUME Punctual, NEW p \in ParamsType, p.interval = Period, NEW t \in Nat,
           NEW x \in Int, Begin(x) = x, Begin(p.start - Period) <= x, x + Period <= p.end,
           t < x + 2 * Period + Lifetime, x <= Begin(t) + Period, x \in Nat \/ x <= Begin(t)
    PROVE  Key(p.id, x) \in deriveSecrets(p, t)
  <1>1. /\ Period \in Nat \ {0} /\ Lifetime \in Nat \ {0} /\ p.start \in Int /\ p.end \in Int
        /\ ~IsLegacy(p)
    BY PunctualConstants DEF ParamsType, IsLegacy
  <1>2. /\ Begin(t) \in Int /\ Begin(Begin(t)) = Begin(t)
        /\ p.end - 1 \in Int /\ p.start - Period \in Int /\ x <= p.end - 1
    BY <1>1, Begins
  <1>3. Begin(p.end - 1) \in Int /\ x <= Begin(p.end - 1)
    BY <1>2, Begins, BeginsInOrder
  <1>4. Begin(p.start - Period) \in Int
    BY <1>2, Begins
  <1>5. Key(p.id, x) = Secret(p, x)
    BY DEF Key, Secret
  <1>6. x % Period = 0
    BY <1>1, Divides DEF Begin, intervalStart
  <1>7. ~expired(p, x, t)
    BY <1>1 DEF expired
  <1> DEFINE next == Begin(t) + Period
             past == {tN \in FirstInterval(p) .. Current(p, t) :
                         tN % p.interval = 0 /\ ~expired(p, tN, t)}
  <1>8. /\ FirstInterval(p) = Begin(p.start - Period) /\ LastInterval(p) = Begin(p.end - 1)
        /\ Current(p, t) = Earlier(Begin(t), Begin(p.end - 1))
    BY DEF FirstInterval, LastInterval, Current, Begin
  <1>9. deriveSecrets(p, t) = {Secret(p, tN) : tN \in past \cup ({next} \cap 0 .. LastInterval(p))}
    BY <1>1 DEF deriveSecrets, Begin
  <1>10. x \in past \cup ({next} \cap 0 .. LastInterval(p))
    <2>1. CASE x <= Begin(t)
      <3>1. x <= Current(p, t) /\ Current(p, t) \in Int
        BY <1>2, <1>3, <1>8, <2>1 DEF Earlier
      <3>2. x \in FirstInterval(p) .. Current(p, t)
        BY <1>4, <1>8, <3>1
      <3> QED BY <1>6, <1>7, <3>2
    <2>2. CASE ~(x <= Begin(t))
      <3>1. Begin(next) = next /\ next \in Int
        BY <1>1, <1>2, Apart
      <3>2. next < x + Period
        BY <1>1, <1>2, <2>2
      <3>3. next <= x
        BY <3>1, <3>2, Apart
      <3>4. x = next
        BY <1>1, <1>2, <3>1, <3>3
      <3>5. x \in 0 .. LastInterval(p)
        BY <1>3, <1>8, <2>2
      <3> QED BY <3>4, <3>5
    <2> QED BY <2>1, <2>2
  <1> HIDE DEF past, next
  <1> QED BY <1>5, <1>9, <1>10

LEMMA ActivateFields ==
    ASSUME Punctual, RotationOK, NEW i \in Instances, Local(i), Activate(i)
    PROVE  LET u == update[i]
               v == update'[i]
               c == u.current
           IN  /\ UNCHANGED <<now, db, phase, due, writes>> /\ phase[i] # "down"
               /\ u.pc = "derive" /\ v = [u EXCEPT !.pc = "await"] /\ v.pc = "await"
               /\ v.at = u.at /\ v.current = c /\ v.next = u.next /\ v.legacyEnd = u.legacyEnd
               /\ First(i)' = Key(c.id, Begin(u.at))
               /\ secrets'[i].all = UNION {deriveSecrets(p, u.at) : p \in u.others \cup {c}}
               /\ Begin(c.start - Period) <= Begin(u.at)
               /\ KeysAround(c.id, c.start, Begin(u.at)) \subseteq secrets'[i].all
  <1> DEFINE u == update[i]
             v == update'[i]
             c == u.current
             b == Begin(u.at)
  <1>1. /\ UNCHANGED <<now, db, phase, due, writes>> /\ phase[i] # "down"
        /\ u.pc = "derive" /\ v = [u EXCEPT !.pc = "await"] /\ u \in UpdateType
        /\ secrets'[i] = [first |-> Secret(c, Current(c, u.at)),
                          all |-> UNION {deriveSecrets(p, u.at) : p \in u.others \cup {c}}]
    BY DEF Activate, At, Goto, Update, RotationOK
  <1>2. /\ v.pc = "await" /\ v.at = u.at /\ v.current = c /\ v.next = u.next
        /\ v.legacyEnd = u.legacyEnd
    BY <1>1 DEF UpdateType
  <1>3. /\ c \in ParamsType /\ c.interval = Period /\ c.start \in Int /\ c.end \in Int
        /\ u.at \in Nat /\ Period \in Nat \ {0} /\ Lifetime \in Nat \ {0}
    BY <1>1, PunctualConstants, UpdateTyped DEF Published
  <1>4. /\ b \in Nat /\ b <= u.at /\ u.at < b + Period /\ Begin(b) = b
    BY <1>3, Begins
  <1>5. b + 2 * Period <= c.end /\ c.start < u.at + Period
    BY <1>1 DEF Local, Chosen, Published
  <1>6. Current(c, u.at) = b
    <2>1. b <= c.end - 1 /\ c.end - 1 \in Int
      BY <1>3, <1>4, <1>5
    <2>2. b <= Begin(c.end - 1) /\ Begin(c.end - 1) \in Int
      BY <1>3, <1>4, <2>1, Begins, BeginsInOrder
    <2>3. Current(c, u.at) = Earlier(b, Begin(c.end - 1))
      BY <1>3 DEF Current, LastInterval, Begin
    <2> HIDE DEF b
    <2> QED BY <1>4, <2>2, <2>3 DEF Earlier
  <1>7. First(i)' = Key(c.id, b)
    BY <1>1, <1>3, <1>6 DEF First, Secret, Key
  <1>8. Begin(c.start - Period) <= b
    <2>1. c.start - Period <= u.at /\ c.start - Period \in Int
      BY <1>3, <1>5
    <2> QED BY <1>3, <2>1, BeginsInOrder
  <1>9. ASSUME NEW x \in {b - Period, b, b + Period}, Begin(c.start - Period) <= x
        PROVE  Key(c.id, x) \in secrets'[i].all
    <2>1. Begin(x) = x
      BY <1>4, Apart
    <2>2. /\ x \in Int /\ x + Period <= c.end /\ u.at < x + 2 * Period + Lifetime
          /\ x <= b + Period /\ (x \in Nat \/ x <= b)
      <3> HIDE DEF b, u, c
      <3> QED BY <1>3, <1>4, <1>5
    <2>3. Key(c.id, x) \in deriveSecrets(c, u.at)
      <3> HIDE DEF c, u
      <3> QED BY <1>3, <1>9, <2>1, <2>2, DerivedKeys
    <2> QED BY <1>1, <2>3
  <1>10. KeysAround(c.id, c.start, b) \subseteq secrets'[i].all
    BY <1>9 DEF KeysAround
  <1> QED BY <1>1, <1>2, <1>7, <1>8, <1>10

LEMMA ActivateLocal ==
    ASSUME Punctual, RotationOK, NEW i \in Instances, Timely(i), Local(i), Activate(i)
    PROVE  Local(i)'
  <1> DEFINE u == update[i]
             v == update'[i]
             c == u.current
             b == Begin(u.at)
  <1>1. /\ UNCHANGED <<now, db, phase, due, writes>> /\ phase[i] # "down"
        /\ u.pc = "derive" /\ v.pc = "await" /\ v.at = u.at /\ v.current = c /\ v.next = u.next
        /\ v.legacyEnd = u.legacyEnd /\ First(i)' = Key(c.id, b)
        /\ Begin(c.start - Period) <= b
        /\ KeysAround(c.id, c.start, b) \subseteq secrets'[i].all
    BY ActivateFields
  <1>2. /\ Clock(i)' = Clock(i) /\ Own(i)' = Own(i) /\ Published(i) /\ Published(i)'
        /\ First(i)'.start = b /\ First(i)'.id = c.id
    BY <1>1 DEF Clock, Own, Published, Key
  <1>3. /\ b \in Nat /\ b <= u.at /\ Begin(b) = b /\ u.at \in Nat /\ Clock(i) \in Nat
        /\ Period \in Nat \ {0}
    BY UpdateTyped, PunctualConstants, Begins
  <1>4. u.at <= Clock(i)
    BY <1>1 DEF Timely
  <1> HIDE DEF u, v, c, b
  <1>5. OnTime(i)'
    <2>1. b <= Clock(i)
      <3> HIDE DEF Clock
      <3> QED BY <1>3, <1>4
    <2>2. Begin(v.at) = b /\ Begin(b) = b
      BY <1>1, <1>3 DEF b
    <2> HIDE DEF Clock
    <2> QED BY <1>1, <1>2, <1>3, <2>1, <2>2, SameRecords DEF Local, OnTime, Begin,
         intervalStart, u, v, b
  <1>6. Pending(i)'
    BY <1>1, <1>2, SameRecords DEF Local, Pending, u, v, c
  <1>7. Chosen(i)'
    BY <1>1, <1>2, SameRecords DEF Local, Chosen, u, v, c
  <1>8. Gathered(i)' /\ Static(i)'
    BY <1>1 DEF Local, Gathered, Static, u, v
  <1>9. Uses(i)'
    <2>1. CASE phase[i] = "up"
      <3>1. /\ Latest(c.id) /\ db[c.id].start = c.start
            /\ First(i).start \in Nat /\ b = First(i).start + Period
            /\ First(i).start + 2 * Period <= db[c.id].end
            /\ Own(i) \in writes[i] \/ b + 2 * Period <= db[c.id].end
        BY <1>1, <1>2, <2>1 DEF Local, Uses, Chosen, OnTime, u, c, b
      <3>2. b + Period <= db[c.id].end
        BY <1>3, <3>1
      <3> QED BY <1>1, <1>2, <2>1, <3>1, <3>2, SameRecords DEF Uses, v
    <2> QED BY <1>1, <2>1 DEF Uses
  <1>10. Derives(i)'
    BY <1>1, <1>2, SameRecords DEF Derives, v
  <1> QED BY <1>5, <1>6, <1>7, <1>8, <1>9, <1>10 DEF Local

\* An instance whose writes are done signs with parameters that are published.
LEMMA FinishLocal ==
    ASSUME Punctual, RotationOK, NEW i \in Instances, Timely(i), Local(i), Finish(i)
    PROVE  Local(i)'
  <1> DEFINE u == update[i]
             c == u.current
             b == Begin(u.at)
             d == db[c.id]
  <1>1. /\ UNCHANGED <<now, db, secrets, writes>> /\ phase[i] # "down" /\ u.pc = "await"
        /\ writes[i] = {} /\ update'[i] = NoUpdate /\ due'[i] = Later(u.next, Clock(i))
        /\ phase'[i] = "up"
    BY DEF Finish, At, Update, RotationOK
  <1>2. NoUpdate.pc = "none"
    BY DEF NoUpdate
  <1>3. /\ b \in Nat /\ b <= u.at /\ u.at < b + Period /\ Begin(b) = b /\ u.at \in Nat
        /\ Clock(i) \in Nat /\ Period \in Nat \ {0} /\ Slack \in Nat /\ 2 * Slack < Period
        /\ due[i] \in Nat
    <2>1. Skew[i] \in Nat /\ Skew[i] + 2 * Slack < Period /\ Slack \in Nat /\ Period \in Nat \ {0}
      BY PunctualConstants
    <2>2. 2 * Slack < Period
      BY <2>1
    <2> QED BY <2>1, <2>2, UpdateTyped, Begins
  <1>4. u.at <= Clock(i) /\ Clock(i) <= due[i] + Slack
    BY <1>1 DEF Timely
  <1>5. /\ u.next = b + Period /\ First(i).start = b
        /\ phase[i] = "starting" => due[i] = u.at
        /\ phase[i] = "up" => due[i] <= b + Slack
    BY <1>1 DEF Local, OnTime
  <1>6. phase[i] \in {"starting", "up"}
    BY <1>1 DEF RotationOK
  <1>7. /\ First(i) = Key(c.id, b) /\ Begin(c.start - Period) <= b
        /\ KeysAround(c.id, c.start, b) \subseteq secrets[i].all
    BY <1>1, <1>5 DEF Local, Derives
  <1>8. Latest(c.id) /\ d.start = c.start /\ b + 2 * Period <= d.end
    <2>1. CASE phase[i] = "up"
      BY <1>1, <2>1 DEF Local, Chosen, Uses, Published
    <2>2. CASE phase[i] = "starting"
      BY <1>1, <2>2 DEF Local, Chosen, Published
    <2> QED BY <1>6, <2>1, <2>2
  <1>9. d.end \in Int
    BY <1>8, RecordTyped DEF Latest, Rotating
  <1>10. First(i)' = First(i) /\ Clock(i)' = Clock(i)
    BY <1>1 DEF First, Clock
  <1> HIDE DEF u, c, b, d
  <1>11. OnTime(i)'
    <2>1. due'[i] \in {u.next, Clock(i)} /\ due'[i] >= u.next
      <3> HIDE DEF Clock
      <3> QED BY <1>1, <1>3, <1>5 DEF Later
    <2>2. Clock(i) <= b + Period + Slack /\ b <= Clock(i)
      <3> HIDE DEF Clock
      <3> QED BY <1>3, <1>4, <1>5, <1>6
    <2>3. First(i).start + Period <= due'[i] /\ due'[i] <= First(i).start + Period + Slack
      <3> HIDE DEF Clock
      <3> QED BY <1>3, <1>5, <2>1, <2>2
    <2> QED BY <1>1, <1>2, <1>3, <1>5, <1>10, <2>2, <2>3 DEF OnTime, Begin, intervalStart
  <1>12. Pending(i)' /\ Chosen(i)' /\ Gathered(i)' /\ Derives(i)' /\ Static(i)'
    BY <1>1, <1>2 DEF Pending, Chosen, Gathered, Derives, Static, Published
  <1>13. Uses(i)'
    <2>1. First(i).id = c.id /\ First(i).start = b
      BY <1>7 DEF Key
    <2>2. b + Period <= d.end
      BY <1>3, <1>8, <1>9
    <2> QED BY <1>1, <1>7, <1>8, <1>10, <2>1, <2>2, SameRecords DEF Uses, d
  <1> QED BY <1>11, <1>12, <1>13 DEF Local

\* A write drops parameters that are of no use any more, or adds the static secret.
Drops(i, w) ==
    /\ Published(i) => w # Own(i) /\ w.k # update[i].current.id
    /\ Rotating(w.k) => db[w.k].end + Lifetime + Period <= update[i].at
    /\ \A k \in DOMAIN db' : (k \in DOMAIN db /\ db'[k] = db[k]) \/ (k = w.k /\ Sound(db'[k]))
    /\ \A k : Rotating(k)' <=> Rotating(k) /\ k # w.k
    /\ \A k : Rotating(k)' => db'[k] = db[k]

\* A write stores the parameters of its update.
Stores(i, w) ==
    LET c == update[i].current IN
    /\ w = Own(i) /\ Published(i) /\ DOMAIN db' = DOMAIN db \cup {c.id} /\ db'[c.id] = c
    /\ \A k \in DOMAIN db \ {c.id} : db'[k] = db[k]
    /\ \A k : Rotating(k)' <=> Rotating(k) \/ k = c.id

LEMMA WriteFields ==
    ASSUME Punctual, RotationOK, NEW i \in Instances, Local(i), NEW w \in writes[i],
           db' = Stored(w)
    PROVE  Drops(i, w) \/ Stores(i, w)
  <1> DEFINE c == update[i].current
  <1>1. Published(i) => c # None /\ ~IsLegacy(c)
    BY UpdateTyped
  <1>2. CASE /\ w.params = None
             /\ Rotating(w.k) => db[w.k].end + Lifetime + Period <= update[i].at
             /\ Published(i) => w.k # c.id
    <2>1. DOMAIN db' = DOMAIN db \ {w.k} /\ \A k \in DOMAIN db' : db'[k] = db[k]
      BY <1>2 DEF Stored, Restrict
    <2>2. \A k : Rotating(k)' <=> Rotating(k) /\ k # w.k
      BY <2>1 DEF Rotating, IsLegacy
    <2> QED BY <1>1, <1>2, <2>1, <2>2 DEF Drops, Own, Rotating
  <1>3. CASE /\ w.params # None /\ IsLegacy(w.params) /\ Sound(w.params)
             /\ ~Rotating(w.k) /\ Published(i) /\ w.k # c.id
    <2>1. /\ DOMAIN db' = DOMAIN db \cup {w.k} /\ db'[w.k] = w.params
          /\ \A k \in DOMAIN db' : k # w.k => k \in DOMAIN db /\ db'[k] = db[k]
      BY <1>3 DEF Stored, Put
    <2>2. \A k : Rotating(k)' <=> Rotating(k) /\ k # w.k
      BY <1>3, <2>1 DEF Rotating, IsLegacy
    <2> QED BY <1>1, <1>3, <2>1, <2>2 DEF Drops, Own, Rotating
  <1>4. CASE w = Own(i) /\ Published(i)
    <2>1. w.k = c.id /\ w.params = c
      BY <1>4 DEF Own
    <2>2. /\ DOMAIN db' = DOMAIN db \cup {c.id} /\ db'[c.id] = c
          /\ \A k \in DOMAIN db' : k # c.id => k \in DOMAIN db /\ db'[k] = db[k]
      BY <1>1, <1>4, <2>1 DEF Stored, Put
    <2>3. \A k : Rotating(k)' <=> Rotating(k) \/ k = c.id
      BY <1>1, <1>4, <2>2 DEF Rotating, IsLegacy
    <2> QED BY <1>4, <2>2, <2>3 DEF Stores
  <1> QED BY <1>2, <1>3, <1>4 DEF Local, Pending

\* How far apart the updates of two instances can be: no other has begun a later
\* interval than the update of an instance that is up.
LEMMA Abreast ==
    ASSUME Punctual, RotationOK, NEW i \in Instances, NEW j \in Instances,
           Timely(i), Timely(j), Local(i), Local(j), phase[j] = "up", update[i].pc # "none"
    PROVE  /\ phase[i] = "up" => First(j).start <= Begin(update[i].at)
           /\ phase[i] = "up" /\ update[j].pc # "none" =>
                Begin(update[j].at) <= Begin(update[i].at)
           /\ db[First(j).id].end + Lifetime + Period > update[i].at
  <1> DEFINE b == First(j).start
             d == db[First(j).id]
             a == Begin(update[i].at)
             e == Begin(update[j].at)
  <1>1. /\ Period \in Nat \ {0} /\ Slack \in Nat /\ Lifetime \in Nat \ {0}
        /\ Skew[i] \in Nat /\ Skew[j] \in Nat /\ Skew[i] + 2 * Slack < Period
    BY PunctualConstants
  <1>2. /\ now \in Nat /\ update[i].at \in Nat /\ update[j].at \in Nat /\ due[i] \in Nat
        /\ due[j] \in Nat
    BY UpdateTyped
  <1>3. /\ a \in Nat /\ Begin(a) = a /\ e \in Nat /\ Begin(e) = e /\ e <= update[j].at
    BY <1>2, Begins
  <1>4. /\ phase[i] # "down" /\ update[i].at <= now + Skew[i]
        /\ now + Skew[i] <= due[i] + Slack /\ now + Skew[j] <= due[j] + Slack
        /\ update[j].pc # "none" => update[j].at <= now + Skew[j]
    BY DEF Timely, Clock
  <1>5. /\ b \in Nat /\ Begin(b) = b /\ b <= now + Skew[j]
        /\ due[j] <= b + Period + Slack
    <2>1. /\ b \in Nat /\ Begin(b) = b /\ b <= now + Skew[j]
          /\ due[j] <= b + Period + Slack \/ due[j] <= b + Slack
      BY DEF Local, OnTime, Clock
    <2> HIDE DEF b
    <2> QED BY <1>1, <1>2, <2>1
  <1>6. phase[i] = "up" => due[i] <= a + Slack
    BY DEF Local, OnTime
  <1>7. b + Period <= d.end /\ d.end \in Int
    BY RecordTyped DEF Local, Uses, Latest, Rotating
  <1> HIDE DEF a, b, d, e
  <1>8. phase[i] = "up" => b <= a
    <2>1. phase[i] = "up" => now + Skew[i] <= a + 2 * Slack
      BY <1>1, <1>2, <1>3, <1>4, <1>6
    <2> QED BY <1>2, <1>3, <1>5, <2>1, InStep
  <1>9. phase[i] = "up" /\ update[j].pc # "none" => e <= a
    <2>1. phase[i] = "up" => now + Skew[i] <= a + 2 * Slack
      BY <1>1, <1>2, <1>3, <1>4, <1>6
    <2>2. update[j].pc # "none" => e <= now + Skew[j]
      BY <1>1, <1>2, <1>3, <1>4
    <2> QED BY <1>2, <1>3, <2>1, <2>2, InStep
  <1>10. d.end + Lifetime + Period > update[i].at
    <2>1. now + Skew[j] <= b + Period + 2 * Slack
      BY <1>1, <1>2, <1>4, <1>5
    <2> QED BY <1>1, <1>2, <1>4, <1>5, <1>7, <2>1
  <1> QED BY <1>8, <1>9, <1>10 DEF a, b, d, e

\* Beside an update, nobody makes its first; beside a first update, there is no other.
LEMMA Alone ==
    ASSUME RotationOK, OneStarts, NEW i \in Instances, NEW j \in Instances \ {i},
           update[i].pc # "none"
    PROVE  /\ phase[j] \in {"up", "down"}
           /\ phase[i] = "starting" => update[j].pc = "none" /\ writes[j] = {}
  BY DEF OneStarts, RotationOK

\* What is dropped is in use nowhere.
LEMMA DropsUnused ==
    ASSUME Punctual, RotationOK, InOrder, OneStarts, NEW i \in Instances,
           \A j \in Instances : Timely(j) /\ Local(j), NEW w \in writes[i], Drops(i, w)
    PROVE  /\ update[i].pc # "none"
           /\ \A j \in Instances : phase[j] = "up" => w.k # First(j).id
           /\ update[i].pc = "read" /\ phase[i] = "starting" /\ update[i].current # None =>
                w.k # update[i].current.id /\ (Rotating(w.k) => w.k < update[i].current.id)
  <1> DEFINE u == update[i]
             c == u.current
  <1>1. u.pc # "none"
    BY DEF OneStarts
  <1>2. Rotating(w.k) => /\ db[w.k].end + Lifetime + Period <= u.at
                         /\ db[w.k].end \in Int /\ db[w.k].end <= u.at
    <2>1. Rotating(w.k) => db[w.k].end \in Int
      BY RecordTyped DEF Rotating
    <2>2. Rotating(w.k) => db[w.k].end + Lifetime + Period <= u.at
      BY DEF Drops
    <2>3. Period \in Nat /\ Lifetime \in Nat /\ u.at \in Nat
      BY PunctualConstants, UpdateTyped
    <2> HIDE DEF u
    <2> QED BY <2>1, <2>2, <2>3
  <1>3. ASSUME NEW j \in Instances, phase[j] = "up"
        PROVE  w.k # First(j).id
    <2>1. Rotating(First(j).id)
      BY <1>3 DEF Local, Uses, Latest
    <2>2. db[First(j).id].end + Lifetime + Period > u.at
      BY <1>1, <1>3, Abreast
    <2>3. Period \in Nat /\ Lifetime \in Nat /\ u.at \in Nat
      BY PunctualConstants, UpdateTyped
    <2> HIDE DEF u
    <2> QED BY <1>2, <2>1, <2>2, <2>3
  <1>4. ASSUME u.pc = "read", phase[i] = "starting", c # None
        PROVE  w.k # c.id /\ (Rotating(w.k) => w.k < c.id)
    <2>1. Rotating(c.id) /\ db[c.id] = c /\ u.at < c.end /\ c.end \in Int /\ u.at \in Nat
      BY <1>4, UpdateTyped DEF Local, Gathered
    <2>2. CASE ~Rotating(w.k)
      BY <2>1, <2>2
    <2>3. CASE Rotating(w.k)
      <3>1. /\ w.k \in DOMAIN db /\ c.id \in DOMAIN db /\ w.k \in Nat /\ c.id \in Nat
            /\ db[w.k].start \in Int /\ db[w.k].start < db[w.k].end
        <4>1. w.k \in DOMAIN db /\ c.id \in DOMAIN db
          BY <2>1, <2>3 DEF Rotating
        <4>2. Sound(db[w.k]) /\ ~IsLegacy(db[w.k])
          BY <2>3, <4>1 DEF InOrder, Rotating
        <4> QED BY <4>1, <4>2, RecordTyped DEF Sound
      <3>2. c.id < w.k => c.end <= db[w.k].start
        BY <2>1, <2>3, <3>1 DEF InOrder
      <3> HIDE DEF u, c
      <3> QED BY <1>2, <2>1, <2>3, <3>1, <3>2
    <2> QED BY <2>2, <2>3
  <1> QED BY <1>1, <1>3, <1>4

LEMMA DropsLocal ==
    ASSUME Punctual, RotationOK, InOrder, OneStarts, NEW i \in Instances,
           \A j \in Instances : Timely(j) /\ Local(j), NEW w \in writes[i], Drops(i, w),
           UNCHANGED <<now, phase, update, due, secrets>>,
           writes' = [writes EXCEPT ![i] = @ \ {w}], NEW j \in Instances
    PROVE  Local(j)'
  <1> DEFINE u == update[j]
             c == u.current
  <1>1. /\ Local(j) /\ Clock(j)' = Clock(j) /\ First(j)' = First(j) /\ Own(j)' = Own(j)
        /\ (Published(j)' <=> Published(j)) /\ u' = u
        /\ \A p : Sound(p)' <=> Sound(p)
        /\ \A t : Begin(t)' = Begin(t)
        /\ \A k, b, s : KeysAround(k, s, b)' = KeysAround(k, s, b) /\ Key(k, b)' = Key(k, b)
    BY DEF Clock, First, Own, Published, Sound, IsLegacy, Begin, intervalStart, KeysAround, Key
  <1>2. /\ update[i].pc # "none" /\ \A l \in Instances : phase[l] = "up" => w.k # First(l).id
        /\ \A k : Rotating(k)' <=> Rotating(k) /\ k # w.k
        /\ \A k : Rotating(k)' => db'[k] = db[k]
        /\ \A k : Latest(k) /\ k # w.k => Latest(k)'
    <2>1. /\ \A k : Rotating(k)' <=> Rotating(k) /\ k # w.k
          /\ \A k : Rotating(k)' => db'[k] = db[k]
      BY DEF Drops
    <2>2. \A k : Latest(k) /\ k # w.k => Latest(k)'
      BY <2>1 DEF Latest, Rotating
    <2> QED BY <2>1, <2>2, DropsUnused
  <1>3. phase[j] = "starting" => j = i
    BY <1>2, Alone
  <1>4. /\ \A v \in writes'[j] : v \in writes[j]
        /\ Published(j) => (Own(j) \in writes'[j] <=> Own(j) \in writes[j])
    BY DEF RotationOK, Drops
  <1>5. OnTime(j)'
    BY <1>1, <1>2 DEF Local, OnTime, Rotating
  <1>6. Pending(j)'
    BY <1>1, <1>2, <1>4 DEF Local, Pending, Rotating
  <1>7. Chosen(j)'
    <2> SUFFICES ASSUME Published(j) PROVE Chosen(j)'
      BY <1>1 DEF Chosen
    <2>1. /\ Sound(c) /\ c.start < u.at + Period /\ c.start < now + Period
          /\ Begin(u.at) + 2 * Period <= c.end
      BY <1>1 DEF Local, Chosen
    <2>2. CASE phase[j] = "up"
      <3>1. /\ c.id = First(j).id /\ db[c.id].start = c.start
            /\ Own(j) \in writes[j] \/ Begin(u.at) + 2 * Period <= db[c.id].end
        BY <1>1, <2>2 DEF Local, Chosen
      <3>2. Rotating(c.id)' /\ db'[c.id] = db[c.id]
        BY <1>1, <1>2, <2>2, <3>1 DEF Local, Uses, Latest
      <3> QED BY <1>1, <1>4, <2>1, <2>2, <3>1, <3>2 DEF Chosen
    <2>3. CASE phase[j] = "starting"
      <3>1. w.k # c.id /\ j = i
        BY <1>3, <2>3 DEF Drops
      <3>2. CASE /\ Latest(c.id) /\ db[c.id].start = c.start
                 /\ IF Own(j) \in writes[j] THEN db[c.id].end <= c.end ELSE db[c.id] = c
        <4>1. Latest(c.id)' /\ db'[c.id] = db[c.id]
          BY <1>2, <3>1, <3>2 DEF Latest
        <4> QED BY <1>1, <1>4, <2>1, <2>3, <3>2, <4>1 DEF Chosen
      <3>3. CASE /\ Own(j) \in writes[j] /\ c.id \notin DOMAIN db
                 /\ \A k \in DOMAIN db : Rotating(k) => k < c.id /\ db[k].end <= c.start
                 /\ \A l \in Instances : phase[l] # "up"
        <4>1. c.id \notin DOMAIN db'
          BY <3>1, <3>3 DEF Drops
        <4>2. \A k \in DOMAIN db' : Rotating(k)' => k < c.id /\ db'[k].end <= c.start
          BY <1>2, <3>3 DEF Rotating
        <4> QED BY <1>1, <1>4, <2>1, <2>3, <3>3, <4>1, <4>2 DEF Chosen
      <3> QED BY <1>1, <2>3, <3>2, <3>3 DEF Local, Chosen
    <2> QED BY <1>1, <2>1, <2>2, <2>3 DEF Chosen
  <1>8. Gathered(j)'
    <2>1. /\ u.pc = "find" => c = None
          /\ u.pc = "derive" => u.todo = {}
      BY <1>1 DEF Local, Gathered
    <2>2. ASSUME NEW k \in DOMAIN db' \ u.todo, Rotating(k)'
          PROVE  /\ k \in DOMAIN db \ u.todo /\ Rotating(k) /\ db'[k] = db[k]
                 /\ Latest(k) => Latest(k)'
      BY <1>2, <2>2 DEF Rotating
    <2>3. u.pc \in {"read", "derive"} => \A k \in DOMAIN db' \ u.todo : Rotating(k)' =>
             \/ db'[k].end + Lifetime + Period <= u.at
             \/ db'[k] \in u.others
             \/ c # None /\ c.id = k /\ c.start = db'[k].start /\ (Latest(k)' \/ c = db'[k])
      BY <1>1, <2>2 DEF Local, Gathered
    <2>4. u.pc = "read" => \A k \in DOMAIN db' \ u.todo :
             Rotating(k)' /\ u.at < db'[k].end => c # None /\ db'[k].start <= c.start
      BY <1>1, <2>2 DEF Local, Gathered
    <2>5. ASSUME u.pc = "read", c # None
          PROVE  /\ Sound(c)
                 /\ \A k \in DOMAIN db' : Latest(k)' =>
                      IF c.id = k THEN c.start = db'[k].start ELSE c.start < db'[k].start
                 /\ phase[j] = "up" /\ Rotating(c.id)' /\ ~Latest(c.id)' => c = db'[c.id]
                 /\ phase[j] = "starting" => Rotating(c.id)' /\ db'[c.id] = c /\ u.at < c.end
      <3>1. Sound(c)
        BY <1>1, <2>5 DEF Local, Gathered
      <3>2. phase[j] \in {"up", "starting"}
        BY <2>5 DEF Timely, RotationOK
      <3>3. ASSUME NEW k \in DOMAIN db', Latest(k)'
            PROVE  Latest(k) /\ db'[k] = db[k]
        <4>1. /\ Rotating(k) /\ k \in Nat /\ db'[k] = db[k]
              /\ \A l \in DOMAIN db : Rotating(l) => l \in Nat
          BY <1>2, <3>3, RecordTyped DEF Latest, Rotating
        <4>2. PICK l : Rotating(l)' /\ (Rotating(w.k) => w.k < l)
          <5>1. CASE phase[j] = "up"
            <6>1. PICK f : f = First(j).id
              OBVIOUS
            <6>2. Latest(f) /\ f # w.k
              BY <1>1, <1>2, <5>1, <6>1 DEF Local, Uses
            <6>3. Rotating(f)'
              BY <1>2, <6>2 DEF Latest
            <6>4. f \in DOMAIN db /\ (Rotating(w.k) => w.k \in DOMAIN db)
              BY <6>2 DEF Latest, Rotating
            <6>5. Rotating(w.k) => w.k <= f /\ w.k \in Nat /\ f \in Nat
              BY <4>1, <6>2, <6>4 DEF Latest
            <6> QED BY <6>2, <6>3, <6>5
          <5>2. CASE phase[j] = "starting"
            <6>1. j = i /\ w.k # c.id /\ (Rotating(w.k) => w.k < c.id)
              BY <1>3, <2>5, <5>2, DropsUnused
            <6>2. Rotating(c.id)
              BY <1>1, <2>5, <5>2 DEF Local, Gathered
            <6> QED BY <1>2, <6>1, <6>2
          <5> QED BY <3>2, <5>1, <5>2
        <4>3. l <= k /\ l \in Nat /\ (Rotating(w.k) => w.k \in Nat)
          BY <1>2, <3>3, <4>1, <4>2 DEF Latest, Rotating
        <4>4. Rotating(w.k) => w.k <= k
          BY <4>1, <4>2, <4>3
        <4>5. ASSUME NEW m \in DOMAIN db, Rotating(m)
              PROVE  m <= k
          <5>1. CASE m = w.k
            BY <4>4, <4>5, <5>1
          <5>2. CASE m # w.k
            BY <1>2, <3>3, <4>5, <5>2 DEF Latest, Rotating
          <5> QED BY <5>1, <5>2
        <4> QED BY <4>1, <4>5 DEF Latest
      <3>4. \A k \in DOMAIN db' : Latest(k)' => k \in DOMAIN db
        BY <3>3 DEF Latest, Rotating
      <3>5. \A k \in DOMAIN db' : Latest(k)' =>
               IF c.id = k THEN c.start = db'[k].start ELSE c.start < db'[k].start
        BY <1>1, <2>5, <3>3, <3>4 DEF Local, Gathered
      <3>6. phase[j] = "up" /\ Rotating(c.id)' /\ ~Latest(c.id)' => c = db'[c.id]
        BY <1>1, <1>2, <2>5 DEF Local, Gathered
      <3>7. phase[j] = "starting" => Rotating(c.id)' /\ db'[c.id] = c /\ u.at < c.end
        <4>1. phase[j] = "starting" => j = i /\ w.k # c.id
          BY <1>3, <2>5, DropsUnused
        <4> QED BY <1>1, <1>2, <2>5, <4>1 DEF Local, Gathered
      <3> QED BY <3>1, <3>5, <3>6, <3>7
    <2> QED BY <1>1, <2>1, <2>3, <2>4, <2>5 DEF Gathered
  <1>9. Uses(j)'
    <2> SUFFICES ASSUME phase[j] = "up" PROVE Uses(j)'
      BY DEF Uses
    <2>1. Latest(First(j).id)' /\ db'[First(j).id] = db[First(j).id]
      BY <1>1, <1>2 DEF Local, Uses, Latest
    <2>2. u.pc = "await" /\ Own(j) \in writes[j] => Own(j) \in writes'[j]
      BY <1>4 DEF Published
    <2> QED BY <1>1, <2>1, <2>2 DEF Local, Uses
  <1>10. Derives(j)' /\ Static(j)'
    BY <1>1 DEF Local, Derives, Static
  <1> QED BY <1>5, <1>6, <1>7, <1>8, <1>9, <1>10 DEF Local

\* What is stored either extends the latest parameters, or follows them when nobody
\* signs with any.
Extends(i) ==
    LET c == update[i].current IN
    /\ Latest(c.id) /\ db[c.id].start = c.start
    /\ phase[i] = "starting" => db[c.id].end <= c.end
Makes(i) ==
    LET c == update[i].current IN
    /\ phase[i] = "starting" /\ c.id \notin DOMAIN db
    /\ \A k \in DOMAIN db : Rotating(k) => k < c.id /\ db[k].end <= c.start
    /\ \A j \in Instances : phase[j] # "up"

LEMMA StoresChosen ==
    ASSUME Punctual, RotationOK, OneStarts, NEW i \in Instances, Timely(i), Local(i),
           NEW w \in writes[i], Stores(i, w)
    PROVE  LET c == update[i].current
           IN  /\ Published(i) /\ update[i].pc # "none" /\ w = Own(i) /\ w \in writes[i]
               /\ Sound(c) /\ c.start < update[i].at + Period /\ c.start < now + Period
               /\ Begin(update[i].at) + 2 * Period <= c.end
               /\ phase[i] = "up" => c.id = First(i).id
               /\ Extends(i) \/ Makes(i)
               /\ c # None /\ ~IsLegacy(c) /\ c.id \in Nat /\ c.start \in Int /\ c.end \in Int
               /\ c.interval = Period
  <1> DEFINE c == update[i].current
  <1>1. /\ Published(i) /\ update[i].pc # "none" /\ w = Own(i)
        /\ c # None /\ ~IsLegacy(c) /\ c.id \in Nat /\ c.start \in Int /\ c.end \in Int
        /\ c.interval = Period
    BY UpdateTyped DEF Stores, Published
  <1>2. /\ Sound(c) /\ c.start < update[i].at + Period /\ c.start < now + Period
        /\ Begin(update[i].at) + 2 * Period <= c.end
        /\ phase[i] = "up" => c.id = First(i).id /\ db[c.id].start = c.start
    BY <1>1 DEF Local, Chosen
  <1>3. phase[i] \in {"up", "starting"}
    BY <1>1 DEF Timely, RotationOK
  <1>4. CASE phase[i] = "up"
    <2>1. Latest(c.id)
      BY <1>2, <1>4 DEF Local, Uses
    <2> QED BY <1>1, <1>2, <1>4, <2>1 DEF Extends
  <1>5. CASE phase[i] = "starting"
    <2>1. Extends(i) \/ Makes(i)
      BY <1>1, <1>5 DEF Local, Chosen, Extends, Makes
    <2> QED BY <1>1, <1>2, <1>5, <2>1
  <1> QED BY <1>3, <1>4, <1>5

\* The parameters that are made concern the instance that starts only.
LEMMA MakesLocal ==
    ASSUME Punctual, RotationOK, InOrder, OneStarts, NEW i \in Instances,
           \A j \in Instances : Timely(j) /\ Local(j), NEW w \in writes[i], Stores(i, w), Makes(i),
           UNCHANGED <<now, phase, update, due, secrets>>,
           writes' = [writes EXCEPT ![i] = @ \ {w}], NEW j \in Instances
    PROVE  Local(j)'
  <1> DEFINE u == update[i]
             c == u.current
  <1>1. /\ Published(i) /\ w = Own(i) /\ Sound(c) /\ c.start < u.at + Period
        /\ c.start < now + Period /\ Begin(u.at) + 2 * Period <= c.end
        /\ c # None /\ c.id \in Nat /\ phase[i] = "starting" /\ u.pc # "none"
    BY StoresChosen DEF Makes
  <1>2. CASE j # i
    <2>1. phase[j] = "down" /\ update[j].pc = "none" /\ writes[j] = {}
      BY <1>1, <1>2, Alone DEF Makes
    <2>2. phase'[j] = "down" /\ update'[j].pc = "none" /\ writes'[j] = {}
      BY <1>2, <2>1 DEF RotationOK
    <2> QED BY <2>2 DEF Local, OnTime, Pending, Chosen, Gathered, Uses, Derives, Static, Published
  <1>3. CASE j = i
    <2>1. /\ DOMAIN db' = DOMAIN db \cup {c.id} /\ db'[c.id] = c
          /\ \A k \in DOMAIN db : db'[k] = db[k]
          /\ \A k : Rotating(k)' <=> Rotating(k) \/ k = c.id
      BY DEF Stores, Makes
    <2>2. /\ Clock(i)' = Clock(i) /\ First(i)' = First(i) /\ Own(i)' = Own(i) /\ u' = u
          /\ Published(i)' /\ writes'[i] = writes[i] \ {w} /\ Own(i) \notin writes'[i]
          /\ \A p : Sound(p)' <=> Sound(p)
          /\ \A t : Begin(t)' = Begin(t)
          /\ \A k, b, s : KeysAround(k, s, b)' = KeysAround(k, s, b) /\ Key(k, b)' = Key(k, b)
      BY <1>1 DEF Clock, First, Own, Published, Sound, IsLegacy, Begin, intervalStart, KeysAround,
                  Key, RotationOK
    <2>3. OnTime(i)'
      <3>1. \A k \in DOMAIN db' : Rotating(k)' => db'[k].start < u.at + Period
        BY <1>1, <2>1 DEF Local, OnTime, Rotating
      <3> QED BY <1>1, <2>2, <3>1 DEF Local, OnTime
    <2>4. Pending(i)'
      <3> SUFFICES ASSUME NEW v \in writes[i], v # w
                   PROVE  \/ /\ v.params = None
                             /\ Rotating(v.k)' => db'[v.k].end + Lifetime + Period <= u.at
                             /\ v.k # c.id
                          \/ /\ v.params # None /\ IsLegacy(v.params) /\ Sound(v.params)
                             /\ ~Rotating(v.k)' /\ v.k # c.id
        BY <1>1, <2>2 DEF Pending
      <3>1. Rotating(v.k) => v.k \in DOMAIN db
        BY DEF Rotating
      <3> QED BY <1>1, <2>1, <3>1 DEF Local, Pending
    <2>5. Chosen(i)'
      <3>1. Latest(c.id)'
        <4>1. \A k \in DOMAIN db' : Rotating(k)' => k <= c.id
          <5>1. \A k \in DOMAIN db : Rotating(k) => k < c.id /\ k \in Nat
            BY RecordTyped DEF Makes
          <5> QED BY <1>1, <2>1, <5>1 DEF Rotating
        <4> QED BY <2>1, <4>1 DEF Latest
      <3> QED BY <1>1, <2>1, <2>2, <3>1 DEF Chosen
    <2>6. Gathered(i)'
      <3>1. u.pc = "derive" => u.todo = {}
        BY DEF Local, Gathered
      <3>2. Latest(c.id)' /\ db'[c.id].start = c.start
        BY <1>1, <2>2, <2>5 DEF Chosen
      <3>3. ASSUME u.pc = "derive", NEW k \in DOMAIN db' \ u.todo, Rotating(k)', k # c.id
            PROVE  db'[k].end + Lifetime + Period <= u.at \/ db'[k] \in u.others
        BY <2>1, <3>3 DEF Local, Gathered
      <3> QED BY <1>1, <2>2, <3>1, <3>2, <3>3 DEF Gathered, Published
    <2>7. Uses(i)'
      BY <1>1, <2>2 DEF Uses
    <2>8. Derives(i)' /\ Static(i)'
      BY <2>2 DEF Local, Derives, Static
    <2> QED BY <1>3, <2>3, <2>4, <2>5, <2>6, <2>7, <2>8 DEF Local
  <1> QED BY <1>2, <1>3

\* Parameters that are extended last as long as any instance counts on.
LEMMA ExtendsEnough ==
    ASSUME Punctual, RotationOK, OneStarts, NEW i \in Instances, NEW j \in Instances,
           \A l \in Instances : Timely(l) /\ Local(l), NEW w \in writes[i], Stores(i, w), Extends(i),
           phase[j] = "up"
    PROVE  LET c == update[i].current
               b == First(j).start
           IN  /\ First(j).id = c.id /\ b + Period <= c.end
               /\ b + 2 * Period <= db[c.id].end \/ phase[i] = "up" => b + 2 * Period <= c.end
               /\ Published(j) /\ (Begin(update[j].at) + 2 * Period <= db[c.id].end \/ phase[i] = "up")
                    => Begin(update[j].at) + 2 * Period <= c.end
               /\ phase[i] = "starting" => db[c.id].end <= c.end
  <1> DEFINE c == update[i].current
             b == First(j).start
             d == db[c.id]
             e == Begin(update[j].at)
             a == Begin(update[i].at)
  <1>1. /\ update[i].pc # "none" /\ phase[i] \in {"up", "starting"} /\ c.end \in Int
        /\ a + 2 * Period <= c.end /\ Latest(c.id)
        /\ phase[i] = "starting" => d.end <= c.end
    BY StoresChosen DEF Extends, Timely, RotationOK
  <1>2. phase[i] = "up" => b <= a /\ (Published(j) => e <= a)
    BY <1>1, Abreast DEF Published
  <1>3. Latest(First(j).id) /\ b + Period <= db[First(j).id].end
    BY DEF Local, Uses
  <1>4. First(j).id = c.id
    <2>1. First(j).id \in DOMAIN db /\ c.id \in DOMAIN db
      BY <1>1, <1>3 DEF Latest, Rotating
    <2>2. First(j).id <= c.id /\ c.id <= First(j).id
      BY <1>1, <1>3, <2>1 DEF Latest
    <2>3. First(j).id \in Nat /\ c.id \in Nat
      BY <2>1, RecordTyped
    <2> QED BY <2>2, <2>3
  <1>5. /\ Period \in Nat \ {0} /\ a \in Int /\ e \in Int /\ b \in Int /\ d.end \in Int
    <2>1. update[i].at \in Int /\ update[j].at \in Int /\ c.id \in DOMAIN db /\ b \in Nat
      BY <1>1, UpdateTyped DEF Latest, Rotating, Local, OnTime
    <2> QED BY <2>1, Begins, RecordTyped, PunctualConstants
  <1> HIDE DEF a, b, c, d, e
  <1>6. b + Period <= c.end
    BY <1>1, <1>2, <1>3, <1>4, <1>5 DEF d
  <1>7. b + 2 * Period <= d.end \/ phase[i] = "up" => b + 2 * Period <= c.end
    BY <1>1, <1>2, <1>5
  <1>8. Published(j) /\ (e + 2 * Period <= d.end \/ phase[i] = "up") => e + 2 * Period <= c.end
    BY <1>1, <1>2, <1>5
  <1> QED BY <1>1, <1>4, <1>6, <1>7, <1>8 DEF a, b, c, d, e

LEMMA ExtendsLocal ==
    ASSUME Punctual, RotationOK, InOrder, OneStarts, NEW i \in Instances,
           \A j \in Instances : Timely(j) /\ Local(j), NEW w \in writes[i], Stores(i, w), Extends(i),
           UNCHANGED <<now, phase, update, due, secrets>>,
           writes' = [writes EXCEPT ![i] = @ \ {w}], NEW j \in Instances
    PROVE  Local(j)'
  <1> DEFINE u == update[j]
             c == u.current
             e == update[i].current
  <1>1. /\ Published(i) /\ w = Own(i) /\ Sound(e)
        /\ Begin(update[i].at) + 2 * Period <= e.end
        /\ e # None /\ ~IsLegacy(e) /\ e.id \in Nat /\ update[i].pc # "none"
        /\ Latest(e.id) /\ e.id \in DOMAIN db /\ db[e.id].start = e.start
        /\ phase[i] = "up" => e.id = First(i).id
    BY StoresChosen DEF Extends, Latest, Rotating
  <1>2. /\ DOMAIN db' = DOMAIN db /\ db'[e.id] = e
        /\ \A k \in DOMAIN db : db'[k].start = db[k].start /\ (k # e.id => db'[k] = db[k])
        /\ \A k : Rotating(k)' <=> Rotating(k)
        /\ \A k : Latest(k)' <=> Latest(k)
    <2>1. /\ DOMAIN db' = DOMAIN db /\ db'[e.id] = e
          /\ \A k \in DOMAIN db : db'[k].start = db[k].start /\ (k # e.id => db'[k] = db[k])
      BY <1>1 DEF Stores
    <2>2. \A k : Rotating(k)' <=> Rotating(k)
      BY <1>1 DEF Stores, Latest
    <2>3. \A k : Latest(k)' <=> Latest(k)
      BY <2>1, <2>2 DEF Latest
    <2> QED BY <2>1, <2>2, <2>3
  <1>3. /\ Local(j) /\ Clock(j)' = Clock(j) /\ First(j)' = First(j) /\ Own(j)' = Own(j)
        /\ (Published(j)' <=> Published(j)) /\ u' = u
        /\ \A p : Sound(p)' <=> Sound(p)
        /\ \A t : Begin(t)' = Begin(t)
        /\ \A k, b, s : KeysAround(k, s, b)' = KeysAround(k, s, b) /\ Key(k, b)' = Key(k, b)
    BY DEF Clock, First, Own, Published, Sound, IsLegacy, Begin, intervalStart, KeysAround, Key
  <1>4. /\ writes'[j] \subseteq writes[j]
        /\ j # i => writes'[j] = writes[j]
        /\ j = i => Own(j) \notin writes'[j]
    BY <1>1 DEF RotationOK
  <1>5. phase[j] = "starting" => j = i
    BY <1>1, Alone
  <1>6. OnTime(j)'
    <2>1. \A k \in DOMAIN db' : Rotating(k)' => Rotating(k) /\ db'[k].start = db[k].start
      BY <1>2
    <2> QED BY <1>2, <1>3, <2>1 DEF Local, OnTime
  <1>7. Pending(j)'
    <2> SUFFICES ASSUME NEW v \in writes[j]
                 PROVE  v.params = None /\ Rotating(v.k) => v.k # e.id
      BY <1>2, <1>3, <1>4 DEF Local, Pending, Rotating
    <2>1. CASE j = i
      BY <1>1, <1>3, <2>1 DEF Local, Pending, Own
    <2>2. CASE j # i
      <3>1. update[j].pc # "none" /\ phase[i] # "starting" /\ phase[i] # "down"
        BY <1>1, <2>2, Alone DEF OneStarts, Timely
      <3>2. phase[i] = "up"
        BY <3>1 DEF RotationOK
      <3>3. db[e.id].end + Lifetime + Period > update[j].at
        BY <1>1, <3>1, <3>2, Abreast
      <3>4. db[e.id].end \in Int /\ Lifetime \in Nat /\ Period \in Nat /\ update[j].at \in Nat
        BY <1>1, RecordTyped, PunctualConstants, UpdateTyped
      <3>5. ASSUME v.params = None, Rotating(v.k), v.k = e.id
            PROVE  FALSE
        <4>1. db[e.id].end + Lifetime + Period <= update[j].at
          BY <1>3, <3>5, UpdateTyped DEF Local, Pending, Own
        <4> QED BY <3>3, <3>4, <4>1
      <3> QED BY <3>5
    <2> QED BY <2>1, <2>2
  <1>8. Chosen(j)'
    <2> SUFFICES ASSUME Published(j) PROVE Chosen(j)'
      BY <1>3 DEF Chosen
    <2>1. /\ Sound(c) /\ c.start < u.at + Period /\ c.start < now + Period
          /\ Begin(u.at) + 2 * Period <= c.end
      BY <1>3 DEF Local, Chosen
    <2>2. CASE phase[j] = "up"
      <3>1. /\ c.id = First(j).id /\ db[c.id].start = c.start
            /\ Own(j) \in writes[j] \/ Begin(u.at) + 2 * Period <= db[c.id].end
        BY <1>3, <2>2 DEF Local, Chosen
      <3>2. /\ c.id = e.id
            /\ Begin(u.at) + 2 * Period <= db[e.id].end \/ phase[i] = "up"
                 => Begin(u.at) + 2 * Period <= e.end
        BY <2>2, <3>1, ExtendsEnough
      <3>3. db'[c.id].start = c.start
        BY <1>1, <1>2, <3>1, <3>2
      <3>4. Own(j) \in writes'[j] \/ Begin(u.at) + 2 * Period <= db'[c.id].end
        BY <1>2, <1>4, <2>2, <3>1, <3>2
      <3> QED BY <1>3, <2>1, <2>2, <3>1, <3>3, <3>4 DEF Chosen
    <2>3. CASE phase[j] = "starting"
      <3>1. j = i /\ Own(j) \notin writes'[j]
        BY <1>4, <1>5, <2>3
      <3> QED BY <1>1, <1>2, <1>3, <2>1, <2>3, <3>1 DEF Chosen
    <2> QED BY <1>3, <2>1, <2>2, <2>3 DEF Chosen
  <1>9. Gathered(j)'
    <2>1. /\ u.pc = "find" => c = None
          /\ u.pc = "derive" => u.todo = {}
      BY <1>3 DEF Local, Gathered
    <2>2. ASSUME u.pc \in {"read", "derive"}, e.id \notin u.todo
          PROVE  c # None /\ c.id = e.id /\ c.start = e.start
      <3>1. phase[j] \in {"up", "starting"}
        BY <2>2 DEF Timely, RotationOK
      <3>2. CASE j = i
        BY <1>1, <3>2
      <3>3. CASE j # i
        <4>1. phase[j] = "up" /\ First(j).id = e.id
          BY <1>5, <3>1, <3>3, ExtendsEnough
        <4>2. CASE u.pc = "read"
          <5>1. u.at < db[e.id].end
            BY <4>1, <4>2, UpToDate
          <5>2. c # None /\ db[e.id].start <= c.start
            BY <1>1, <1>3, <2>2, <4>2, <5>1 DEF Local, Gathered, Latest
          <5>3. IF c.id = e.id THEN c.start = db[e.id].start ELSE c.start < db[e.id].start
            BY <1>1, <1>3, <4>2, <5>2 DEF Local, Gathered
          <5>4. c.start \in Int /\ db[e.id].start \in Int
            BY <1>1, <5>2, RecordTyped, UpdateTyped
          <5> QED BY <1>1, <5>2, <5>3, <5>4
        <4>3. CASE u.pc = "derive"
          <5>1. Published(j)
            BY <4>3 DEF Published
          <5>2. c # None
            BY <5>1, UpdateTyped
          <5>3. c.id = First(j).id /\ db[c.id].start = c.start
            BY <1>3, <4>1, <5>1 DEF Local, Chosen
          <5> QED BY <1>1, <4>1, <5>2, <5>3
        <4> QED BY <2>2, <4>2, <4>3
      <3> QED BY <3>2, <3>3
    <2>3. ASSUME u.pc \in {"read", "derive"}, NEW k \in DOMAIN db' \ u.todo, Rotating(k)'
          PROVE  \/ db'[k].end + Lifetime + Period <= u.at
                 \/ db'[k] \in u.others
                 \/ c # None /\ c.id = k /\ c.start = db'[k].start /\ (Latest(k)' \/ c = db'[k])
      <3>1. CASE k = e.id
        BY <1>1, <1>2, <2>2, <2>3, <3>1
      <3>2. CASE k # e.id
        BY <1>2, <1>3, <2>3, <3>2 DEF Local, Gathered
      <3> QED BY <3>1, <3>2
    <2>4. ASSUME u.pc = "read", NEW k \in DOMAIN db' \ u.todo, Rotating(k)', u.at < db'[k].end
          PROVE  c # None /\ db'[k].start <= c.start
      <3>1. CASE k = e.id
        <4>1. c # None /\ c.start = db'[k].start
          BY <1>1, <1>2, <2>2, <2>4, <3>1
        <4>2. c.start \in Int
          BY <4>1, UpdateTyped
        <4> QED BY <4>1, <4>2
      <3>2. CASE k # e.id
        BY <1>2, <1>3, <2>4, <3>2 DEF Local, Gathered
      <3> QED BY <3>1, <3>2
    <2>5. ASSUME u.pc = "read", c # None
          PROVE  /\ Sound(c)
                 /\ \A k \in DOMAIN db' : Latest(k)' =>
                      IF c.id = k THEN c.start = db'[k].start ELSE c.start < db'[k].start
                 /\ phase[j] = "up" /\ Rotating(c.id)' /\ ~Latest(c.id)' => c = db'[c.id]
                 /\ phase[j] # "starting"
      <3>1. /\ Sound(c)
            /\ \A k \in DOMAIN db' : Latest(k)' =>
                 IF c.id = k THEN c.start = db'[k].start ELSE c.start < db'[k].start
        BY <1>2, <1>3, <2>5 DEF Local, Gathered
      <3>2. phase[j] # "starting"
        BY <1>1, <1>5, <2>5 DEF Published
      <3>3. phase[j] = "up" /\ Rotating(c.id)' /\ ~Latest(c.id)' => c = db'[c.id]
        <4>1. Rotating(c.id) => c.id \in DOMAIN db
          BY DEF Rotating
        <4>2. phase[j] = "up" /\ Rotating(c.id) /\ ~Latest(c.id) => c = db[c.id]
          BY <1>3, <2>5 DEF Local, Gathered
        <4> QED BY <1>1, <1>2, <1>3, <4>1, <4>2
      <3> QED BY <3>1, <3>2, <3>3
    <2> QED BY <1>3, <2>1, <2>3, <2>4, <2>5 DEF Gathered
  <1>10. Uses(j)'
    <2> SUFFICES ASSUME phase[j] = "up" PROVE Uses(j)'
      BY DEF Uses
    <2>1. PICK f : f = First(j).id
      OBVIOUS
    <2>2. /\ f = e.id /\ First(j).start + Period <= e.end
          /\ First(j).start + 2 * Period <= db[f].end \/ phase[i] = "up"
               => First(j).start + 2 * Period <= e.end
      BY <2>1, ExtendsEnough
    <2>3. /\ Latest(f)' /\ db'[f].start = db[f].start /\ db'[f].end = e.end
      BY <1>1, <1>2, <2>2
    <2>4. \/ First(j).start + 2 * Period <= e.end
          \/ u.pc = "await" /\ Own(j) \in writes'[j]
      BY <1>3, <1>4, <2>1, <2>2 DEF Local, Uses
    <2> QED BY <1>3, <2>1, <2>2, <2>3, <2>4 DEF Local, Uses
  <1>11. Derives(j)' /\ Static(j)'
    BY <1>3 DEF Local, Derives, Static
  <1> QED BY <1>6, <1>7, <1>8, <1>9, <1>10, <1>11 DEF Local

\* A write concerns every instance.
LEMMA WriteLocal ==
    ASSUME Punctual, RotationOK, InOrder, OneStarts, NEW i \in Instances,
           \A j \in Instances : Timely(j) /\ Local(j), Write(i), NEW j \in Instances
    PROVE  Local(j)'
  <1>1. PICK w \in writes[i] : /\ db' = Stored(w)
                               /\ writes' = [writes EXCEPT ![i] = @ \ {w}]
    BY DEF Write
  <1>2. UNCHANGED <<now, phase, update, due, secrets>>
    BY DEF Write
  <1>3. CASE Drops(i, w)
    BY <1>1, <1>2, <1>3, DropsLocal
  <1>4. CASE Stores(i, w)
    <2>1. Extends(i) \/ Makes(i)
      BY <1>4, StoresChosen
    <2> QED BY <1>1, <1>2, <1>4, <2>1, ExtendsLocal, MakesLocal
  <1> QED BY <1>1, <1>3, <1>4, WriteFields

LEMMA OneStartsNext ==
    ASSUME Punctual, RotationOK, OneStarts, Step
    PROVE  OneStarts'
  <1>1. ASSUME NEW i \in Instances, start(i)
        PROVE  OneStarts'
    <2>1. /\ \A j \in Instances : update[j].pc = "none"
          /\ \A j \in Instances \ {i} : update'[j] = update[j] /\ phase'[j] = phase[j]
          /\ writes' = writes /\ \E n \in Intervals : update'[i] = Begun(i, n)
      BY <1>1, PunctualConstants DEF start, Update, RotationOK
    <2>2. update'[i].pc = "find"
      BY <2>1 DEF Begun, NoUpdate
    <2> QED BY <2>1, <2>2 DEF OneStarts
  <1>2. ASSUME NEW i \in Instances, TimerFires(i)
        PROVE  OneStarts'
    <2>1. /\ \A j \in Instances : phase[j] # "starting"
          /\ \A j \in Instances \ {i} : update'[j] = update[j]
          /\ phase' = phase /\ writes' = writes /\ update'[i] = Begun(i, interval[i])
      BY <1>2, PunctualConstants DEF TimerFires, Update, RotationOK
    <2>2. update'[i].pc = "find"
      BY <2>1 DEF Begun, NoUpdate
    <2> QED BY <2>1, <2>2 DEF OneStarts
  <1>3. ASSUME NEW i \in Instances, update[i].pc # "none", update'[i].pc # "none", phase' = phase,
               \A j \in Instances \ {i} : update'[j] = update[j] /\ writes'[j] = writes[j]
        PROVE  OneStarts'
    BY <1>3 DEF OneStarts
  <1>4. ASSUME NEW i \in Instances, FindKeys(i)
        PROVE  OneStarts'
    <2>1. /\ update[i].pc = "find" /\ update'[i].pc = "read" /\ phase' = phase /\ writes' = writes
          /\ \A j \in Instances \ {i} : update'[j] = update[j]
      BY <1>4 DEF FindKeys, At, Update, RotationOK, UpdateType
    <2> QED BY <1>3, <2>1
  <1>5. ASSUME NEW i \in Instances, NEW k \in DOMAIN db, ReadParams(i, k)
        PROVE  OneStarts'
    <2>1. update[i].pc = "read" /\ update'[i].pc = "read" /\ phase' = phase
      BY <1>5, ReadParamsFields
    <2>2. \A j \in Instances \ {i} : update'[j] = update[j] /\ writes'[j] = writes[j]
      BY <1>5 DEF ReadParams, Update, RotationOK
    <2> QED BY <1>3, <2>1, <2>2
  <1>6. ASSUME NEW i \in Instances, Publish(i)
        PROVE  OneStarts'
    <2>1. update[i].pc = "read" /\ update'[i].pc = "derive" /\ phase' = phase
      BY <1>6, PublishFields
    <2>2. \A j \in Instances \ {i} : update'[j] = update[j] /\ writes'[j] = writes[j]
      BY <1>6 DEF Publish, Update, RotationOK
    <2> QED BY <1>3, <2>1, <2>2
  <1>7. ASSUME NEW i \in Instances, Activate(i)
        PROVE  OneStarts'
    <2>1. /\ update[i].pc = "derive" /\ update'[i].pc = "await" /\ phase' = phase
          /\ writes' = writes /\ \A j \in Instances \ {i} : update'[j] = update[j]
      BY <1>7 DEF Activate, At, Goto, Update, RotationOK, UpdateType
    <2> QED BY <1>3, <2>1
  <1>8. ASSUME NEW i \in Instances, Write(i)
        PROVE  OneStarts'
    <2>1. /\ update' = update /\ phase' = phase /\ \A j \in Instances : writes'[j] \subseteq writes[j]
      BY <1>8 DEF Write, RotationOK
    <2> QED BY <2>1 DEF OneStarts
  <1>9. ASSUME NEW i \in Instances, Down(i) \/ Finish(i)
         PROVE  OneStarts'
    <2>1. /\ update'[i] = NoUpdate /\ writes'[i] = {} /\ phase'[i] # "starting"
          /\ \A j \in Instances \ {i} : /\ update'[j] = update[j] /\ writes'[j] = writes[j]
                                        /\ phase'[j] = phase[j]
      BY <1>9 DEF Down, Finish, Update, RotationOK
    <2>2. NoUpdate.pc = "none"
      BY DEF NoUpdate
    <2> QED BY <2>1, <2>2 DEF OneStarts
  <1>10. ASSUME Tick
         PROVE  OneStarts'
    BY <1>10 DEF Tick, OneStarts
  <1> QED BY <1>1, <1>2, <1>4, <1>5, <1>6, <1>7, <1>8, <1>9, <1>10 DEF Step, Stop, ReadThrows

LEMMA WriteInOrder ==
    ASSUME Punctual, RotationOK, InOrder, OneStarts, NEW i \in Instances, Timely(i), Local(i),
           Write(i)
    PROVE  InOrder'
  <1>1. PICK w \in writes[i] : db' = Stored(w)
    BY DEF Write
  <1>2. now' = now /\ \A p : (Sound(p)' <=> Sound(p))
    BY DEF Write, Sound, IsLegacy, Begin, intervalStart
  <1>3. CASE Drops(i, w)
    <2>1. /\ \A k \in DOMAIN db' : Sound(db'[k])
          /\ \A k : Rotating(k)' => Rotating(k) /\ k \in DOMAIN db /\ db'[k] = db[k]
      BY <1>3 DEF Drops, InOrder, Rotating
    <2> QED BY <1>2, <2>1 DEF InOrder
  <1>4. CASE Stores(i, w)
    <2> DEFINE c == update[i].current
    <2>1. /\ DOMAIN db' = DOMAIN db \cup {c.id} /\ db'[c.id] = c
          /\ \A k \in DOMAIN db \ {c.id} : db'[k] = db[k]
          /\ \A k : Rotating(k)' <=> Rotating(k) \/ k = c.id
      BY <1>4 DEF Stores
    <2>2. Extends(i) \/ Makes(i)
      BY <1>1, <1>4, StoresChosen
    <2>3. Sound(c) /\ c.start < now + Period /\ c.id \in Nat
      BY <1>1, <1>4, StoresChosen
    <2>4. \A k \in DOMAIN db' : Sound(db'[k]) /\ (Rotating(k)' => db'[k].start < now + Period)
      BY <2>1, <2>3 DEF InOrder
    <2>5. ASSUME NEW k \in DOMAIN db, Rotating(k), k # c.id
          PROVE  k < c.id /\ db[k].end <= c.start
      <3>1. CASE Extends(i)
        <4>1. c.id \in DOMAIN db /\ Rotating(c.id) /\ k <= c.id /\ db[c.id].start = c.start
          BY <2>5, <3>1 DEF Extends, Latest, Rotating
        <4>2. k < c.id
          BY <2>3, <2>5, <4>1, RecordTyped
        <4> QED BY <2>5, <4>1, <4>2 DEF InOrder
      <3>2. CASE Makes(i)
        BY <2>5, <3>2 DEF Makes
      <3> QED BY <2>2, <3>1, <3>2
    <2>6. ASSUME NEW k \in DOMAIN db', NEW l \in DOMAIN db', Rotating(k)', Rotating(l)', k < l
          PROVE  db'[k].end <= db'[l].start
      <3>1. \A m \in DOMAIN db : m \in Nat
        BY RecordTyped
      <3>2. CASE k = c.id
        BY <2>1, <2>3, <2>5, <2>6, <3>1, <3>2
      <3>3. CASE k # c.id /\ l = c.id
        BY <2>1, <2>5, <2>6, <3>3
      <3>4. CASE k # c.id /\ l # c.id
        BY <2>1, <2>6, <3>4 DEF InOrder
      <3> QED BY <3>2, <3>3, <3>4
    <2> QED BY <1>2, <2>4, <2>6 DEF InOrder
  <1> QED BY <1>1, <1>3, <1>4, WriteFields

\* Nothing but a write changes the database, nothing but Tick the time.
LEMMA OnlyWrites ==
    ASSUME Step, ~\E i \in Instances : Write(i)
    PROVE  db' = db /\ (~Tick => now' = now)
  <1>1. CASE Tick
    BY <1>1 DEF Tick
  <1>2. CASE ~Tick
    <2>1. PICK i \in Instances :
             \/ start(i) \/ TimerFires(i) \/ FindKeys(i) \/ Down(i) \/ Publish(i)
             \/ Activate(i) \/ Finish(i) \/ \E k \in DOMAIN db : ReadParams(i, k)
      BY <1>2 DEF Step, Stop, ReadThrows
    <2> QED BY <2>1 DEF start, TimerFires, FindKeys, Publish, Activate, Finish, ReadParams, Down
  <1> QED BY <1>1, <1>2

LEMMA InOrderNext ==
    ASSUME Punctual, RotationOK, InOrder, OneStarts, \A i \in Instances : Timely(i) /\ Local(i), Step
    PROVE  InOrder'
  <1>1. ASSUME db' = db, now' \in Int, now <= now'
        PROVE  InOrder'
    <2>1. now \in Int /\ Period \in Int /\ \A k \in DOMAIN db : db[k].start \in Int
      BY RecordTyped, PunctualConstants, RotatorAssumption DEF RotationOK
    <2>2. \A k \in DOMAIN db : Rotating(k) => db[k].start < now' + Period
      BY <1>1, <2>1 DEF InOrder
    <2> QED BY <1>1, <2>2, SameRecords DEF InOrder
  <1>2. now \in Int
    BY RotatorAssumption DEF RotationOK
  <1>3. CASE \E i \in Instances : Write(i)
    BY <1>3, WriteInOrder
  <1>4. CASE Tick
    <2>1. db' = db /\ now' = now + 1
      BY <1>4 DEF Tick
    <2> QED BY <1>1, <1>2, <2>1
  <1>5. CASE ~Tick /\ ~\E i \in Instances : Write(i)
    BY <1>1, <1>2, <1>5, OnlyWrites
  <1> QED BY <1>3, <1>4, <1>5

\* Each step keeps every instance's part of the invariant.
LEMMA LocalNext ==
    ASSUME Punctual, RotationOK, RotationOK', InOrder, OneStarts,
           \A i \in Instances : Timely(i) /\ Local(i), Step, NEW j \in Instances
    PROVE  Local(j)'
  <1>1. CASE Tick
    BY <1>1, TickLocal
  <1>2. CASE \E i \in Instances : Write(i)
    BY <1>2, WriteLocal
  <1>3. ASSUME NEW i \in Instances,
               \/ start(i) \/ TimerFires(i) \/ FindKeys(i) \/ Down(i) \/ Publish(i)
               \/ Activate(i) \/ Finish(i) \/ \E k \in DOMAIN db : ReadParams(i, k)
        PROVE  Local(j)'
    <2>1. CASE j = i
      BY <1>3, <2>1, startLocal, TimerFiresLocal, FindKeysLocal, DownLocal, PublishLocal,
         ActivateLocal, FinishLocal, ReadParamsLocal
    <2>2. CASE j # i
      <3>1. /\ db' = db /\ now' = now /\ phase'[j] = phase[j] /\ update'[j] = update[j]
            /\ due'[j] = due[j] /\ secrets'[j] = secrets[j] /\ writes'[j] = writes[j]
        BY <1>3, <2>2 DEF start, TimerFires, FindKeys, Down, Publish, Activate, Finish, ReadParams,
                          Update, Goto, RotationOK
      <3>2. ASSUME phase[j] = "starting", NEW l \in Instances, phase'[l] = "up", phase[l] # "up"
            PROVE  FALSE
        <4>1. Finish(i)
          BY <1>3, <3>2 DEF start, TimerFires, FindKeys, Down, Publish, Activate, ReadParams,
                            RotationOK
        <4>2. update[i].pc # "none"
          BY <4>1 DEF Finish, At
        <4> QED BY <2>2, <3>2, <4>2 DEF OneStarts
      <3> QED BY <3>1, <3>2, LocalStays
    <2> QED BY <2>1, <2>2
  <1> QED BY <1>1, <1>2, <1>3 DEF Step, Stop, ReadThrows

-----------------------------------------------------------------------------
(* What is valid: its parameters stay, and every instance holds its secret. *)

\* What the parameters of a valid secret last for, by the clock of an update.
LEMMA KnownLasts ==
    ASSUME Punctual, RotationOK, NEW i \in Instances, Timely(i), Local(i), update[i].pc # "none",
           NEW u, u.at \in Nat, u.at <= now, Valid(u), NEW s \in Nat, Begin(s) = s,
           u.at <= s + Period + 2 * Slack, s + 2 * Slack < u.at + Period
    PROVE  /\ update[i].at < s + 2 * Period + Lifetime
           /\ s <= Begin(update[i].at) + Period
           /\ phase[i] = "up" /\ update[i].pc \in {"derive", "await"} => s <= Begin(update[i].at)
  <1> DEFINE t == update[i].at
             a == Begin(t)
  <1>1. /\ Period \in Nat \ {0} /\ Slack \in Nat /\ Lifetime \in Nat \ {0} /\ Skew[i] \in Nat
        /\ Skew[i] + 2 * Slack < Period
    BY PunctualConstants
  <1>2. now \in Nat /\ t \in Nat /\ due[i] \in Nat /\ phase[i] \in {"up", "starting"}
    BY UpdateTyped DEF RotationOK, Timely
  <1>3. a \in Nat /\ a <= t /\ t < a + Period /\ Begin(a) = a /\ Begin(a + Period) = a + Period
    BY <1>2, Begins, Apart
  <1>4. /\ t <= now + Skew[i] /\ now + Skew[i] <= due[i] + Slack /\ now < u.at + Lifetime
    BY <1>2 DEF Timely, Clock, Valid
  <1>5. /\ phase[i] = "starting" => due[i] = t
        /\ phase[i] = "up" => due[i] <= a + Slack
    BY DEF Local, OnTime
  <1> HIDE DEF a, t
  <1>6. t < s + 2 * Period + Lifetime
    BY <1>1, <1>2, <1>4
  <1>7. now + Skew[i] < a + Period + 2 * Slack
    BY <1>1, <1>2, <1>3, <1>4, <1>5
  <1>8. s < (a + Period) + Period
    BY <1>1, <1>2, <1>3, <1>7
  <1>9. phase[i] = "up" => s < a + Period
    BY <1>1, <1>2, <1>3, <1>4, <1>5
  <1>10. a + Period \in Int
    BY <1>1, <1>3
  <1>11. s <= a + Period
    BY <1>3, <1>8, <1>10, Apart
  <1>12. phase[i] = "up" => s <= a
    BY <1>3, <1>9, Apart
  <1> QED BY <1>6, <1>11, <1>12 DEF a, t

\* No write takes away the parameters of what is valid.
LEMMA KnownStays ==
    ASSUME Punctual, RotationOK, InOrder, OneStarts, \A i \in Instances : Timely(i) /\ Local(i),
           Step, NEW u, u.at \in Nat, u.at <= now, Valid(u), Known(u)
    PROVE  Known(u)'
  <1> DEFINE k == u.secret.id
             s == u.secret.start
  <1>1. CASE u.secret = LegacySecret /\ LegacyKey /\ u.at = Epoch
    BY <1>1 DEF Known, LegacySecret, Secret, None
  <1>2. CASE ~(u.secret = LegacySecret /\ LegacyKey /\ u.at = Epoch)
    <2>1. /\ u.secret = Key(k, s) /\ Rotating(k) /\ s \in Nat /\ Begin(s) = s
          /\ Begin(db[k].start - Period) <= s /\ s + Period <= db[k].end
          /\ u.at <= s + Period + 2 * Slack /\ s + 2 * Slack < u.at + Period
      BY <1>2 DEF Known
    <2>2. SUFFICES Rotating(k)' /\ db'[k].start = db[k].start /\ s + Period <= db'[k].end
      BY <2>1, <2>2 DEF Known, Key, Begin, intervalStart
    <2>3. CASE db' = db
      BY <2>1, <2>3, SameRecords
    <2>4. ASSUME NEW i \in Instances, NEW w \in writes[i], Drops(i, w)
          PROVE  Rotating(k)' /\ db'[k] = db[k]
      <3>1. update[i].pc # "none"
        BY <2>4 DEF OneStarts
      <3>2. update[i].at < s + 2 * Period + Lifetime
        BY <2>1, <3>1, KnownLasts
      <3>3. k # w.k
        <4>1. db[k].end \in Int /\ Period \in Nat /\ Lifetime \in Nat /\ update[i].at \in Nat
          BY <2>1, RecordTyped, PunctualConstants, UpdateTyped DEF Rotating
        <4>2. k = w.k => db[k].end + Lifetime + Period <= update[i].at
          BY <2>1, <2>4 DEF Drops
        <4> HIDE DEF k, s
        <4> QED BY <2>1, <3>2, <4>1, <4>2
      <3> QED BY <2>1, <2>4, <3>3 DEF Drops
    <2>5. ASSUME NEW i \in Instances, NEW w \in writes[i], Stores(i, w)
          PROVE  Rotating(k)' /\ db'[k].start = db[k].start /\ s + Period <= db'[k].end
      <3> DEFINE c == update[i].current
      <3>1. /\ Rotating(k)' /\ db'[c.id] = c /\ (k # c.id => db'[k] = db[k])
        BY <2>1, <2>5 DEF Stores, Rotating
      <3>2. CASE k # c.id
        BY <2>1, <3>1, <3>2
      <3>3. CASE k = c.id
        <4>1. /\ Extends(i) /\ Published(i) /\ update[i].pc \in {"derive", "await"}
              /\ c.end \in Int /\ Begin(update[i].at) + 2 * Period <= c.end
          BY <2>1, <2>5, <3>3, StoresChosen DEF Makes, Rotating, Published
        <4>2. CASE phase[i] = "up"
          <5>1. s <= Begin(update[i].at)
            BY <2>1, <4>1, <4>2, KnownLasts
          <5>2. Begin(update[i].at) \in Int /\ Period \in Nat
            BY UpdateTyped, Begins, PunctualConstants
          <5>3. s + Period <= c.end
            <6> HIDE DEF s, c
            <6> QED BY <2>1, <4>1, <5>1, <5>2
          <5> QED BY <3>1, <3>3, <4>1, <5>3 DEF Extends
        <4>3. CASE phase[i] = "starting"
          <5>1. db[k].end <= c.end /\ db[k].end \in Int /\ Period \in Nat
            BY <2>1, <3>3, <4>1, <4>3, RecordTyped, PunctualConstants DEF Extends, Rotating
          <5>2. s + Period <= c.end
            <6> HIDE DEF s, c
            <6> QED BY <2>1, <4>1, <5>1
          <5> QED BY <3>1, <3>3, <4>1, <5>2 DEF Extends
        <4> QED BY <4>1, <4>2, <4>3 DEF Timely, RotationOK
      <3> QED BY <3>2, <3>3
    <2>6. CASE \E i \in Instances : Write(i)
      <3>1. PICK i \in Instances : \E w \in writes[i] : db' = Stored(w)
        BY <2>6 DEF Write
      <3> QED BY <2>1, <2>4, <2>5, <3>1, WriteFields
    <2>7. CASE ~\E i \in Instances : Write(i)
      BY <2>3, <2>7, OnlyWrites
    <2> QED BY <2>6, <2>7
  <1> QED BY <1>1, <1>2

\* What is signed after a step has parameters that are known, and every instance
\* accepts it.
LEMMA SigningKnown ==
    ASSUME Punctual, RotationOK', NEW j \in Instances, Timely(j)', Local(j)', phase'[j] = "up",
           NEW u, u = [secret |-> Signs(j)', at |-> now']
    PROVE  Known(u)'
  <1>1. PICK f : f = First(j)'
    OBVIOUS
  <1> DEFINE k == f.id
             b == f.start
             d == due'[j]
  <1>2. /\ Live /\ Period \in Nat \ {0} /\ Slack \in Nat /\ Skew[j] \in Nat
        /\ Skew[j] + 2 * Slack < Period
    BY PunctualConstants
  <1>3. u.secret = f /\ u.at = now'
    BY <1>1, <1>2 DEF Signs, First
  <1>4. now' \in Nat /\ d \in Nat
    <2>1. now' \in Epoch .. MaxTime
      BY DEF RotationOK
    <2> QED BY <2>1, RotatorAssumption DEF RotationOK
  <1>5. /\ b \in Nat /\ Begin(b) = b /\ b <= now' + Skew[j]
        /\ d <= b + Slack \/ d <= b + Period + Slack
    BY <1>1 DEF Local, OnTime, Clock, Begin, intervalStart
  <1>6. now' + Skew[j] <= d + Slack
    BY DEF Timely, Clock
  <1>7. /\ Rotating(k)' /\ f = Key(k, b) /\ Begin(db'[k].start - Period) <= b
        /\ b + Period <= db'[k].end
    BY <1>1 DEF Local, Uses, Latest, Key, Begin, intervalStart
  <1>8. now' <= b + Period + 2 * Slack /\ b + 2 * Slack < now' + Period
    <2> HIDE DEF b, d
    <2>1. d <= b + Period + Slack
      BY <1>2, <1>4, <1>5
    <2>2. now' <= b + Period + 2 * Slack
      BY <1>2, <1>4, <1>5, <1>6, <2>1
    <2>3. b + 2 * Slack < now' + Period
      BY <1>2, <1>4, <1>5
    <2> QED BY <2>2, <2>3
  <1> QED BY <1>3, <1>5, <1>7, <1>8 DEF Known, Key, Begin, intervalStart

\* Two intervals that are at most one apart.
LEMMA Around ==
    ASSUME Punctual, NEW a \in Int, NEW b \in Int, Begin(a) = a, Begin(b) = b,
           a <= b + Period, b <= a + Period
    PROVE  b \in {a - Period, a, a + Period}
  <1>1. Period \in Nat \ {0}
    BY PunctualConstants
  <1>2. a < b + Period => a <= b
    BY Apart
  <1>3. b < a + Period => b <= a
    BY Apart
  <1> QED BY <1>1, <1>2, <1>3

LEMMA SigningAccepted ==
    ASSUME Punctual, RotationOK', NEW i \in Instances, NEW j \in Instances,
           Timely(i)', Local(i)', Timely(j)', Local(j)', OneStarts', phase'[j] = "up", Activated(i)'
    PROVE  Signs(j)' \in secrets'[i].all
  <1>1. PICK f : f = First(j)'
    OBVIOUS
  <1>2. PICK g : g = First(i)'
    OBVIOUS
  <1> DEFINE k == f.id
             b == f.start
             a == g.start
             u == update'[i]
  <1>3. /\ Live /\ Period \in Nat \ {0} /\ Slack \in Nat /\ Skew[i] \in Nat /\ Skew[j] \in Nat
        /\ Skew[i] + 2 * Slack < Period /\ Skew[j] + 2 * Slack < Period
    BY PunctualConstants
  <1>4. /\ Signs(j)' = f /\ Latest(k)' /\ f = Key(k, b) /\ Begin(db'[k].start - Period) <= b
    BY <1>1, <1>3 DEF Signs, First, Local, Uses, Key, Begin, intervalStart
  <1>5. now' \in Nat /\ due'[i] \in Nat /\ due'[j] \in Nat /\ k \in Nat
    <2>1. now' \in Epoch .. MaxTime /\ DOMAIN db' \subseteq 1 .. ids' /\ ids' \in Nat
      BY DEF RotationOK
    <2>2. k \in DOMAIN db'
      BY <1>4 DEF Latest, Rotating
    <2> QED BY <2>1, <2>2, RotatorAssumption DEF RotationOK
  <1>6. /\ b \in Nat /\ Begin(b) = b /\ b <= now' + Skew[j]
        /\ due'[j] <= b + Slack \/ due'[j] <= b + Period + Slack
    BY <1>1 DEF Local, OnTime, Clock, Begin, intervalStart
  <1>7. phase'[i] # "down" /\ phase'[i] \in {"up", "starting", "down"}
    BY DEF Activated, Timely, RotationOK
  <1>8. /\ now' + Skew[j] <= due'[j] + Slack /\ now' + Skew[i] <= due'[i] + Slack
        /\ u.pc = "await" => u.at <= now' + Skew[i]
    BY <1>7 DEF Timely, Clock
  <1>9. /\ a \in Nat /\ Begin(a) = a /\ a <= now' + Skew[i]
        /\ now' + Skew[i] <= a + Period + 2 * Slack
        /\ KeysAround(k, db'[k].start, a) \subseteq secrets'[i].all
    <2>1. CASE phase'[i] = "up"
      <3>1. /\ a \in Nat /\ Begin(a) = a /\ a <= now' + Skew[i]
            /\ due'[i] <= a + Slack \/ due'[i] <= a + Period + Slack
        BY <1>2, <2>1 DEF Local, OnTime, Clock, Begin, intervalStart
      <3>2. /\ Latest(g.id)' /\ KeysAround(g.id, db'[g.id].start, a) \subseteq secrets'[i].all
        BY <1>2, <2>1 DEF Local, Uses, KeysAround, Key, Begin, intervalStart
      <3>3. g.id = k
        <4>1. g.id \in DOMAIN db' /\ g.id <= k /\ k <= g.id
          BY <1>4, <3>2 DEF Latest, Rotating
        <4>2. DOMAIN db' \subseteq 1 .. ids' /\ ids' \in Nat
          BY DEF RotationOK
        <4> QED BY <1>5, <4>1, <4>2
      <3>4. now' + Skew[i] <= a + Period + 2 * Slack
        <4> HIDE DEF a
        <4> QED BY <1>3, <1>5, <1>8, <3>1
      <3> QED BY <3>1, <3>2, <3>3, <3>4
    <2>2. CASE phase'[i] = "starting"
      <3>1. u.pc = "await" /\ Published(i)'
        BY <2>2 DEF Activated, Published
      <3>2. a = Begin(u.at) /\ due'[i] = u.at
        BY <1>2, <2>2, <3>1 DEF Local, OnTime, Begin, intervalStart
      <3>3. u.at \in Nat
        BY DEF RotationOK, UpdateType
      <3>4. a \in Nat /\ Begin(a) = a /\ a <= u.at /\ u.at < a + Period
        BY <3>2, <3>3, Begins
      <3> PICK c : c = u.current
        OBVIOUS
      <3>5. Latest(c.id)' /\ db'[c.id].start = c.start
        BY <2>2, <3>1 DEF Local, Chosen
      <3>6. c.id = k
        <4>1. c.id \in DOMAIN db' /\ c.id <= k /\ k <= c.id
          BY <1>4, <3>5 DEF Latest, Rotating
        <4>2. DOMAIN db' \subseteq 1 .. ids' /\ ids' \in Nat
          BY DEF RotationOK
        <4> QED BY <1>5, <4>1, <4>2
      <3>7. KeysAround(c.id, c.start, a) \subseteq secrets'[i].all
        BY <1>2, <3>1 DEF Local, Derives, KeysAround, Key, Begin, intervalStart
      <3>8. a <= now' + Skew[i] /\ now' + Skew[i] <= a + Period + 2 * Slack
        <4> HIDE DEF a
        <4> QED BY <1>3, <1>5, <1>8, <3>1, <3>2, <3>3, <3>4
      <3> QED BY <3>4, <3>5, <3>6, <3>7, <3>8
    <2> QED BY <1>7, <2>1, <2>2
  <1>10. b \in {a - Period, a, a + Period}
    <2>1. now' + Skew[j] <= b + Period + 2 * Slack
      <3> HIDE DEF b
      <3> QED BY <1>3, <1>5, <1>6, <1>8
    <2>2. a <= b + Period /\ b <= a + Period
      BY <1>5, <1>6, <1>9, <2>1, InStep
    <2> HIDE DEF a, b
    <2> QED BY <1>6, <1>9, <2>2, Around
  <1>11. Key(k, b) \in KeysAround(k, db'[k].start, a)
    BY <1>4, <1>10 DEF KeysAround
  <1> QED BY <1>4, <1>9, <1>11

\* An update derives the secret of all that is valid.
LEMMA ActivateAccepts ==
    ASSUME Punctual, RotationOK, NEW i \in Instances, Timely(i), Local(i), Activate(i)
    PROVE  /\ LegacyKey /\ now < Epoch + Lifetime => LegacySecret \in secrets'[i].all
           /\ \A u : u.at \in Nat /\ u.at <= now /\ Valid(u) /\ Known(u)
                => u.secret \in secrets'[i].all
  <1> DEFINE t == update[i].at
             c == update[i].current
             others == update[i].others
             a == Begin(t)
  <1>1. /\ update[i].pc = "derive"
        /\ secrets'[i].all = UNION {deriveSecrets(p, t) : p \in others \cup {c}}
    BY ActivateFields
  <1>2. /\ others \subseteq ParamsType /\ t \in Nat /\ c \in ParamsType /\ c.interval = Period
        /\ c # None /\ c.end \in Int /\ phase[i] \in {"up", "starting"}
    BY <1>1, UpdateTyped DEF Published, Timely, RotationOK
  <1>3. /\ Period \in Nat \ {0} /\ Lifetime \in Nat \ {0} /\ a \in Nat
    BY <1>2, Begins, PunctualConstants
  <1>4. LegacyKey /\ now < Epoch + Lifetime => LegacySecret \in secrets'[i].all
    <2>1. LegacyKey /\ now < Epoch + Lifetime => \E p \in others : IsLegacy(p)
      BY <1>1 DEF Local, Static
    <2>2. \A p \in others : IsLegacy(p) => LegacySecret \in deriveSecrets(p, t)
      BY DEF deriveSecrets
    <2> QED BY <1>1, <2>1, <2>2
  <1>5. ASSUME NEW u, u.at \in Nat, u.at <= now, Valid(u), Known(u)
        PROVE  u.secret \in secrets'[i].all
    <2> DEFINE k == u.secret.id
               s == u.secret.start
    <2>1. CASE u.secret = LegacySecret /\ LegacyKey /\ u.at = Epoch
      BY <1>4, <1>5, <2>1 DEF Valid
    <2>2. CASE ~(u.secret = LegacySecret /\ LegacyKey /\ u.at = Epoch)
      <3>1. /\ u.secret = Key(k, s) /\ Rotating(k) /\ s \in Nat /\ Begin(s) = s
            /\ Begin(db[k].start - Period) <= s /\ s + Period <= db[k].end
            /\ u.at <= s + Period + 2 * Slack /\ s + 2 * Slack < u.at + Period
        BY <1>5, <2>2 DEF Known
      <3>2. t < s + 2 * Period + Lifetime /\ s <= a + Period
        BY <1>1, <1>5, <3>1, KnownLasts
      <3>3. \E p \in others \cup {c} :
               /\ p \in ParamsType /\ p.interval = Period /\ p.id = k
               /\ p.start = db[k].start /\ s + Period <= p.end
        <4>1. /\ db[k] \in ParamsType /\ db[k].id = k /\ db[k].interval = Period
              /\ db[k].end \in Int
          BY <3>1, RecordTyped DEF Rotating
        <4>2. ~(db[k].end + Lifetime + Period <= t)
          <5> HIDE DEF k, s, t
          <5> QED BY <1>2, <1>3, <3>1, <3>2, <4>1 DEF t
        <4>3. CASE db[k] \in others
          BY <3>1, <4>1, <4>3
        <4>4. CASE c.id = k /\ c.start = db[k].start
          <5>1. a + 2 * Period <= c.end
            BY <1>1 DEF Local, Chosen, Published
          <5>2. s + Period <= c.end
            <6> HIDE DEF a, c, s
            <6> QED BY <1>2, <1>3, <3>1, <3>2, <5>1 DEF c
          <5> QED BY <1>2, <4>4, <5>2
        <4>5. k \in DOMAIN db \ update[i].todo
          BY <1>1, <3>1 DEF Local, Gathered, Rotating
        <4> QED BY <1>1, <3>1, <4>2, <4>3, <4>4, <4>5 DEF Local, Gathered
      <3>4. PICK p \in others \cup {c} :
               /\ p \in ParamsType /\ p.interval = Period /\ p.id = k
               /\ p.start = db[k].start /\ s + Period <= p.end
        BY <3>3
      <3>5. Key(k, s) \in deriveSecrets(p, t)
        BY <1>2, <3>1, <3>2, <3>4, DerivedKeys
      <3> QED BY <1>1, <3>1, <3>5
    <2> QED BY <2>1, <2>2
  <1> QED BY <1>4, <1>5

\* The secrets of an instance that is not new to them change in Activate only.
LEMMA ActivatedStays ==
    ASSUME Punctual, RotationOK, Step, NEW i \in Instances, ~Activate(i), Activated(i)'
    PROVE  Activated(i) /\ secrets'[i] = secrets[i]
  <1>1. CASE Tick
    BY <1>1 DEF Tick, Activated
  <1>2. ASSUME NEW j \in Instances \ {i},
               \/ start(j) \/ TimerFires(j) \/ FindKeys(j) \/ ReadThrows(j) \/ Publish(j)
               \/ Activate(j) \/ Write(j) \/ Finish(j) \/ Stop(j)
               \/ \E k \in DOMAIN db : ReadParams(j, k)
        PROVE  phase'[i] = phase[i] /\ update'[i] = update[i] /\ secrets'[i] = secrets[i]
    BY <1>2, OthersStay
  <1>3. NoUpdate.pc = "none" /\ \A n : Begun(i, n).pc = "find"
    BY DEF NoUpdate, Begun
  <1>4. CASE Down(i)
    BY <1>3, <1>4 DEF Down, Update, Activated, RotationOK
  <1>5. CASE start(i)
    BY <1>3, <1>5 DEF start, Update, Activated, RotationOK
  <1>6. CASE TimerFires(i) \/ Write(i)
    BY <1>3, <1>6 DEF TimerFires, Write, Update, Activated, RotationOK
  <1>7. CASE Finish(i)
    BY <1>3, <1>7 DEF Finish, At, Update, Activated, RotationOK
  <1>8. CASE FindKeys(i)
    BY <1>8 DEF FindKeys, At, Update, Activated, RotationOK, UpdateType
  <1>9. CASE Publish(i)
    BY <1>9 DEF Publish, At, Update, Activated, RotationOK, UpdateType
  <1>10. CASE \E k \in DOMAIN db : ReadParams(i, k)
    <2>1. PICK k \in DOMAIN db : ReadParams(i, k)
      BY <1>10
    <2>2. update[i].pc = "read" /\ update'[i].pc = "read" /\ phase' = phase /\ secrets' = secrets
      BY <2>1, ReadParamsFields
    <2> QED BY <2>2 DEF Activated
  <1>11. CASE \E j \in Instances \ {i} :
               \/ start(j) \/ TimerFires(j) \/ FindKeys(j) \/ ReadThrows(j) \/ Publish(j)
               \/ Activate(j) \/ Write(j) \/ Finish(j) \/ Stop(j)
               \/ \E k \in DOMAIN db : ReadParams(j, k)
    BY <1>2, <1>11 DEF Activated
  <1> QED BY <1>1, <1>4, <1>5, <1>6, <1>7, <1>8, <1>9, <1>10, <1>11 DEF Step, Stop, ReadThrows

-----------------------------------------------------------------------------
(* The invariant is inductive and implies what is claimed. *)

LEMMA AInvInit == ASSUME Punctual, Init PROVE AInv
  <1>1. IInv
    BY IInvInit
  <1>2. /\ DOMAIN db = {} /\ NoUpdate.pc = "none" /\ now = Epoch
        /\ \A i \in Instances : /\ phase[i] = "down" /\ update[i] = NoUpdate /\ writes[i] = {}
    BY DEF Init, NoUpdate
  <1>3. InOrder /\ OneStarts
    BY <1>2 DEF InOrder, OneStarts
  <1>4. ASSUME NEW i \in Instances PROVE Local(i)
    BY <1>2 DEF Local, OnTime, Pending, Chosen, Gathered, Uses, Derives, Static, Published, Rotating
  <1>5. AllKnown
    <2>1. \A u \in used : u.secret = LegacySecret /\ LegacyKey /\ u.at = Epoch
      BY DEF Init
    <2> QED BY <2>1 DEF AllKnown, Known
  <1>6. AllAccepted
    BY <1>2 DEF AllAccepted, Activated
  <1> QED BY <1>1, <1>3, <1>4, <1>5, <1>6 DEF AInv

LEMMA AInvStays == ASSUME Punctual, AInv, UNCHANGED vars PROVE AInv'
  <1>1. IInv'
    BY IInvNext DEF AInv
  <1>2. UNCHANGED <<now, db, phase, update, writes, due, secrets, used>>
    BY DEF vars
  <1>3. InOrder' /\ OneStarts'
    BY <1>2, SameRecords DEF AInv, InOrder, OneStarts
  <1>4. ASSUME NEW i \in Instances PROVE Local(i)'
    BY <1>2, LocalStays DEF AInv
  <1>5. AllKnown'
    BY <1>2 DEF AInv, AllKnown, Valid, Known, Rotating, IsLegacy, Key, Begin, intervalStart
  <1>6. AllAccepted'
    BY <1>2 DEF AInv, AllAccepted, Activated, Valid
  <1> QED BY <1>1, <1>3, <1>4, <1>5, <1>6 DEF AInv

LEMMA AInvNext == ASSUME Punctual, AInv, Next PROVE AInv'
  <1>1. /\ RotationOK /\ InOrder /\ OneStarts /\ \A i \in Instances : Timely(i) /\ Local(i)
        /\ AllKnown /\ AllAccepted /\ Step
        /\ used' = Signing' \cup {u \in used : /\ now' < u.at + Lifetime
                                               /\ \A s \in Signing' : s.secret # u.secret}
    BY DEF AInv, IInv, TypeOK, Next
  <1>2. IInv' /\ RotationOK' /\ \A i \in Instances : Timely(i)'
    BY IInvNext DEF AInv, IInv, TypeOK
  <1>3. InOrder' /\ OneStarts'
    BY <1>1, InOrderNext, OneStartsNext
  <1>4. ASSUME NEW i \in Instances PROVE Local(i)'
    BY <1>1, <1>2, LocalNext
  <1>5. now \in Nat /\ now' \in Nat /\ now <= now' /\ Epoch \in Nat /\ Lifetime \in Nat
    <2>1. now \in Epoch .. MaxTime /\ now' \in Epoch .. MaxTime /\ now <= now'
      BY <1>1, <1>2, StepTyped DEF RotationOK
    <2> QED BY <2>1, RotatorAssumption
  <1>6. ASSUME NEW u \in used'
        PROVE  \/ \E j \in Instances : phase'[j] = "up" /\ u = [secret |-> Signs(j)', at |-> now']
               \/ u \in used /\ u.at \in Nat /\ u.at <= now /\ now' < u.at + Lifetime
    <2>1. CASE u \in Signing'
      BY <2>1 DEF Signing
    <2>2. CASE u \in used /\ now' < u.at + Lifetime
      <3>1. u.at \in Epoch .. now
        BY <2>2 DEF AInv, IInv, TypeOK
      <3> QED BY <1>5, <2>2, <3>1
    <2> QED BY <1>1, <2>1, <2>2
  <1>7. ASSUME NEW u \in used, u.at \in Nat, now' < u.at + Lifetime
        PROVE  Valid(u) /\ Known(u)
    <2>1. Valid(u)
      BY <1>5, <1>7 DEF Valid
    <2> QED BY <1>1, <2>1 DEF AllKnown
  <1>8. AllKnown'
    <2> SUFFICES ASSUME NEW u \in used' PROVE Known(u)'
      BY DEF AllKnown
    <2>1. ASSUME NEW j \in Instances, phase'[j] = "up", u = [secret |-> Signs(j)', at |-> now']
          PROVE  Known(u)'
      BY <1>2, <1>4, <2>1, SigningKnown
    <2>2. CASE u \in used /\ u.at \in Nat /\ u.at <= now /\ now' < u.at + Lifetime
      BY <1>1, <1>7, <2>2, KnownStays
    <2> QED BY <1>6, <2>1, <2>2
  <1>9. AllAccepted'
    <2> SUFFICES ASSUME NEW i \in Instances, Activated(i)'
                 PROVE  /\ LegacyKey /\ now' < Epoch + Lifetime => LegacySecret \in secrets'[i].all
                        /\ \A u \in used' : u.secret \in secrets'[i].all
      BY DEF AllAccepted
    <2>1. /\ LegacyKey /\ now' < Epoch + Lifetime => LegacySecret \in secrets'[i].all
          /\ \A u \in used : u.at \in Nat /\ u.at <= now /\ now' < u.at + Lifetime
                => u.secret \in secrets'[i].all
      <3>1. CASE Activate(i)
        BY <1>1, <1>5, <1>7, <3>1, ActivateAccepts
      <3>2. CASE ~Activate(i)
        <4>1. Activated(i) /\ secrets'[i] = secrets[i]
          BY <1>1, <3>2, ActivatedStays
        <4> QED BY <1>1, <1>5, <1>7, <4>1 DEF AllAccepted
      <3> QED BY <3>1, <3>2
    <2>2. ASSUME NEW j \in Instances, phase'[j] = "up"
          PROVE  Signs(j)' \in secrets'[i].all
      BY <1>2, <1>3, <1>4, <2>2, SigningAccepted
    <2> QED BY <1>6, <2>1, <2>2
  <1> QED BY <1>2, <1>3, <1>4, <1>8, <1>9 DEF AInv

LEMMA AInvImplies == ASSUME Punctual, AInv PROVE SignedIsAccepted
  BY PunctualConstants DEF AInv, AllAccepted, Activated, Valid, SignedIsAccepted, Accepts

\* Under one interval, with a consumer that holds the array, and where no update
\* runs beside the first one of another instance and no clock and timers are off
\* by an interval, every instance that is up accepts what any has signed for as
\* long as it should be valid: over rotations, restarts, and time in which nothing
\* runs.
THEOREM SignedSecretsAccepted == Punctual /\ Spec => []SignedIsAccepted
  <1>1. Punctual /\ Init => AInv
    BY AInvInit
  <1>2. Punctual /\ AInv /\ [Next]_vars => AInv'
    BY AInvNext, AInvStays
  <1>3. Punctual /\ AInv => SignedIsAccepted
    BY AInvImplies
  <1>4. Punctual => Punctual'
    BY DEF Punctual
  <1> QED BY <1>1, <1>2, <1>3, <1>4, PTL DEF Spec
=============================================================================

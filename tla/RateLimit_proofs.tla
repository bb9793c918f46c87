---------------------------- MODULE RateLimit_proofs ----------------------------
(***************************************************************************)
(* The buckets count exactly the attempts with a place in their window,    *)
(* windows of one key never overlap, and hence failures are bounded in any *)
(* stretch of time, of all keys in which maintenance has overtaken no      *)
(* attempt: for every number of attempts, every limit, window and delay.   *)
(***************************************************************************)
EXTENDS RateLimit, FiniteSetTheorems, TLAPS

-----------------------------------------------------------------------------
(* Whole seconds.                                                          *)

LEMMA Division ==
    ASSUME NEW s \in Nat \ {0}, NEW t \in Nat
    PROVE  t = s * (t \div s) + (t % s) /\ t \div s \in Nat /\ t % s \in 0..(s - 1)
OBVIOUS

LEMMA MultipleOf ==
    ASSUME NEW s \in Nat \ {0}, NEW t \in Nat, t % s = 0
    PROVE  \E q \in Nat : t = s * q
<1>1. t = s * (t \div s) + (t % s) /\ t \div s \in Nat
  BY Division
<1>2. QED
  BY <1>1

LEMMA Multiple ==
    ASSUME NEW s \in Nat \ {0}, NEW q \in Nat
    PROVE  (s * q) % s = 0 /\ s * q \in Nat
OBVIOUS

LEMMA SumOfMultiples ==
    ASSUME NEW s \in Nat \ {0}, NEW t \in Nat, NEW u \in Nat, t % s = 0, u % s = 0
    PROVE  (t + u) % s = 0
<1>1. PICK p \in Nat, q \in Nat : t = s * p /\ u = s * q
  BY MultipleOf
<1>2. (s * p + s * q) % s = 0
  OBVIOUS
<1>3. QED
  BY <1>1, <1>2

\* Cutting off the microseconds gives the last whole second.
LEMMA TruncatedProperties ==
    ASSUME NEW t \in Nat
    PROVE  /\ Truncated(t) \in Nat /\ Truncated(t) <= t
           /\ Truncated(t) % Second = 0
<1>1. Second \in Nat \ {0}
  BY RateAssumption
<1>2. PICK q \in Nat : t - (t % Second) = Second * q
  <2>1. t - (t % Second) = Second * (t \div Second) /\ t \div Second \in Nat
    BY <1>1, Division
  <2>2. QED
    BY <2>1
<1>3. (Second * q) % Second = 0 /\ Second * q \in Nat
  BY <1>1, Multiple
<1>4. t - (t % Second) <= t
  BY <1>1, Division
<1>5. QED
  BY <1>2, <1>3, <1>4 DEF Truncated

LEMMA LastWholeSecond ==
    ASSUME NEW t \in Nat, NEW e \in Nat, e % Second = 0, e <= t
    PROVE  e <= Truncated(t)
<1>1. Second \in Nat \ {0}
  BY RateAssumption
<1>2. PICK p \in Nat : e = Second * p
  BY <1>1, MultipleOf
<1>3. PICK q \in Nat : t = Second * q + (t % Second)
  BY <1>1, Division
<1>4. t % Second \in 0..(Second - 1)
  BY <1>1, Division
<1>5. p <= q
  <2>1. ASSUME q + 1 <= p
        PROVE  FALSE
    <3>1. Second * (q + 1) <= Second * p
      BY <1>1, <2>1
    <3>2. Second * (q + 1) = Second * q + Second
      BY <1>1
    <3>3. QED
      BY <1>1, <1>2, <1>3, <1>4, <3>1, <3>2
  <2>2. QED
    BY <2>1
<1>6. Second * p <= Second * q
  BY <1>1, <1>5
<1>7. QED
  BY <1>1, <1>2, <1>3, <1>4, <1>6 DEF Truncated

-----------------------------------------------------------------------------
(* What a reservation does to the row of one key.                          *)

Kept(k) == bucket'[k] = bucket[k] /\ place'[k] = place[k]

\* One more attempt in the window that lasts, or the first of a new one.
Takes(k, a) ==
    LET t == Truncated(started[a]) IN
    /\ k \in KeysOf(a)
    /\ bucket'[k] \in [attempts : Nat, expires : Nat]
    /\ place'[k] = [place[k] EXCEPT ![a] = bucket'[k].expires]
    /\ \/ /\ t < bucket[k].expires /\ bucket[k].attempts < Limit(k)
          /\ bucket'[k].expires = bucket[k].expires
          /\ bucket'[k].attempts = bucket[k].attempts + 1
       \/ /\ bucket[k].expires <= t
          /\ bucket'[k].expires = t + Window
          /\ bucket'[k].attempts = 1

LEMMA LimitPositive == \A k : Limit(k) \in Nat \ {0}
BY RateAssumption DEF Limit

LEMMA KeysOfAttempt ==
    ASSUME NEW a \in Attempts
    PROVE  /\ KeysOf(a) \subseteq Keys /\ Address \in KeysOf(a)
           /\ PairOf[a] \in KeysOf(a) /\ Limit(PairOf[a]) = PairLimit
BY RateAssumption DEF KeysOf, Keys, Limit

LEMMA CurrentType ==
    ASSUME RateTypeOK, NEW k \in Keys, NEW t \in Nat
    PROVE  /\ Current(k, t) \in [attempts : Nat, expires : Nat]
           /\ ~Restarts(k, t) => Current(k, t) = bucket[k]
           /\ Restarts(k, t) => Current(k, t).attempts = 0 /\ Current(k, t).expires = t + Window
           /\ Restarts(k, t) => ~Full(k, t)
<1>1. bucket[k] \in [attempts : Nat, expires : Nat] /\ Window \in Nat
  BY RateAssumption DEF RateTypeOK
<1>2. ~Restarts(k, t) => Current(k, t) = bucket[k]
  BY DEF Current
<1>3. Restarts(k, t) => Current(k, t) = [attempts |-> 0, expires |-> t + Window]
  BY DEF Current
<1>4. Restarts(k, t) => ~Full(k, t)
  BY <1>3, LimitPositive DEF Full
<1>5. QED
  BY <1>1, <1>2, <1>3, <1>4

\* A key is charged or stays as it is, and all keys of an attempt that is let
\* through are charged.
LEMMA ConsumeChanges ==
    ASSUME RateTypeOK, NEW a \in Attempts, Consume(a)
    PROVE  /\ \A k \in Keys : Kept(k) \/ Takes(k, a)
           /\ stage'[a] = "verifying" => \A k \in KeysOf(a) : Takes(k, a)
           /\ stage'[a] \in {"verifying", "refused"} /\ stage[a] = "started"
           /\ \A b \in Attempts \ {a} : stage'[b] = stage[b]
           /\ UNCHANGED <<now, started, overtaken>>
<1> DEFINE t == Truncated(started[a])
           reached == IF Full(Address, t) THEN {Address} ELSE KeysOf(a)
           charged == {k \in reached : ~Full(k, t)}
<1>1. /\ stage[a] = "started"
      /\ bucket' = [k \in Keys |->
                      IF k \in charged THEN [Current(k, t) EXCEPT !.attempts = @ + 1]
                      ELSE IF k \in reached THEN Current(k, t) ELSE bucket[k]]
      /\ place' = [k \in Keys |->
                     IF k \in charged
                     THEN [place[k] EXCEPT ![a] = Current(k, t).expires] ELSE place[k]]
      /\ stage' = [stage EXCEPT ![a] = IF charged = KeysOf(a) THEN "verifying" ELSE "refused"]
      /\ UNCHANGED <<now, started, overtaken>>
  BY DEF Consume
<1>2. /\ reached \subseteq KeysOf(a) /\ charged \subseteq KeysOf(a)
      /\ reached \subseteq Keys /\ charged \subseteq reached
      /\ \A k \in reached \ charged : Full(k, t)
      /\ \A k \in charged : ~Full(k, t)
  BY KeysOfAttempt
<1>3. started[a] \in Nat /\ t \in Nat
  <2>1. started[a] \in Nat
    BY DEF RateTypeOK
  <2>2. QED
    BY <2>1, TruncatedProperties
<1> HIDE DEF t, reached, charged
<1>4. ASSUME NEW k \in Keys, k \notin charged
      PROVE  Kept(k)
  <2>1. CASE k \in reached
    <3>1. ~Restarts(k, t)
      BY <1>2, <1>3, <1>4, <2>1, CurrentType
    <3>2. QED
      BY <1>1, <1>3, <1>4, <2>1, <3>1, CurrentType DEF Kept
  <2>2. CASE k \notin reached
    BY <1>1, <1>4, <2>2 DEF Kept
  <2>3. QED
    BY <2>1, <2>2
<1>5. ASSUME NEW k \in Keys, k \in charged
      PROVE  Takes(k, a)
  <2>1. /\ Current(k, t) \in [attempts : Nat, expires : Nat]
        /\ bucket[k] \in [attempts : Nat, expires : Nat]
    BY <1>3, CurrentType DEF RateTypeOK
  <2>2. bucket'[k] = [Current(k, t) EXCEPT !.attempts = @ + 1]
    BY <1>1, <1>5
  <2>3. /\ bucket'[k] \in [attempts : Nat, expires : Nat]
        /\ bucket'[k].attempts = Current(k, t).attempts + 1
        /\ bucket'[k].expires = Current(k, t).expires
    BY <2>1, <2>2
  <2>4. place'[k] = [place[k] EXCEPT ![a] = bucket'[k].expires]
    BY <1>1, <1>5, <2>3
  <2>5. CASE Restarts(k, t)
    <3>1. Current(k, t).attempts = 0 /\ Current(k, t).expires = t + Window
      BY <1>3, <2>5, CurrentType
    <3>2. bucket[k].expires <= t
      BY <2>5 DEF Restarts
    <3>3. QED
      BY <1>2, <1>5, <2>3, <2>4, <3>1, <3>2 DEF Takes, t
  <2>6. CASE ~Restarts(k, t)
    <3>1. Current(k, t) = bucket[k] /\ t < bucket[k].expires
      BY <1>3, <2>1, <2>6, CurrentType DEF Restarts
    <3>2. bucket[k].attempts < Limit(k)
      BY <1>2, <1>5, <2>1, <3>1, LimitPositive DEF Full
    <3>3. QED
      BY <1>2, <1>5, <2>3, <2>4, <3>1, <3>2 DEF Takes, t
  <2>7. QED
    BY <2>5, <2>6
<1>6. stage'[a] = "verifying" => charged = KeysOf(a)
  BY <1>1 DEF RateTypeOK
<1>7. stage'[a] \in {"verifying", "refused"} /\ \A b \in Attempts \ {a} : stage'[b] = stage[b]
  BY <1>1 DEF RateTypeOK
<1>8. QED
  BY <1>1, <1>2, <1>4, <1>5, <1>6, <1>7
-----------------------------------------------------------------------------
(* Releases and maintenance.                                               *)

GivesBack(k, a) ==
    /\ k \in KeysOf(a)
    /\ bucket[k] # NoBucket /\ bucket[k].expires <= started[a] + Window
    /\ bucket'[k] \in [attempts : Nat, expires : Nat]
    /\ bucket'[k].expires = bucket[k].expires
    /\ bucket'[k].attempts = IF bucket[k].attempts > 0 THEN bucket[k].attempts - 1 ELSE 0
    /\ place'[k] = [place[k] EXCEPT ![a] = 0]

\* A key the attempt leaves alone has no row, or one of a later window.
NotOwn(k, a) ==
    k \in KeysOf(a) => bucket[k] = NoBucket \/ started[a] + Window < bucket[k].expires

LEMMA ReleaseChanges ==
    ASSUME RateTypeOK, NEW a \in Attempts, Release(a)
    PROVE  /\ \A k \in Keys : (Kept(k) /\ NotOwn(k, a)) \/ GivesBack(k, a)
           /\ stage[a] = "verified" /\ stage'[a] = "done"
           /\ \A b \in Attempts \ {a} : stage'[b] = stage[b]
           /\ UNCHANGED <<now, started, overtaken>>
<1> DEFINE own == {k \in KeysOf(a) : /\ bucket[k] # NoBucket
                                     /\ bucket[k].expires <= started[a] + Window}
<1>1. /\ stage[a] = "verified"
      /\ bucket' = [k \in Keys |->
                      IF k \in own /\ bucket[k].attempts > 0
                      THEN [bucket[k] EXCEPT !.attempts = @ - 1] ELSE bucket[k]]
      /\ place' = [k \in Keys |->
                     IF k \in own THEN [place[k] EXCEPT ![a] = 0] ELSE place[k]]
      /\ stage' = [stage EXCEPT ![a] = "done"]
      /\ UNCHANGED <<now, started, overtaken>>
  BY DEF Release
<1>2. started[a] \in Nat /\ Window \in Nat
  BY RateAssumption DEF RateTypeOK
<1>3. \A k \in Keys : k \notin own => NotOwn(k, a)
  BY <1>2 DEF NotOwn, RateTypeOK
<1>4. \A k \in own : /\ k \in KeysOf(a) /\ bucket[k] # NoBucket
                     /\ bucket[k].expires <= started[a] + Window
  OBVIOUS
<1> HIDE DEF own
<1>5. ASSUME NEW k \in Keys, k \in own
      PROVE  GivesBack(k, a)
  <2>1. bucket[k] \in [attempts : Nat, expires : Nat]
    BY DEF RateTypeOK
  <2>2. place'[k] = [place[k] EXCEPT ![a] = 0]
    BY <1>1, <1>5
  <2>3. CASE bucket[k].attempts > 0
    <3>1. bucket'[k] = [bucket[k] EXCEPT !.attempts = @ - 1]
      BY <1>1, <1>5, <2>3
    <3>2. QED
      BY <1>4, <1>5, <2>1, <2>2, <2>3, <3>1 DEF GivesBack
  <2>4. CASE ~(bucket[k].attempts > 0)
    <3>1. bucket'[k] = bucket[k]
      BY <1>1, <1>5, <2>4
    <3>2. QED
      BY <1>4, <1>5, <2>1, <2>2, <2>4, <3>1 DEF GivesBack
  <2>5. QED
    BY <2>3, <2>4
<1>6. ASSUME NEW k \in Keys, k \notin own
      PROVE  Kept(k)
  BY <1>1, <1>6 DEF Kept
<1>7. stage'[a] = "done" /\ \A b \in Attempts \ {a} : stage'[b] = stage[b]
  BY <1>1 DEF RateTypeOK
<1>8. QED
  BY <1>1, <1>3, <1>5, <1>6, <1>7

Purges(k) ==
    /\ bucket[k].expires <= now
    /\ bucket'[k] = NoBucket /\ place'[k] = place[k]
    /\ UnderWay(k) => k \in overtaken'

LEMMA PurgeChanges ==
    ASSUME RateTypeOK, Purge
    PROVE  /\ \A k \in Keys : Kept(k) \/ Purges(k)
           /\ overtaken \subseteq overtaken' /\ overtaken' \subseteq Keys
           /\ UNCHANGED <<now, stage, started>>
BY DEF Purge, Kept, Purges, RateTypeOK

-----------------------------------------------------------------------------
(* Type correctness.                                                       *)

\* What the types say of one key.
RowType(k) ==
    /\ bucket[k] \in [attempts : Nat, expires : Nat]
    /\ bucket[k].attempts <= Limit(k) /\ bucket[k].expires % Second = 0
    /\ place[k] \in [Attempts -> Nat]

LEMMA TakesType ==
    ASSUME RateTypeOK, NEW a \in Attempts, NEW k \in Keys, Takes(k, a)
    PROVE  RowType(k)'
<1> DEFINE t == Truncated(started[a])
<1>1. RowType(k) /\ started[a] \in Nat
  BY DEF RateTypeOK, RowType
<1>2. t \in Nat /\ t % Second = 0
  BY <1>1, TruncatedProperties
<1> HIDE DEF t
<1>3. (t + Window) % Second = 0
  BY <1>2, RateAssumption, SumOfMultiples
<1>4. bucket'[k] \in [attempts : Nat, expires : Nat]
  BY DEF Takes
<1>5. place'[k] \in [Attempts -> Nat]
  BY <1>1, <1>4 DEF Takes, RowType
<1>6. /\ bucket'[k].attempts <= Limit(k)
      /\ bucket'[k].expires = bucket[k].expires \/ bucket'[k].expires = t + Window
  BY <1>1, LimitPositive DEF Takes, RowType, t
<1>7. bucket'[k].expires % Second = 0
  BY <1>1, <1>3, <1>6 DEF RowType
<1>8. QED
  BY <1>4, <1>5, <1>6, <1>7 DEF RowType, Limit

LEMMA StepType == RateTypeOK /\ [RateNext]_rateVars => RateTypeOK'
<1> SUFFICES ASSUME RateTypeOK, [RateNext]_rateVars
             PROVE  RateTypeOK'
  OBVIOUS
<1>1. \A k \in Keys : RowType(k)
  BY DEF RateTypeOK, RowType
<1>2. ASSUME NEW k \in Keys, Kept(k)
      PROVE  RowType(k)'
  BY <1>1, <1>2 DEF Kept, RowType, Limit
<1>3. ASSUME NEW a \in Attempts, Start(a)
      PROVE  RateTypeOK'
  BY <1>3 DEF Start, RateTypeOK, Limit
<1>4. ASSUME NEW a \in Attempts, Consume(a)
      PROVE  RateTypeOK'
  <2>1. \A k \in Keys : RowType(k)'
    BY <1>2, <1>4, ConsumeChanges, TakesType
  <2>2. \A k \in Keys : bucket'[k] \in [attempts : Nat, expires : Nat] /\ place'[k] \in [Attempts -> Nat]
    BY <2>1 DEF RowType
  <2>3. /\ bucket' \in [Keys -> [attempts : Nat, expires : Nat]]
        /\ place' \in [Keys -> [Attempts -> Nat]]
    BY <1>4, <2>2 DEF Consume
  <2>4. /\ stage' \in [Attempts -> {"idle", "started", "verifying", "verified",
                                    "failed", "refused", "done"}]
        /\ now' = now /\ started' = started /\ overtaken' = overtaken
    <3>1. stage' = [stage EXCEPT ![a] = stage'[a]] /\ stage'[a] \in {"verifying", "refused"}
      BY <1>4 DEF Consume, RateTypeOK
    <3>2. QED
      BY <1>4, <3>1 DEF Consume, RateTypeOK
  <2>5. QED
    BY <2>1, <2>3, <2>4 DEF RateTypeOK, RowType, Limit
<1>5. ASSUME NEW a \in Attempts, NEW verdict \in {"verified", "failed"}, Verify(a, verdict)
      PROVE  RateTypeOK'
  BY <1>5 DEF Verify, RateTypeOK, Limit
<1>6. ASSUME NEW a \in Attempts, Release(a)
      PROVE  RateTypeOK'
  <2>1. ASSUME NEW k \in Keys, GivesBack(k, a)
        PROVE  RowType(k)'
    <3>1. /\ RowType(k)
          /\ bucket'[k] \in [attempts : Nat, expires : Nat]
          /\ bucket'[k].expires = bucket[k].expires
          /\ bucket'[k].attempts <= bucket[k].attempts
          /\ place'[k] \in [Attempts -> Nat]
      BY <1>1, <2>1 DEF GivesBack, RowType
    <3>2. bucket'[k].attempts <= Limit(k)
      BY <3>1, LimitPositive DEF RowType
    <3>3. QED
      BY <3>1, <3>2 DEF RowType, Limit
  <2>2. \A k \in Keys : RowType(k)'
    BY <1>2, <1>6, <2>1, ReleaseChanges
  <2>3. \A k \in Keys : bucket'[k] \in [attempts : Nat, expires : Nat] /\ place'[k] \in [Attempts -> Nat]
    BY <2>2 DEF RowType
  <2>4. /\ bucket' \in [Keys -> [attempts : Nat, expires : Nat]]
        /\ place' \in [Keys -> [Attempts -> Nat]]
    BY <1>6, <2>3 DEF Release
  <2>5. /\ stage' \in [Attempts -> {"idle", "started", "verifying", "verified",
                                    "failed", "refused", "done"}]
        /\ now' = now /\ started' = started /\ overtaken' = overtaken
    BY <1>6 DEF Release, RateTypeOK
  <2>6. QED
    BY <2>2, <2>4, <2>5 DEF RateTypeOK, RowType, Limit
<1>7. CASE Purge
  <2>1. /\ NoBucket \in [attempts : Nat, expires : Nat]
        /\ NoBucket.attempts = 0 /\ NoBucket.expires = 0
    BY DEF NoBucket
  <2>2. 0 % Second = 0
    BY RateAssumption
  <2>3. ASSUME NEW k \in Keys, Purges(k)
        PROVE  RowType(k)'
    <3>1. /\ bucket'[k] = NoBucket
          /\ place'[k] \in [Attempts -> Nat]
      BY <1>1, <2>3 DEF Purges, RowType
    <3>2. bucket'[k].attempts <= Limit(k) /\ bucket'[k].expires % Second = 0
      BY <2>1, <2>2, <3>1, LimitPositive
    <3>3. QED
      BY <2>1, <3>1, <3>2 DEF RowType, Limit
  <2>4. \A k \in Keys : RowType(k)'
    BY <1>2, <1>7, <2>3, PurgeChanges
  <2>5. \A k \in Keys : bucket'[k] \in [attempts : Nat, expires : Nat]
    BY <2>4 DEF RowType
  <2>6. /\ bucket' \in [Keys -> [attempts : Nat, expires : Nat]]
        /\ UNCHANGED <<now, stage, started, place>> /\ overtaken' \subseteq Keys
    BY <1>7, <2>5, PurgeChanges DEF Purge
  <2>7. QED
    BY <2>4, <2>6 DEF RateTypeOK, RowType, Limit
<1>8. CASE Tick
  <2>1. now' = now + 1 /\ now' \in 0..MaxTime /\ UNCHANGED <<bucket, stage, started, place, overtaken>>
    BY <1>8, RateAssumption DEF Tick, RateTypeOK
  <2>2. \A a \in Attempts : started[a] \in 0..now'
    BY <2>1 DEF RateTypeOK
  <2>3. QED
    BY <2>1, <2>2 DEF RateTypeOK, Limit
<1>9. CASE UNCHANGED rateVars
  BY <1>9 DEF rateVars, RateTypeOK, Limit
<1>10. QED
  BY <1>3, <1>4, <1>5, <1>6, <1>7, <1>8, <1>9 DEF RateNext

LEMMA InitType == RateInit => RateTypeOK
<1> SUFFICES ASSUME RateInit PROVE RateTypeOK
  OBVIOUS
<1>1. 0 % Second = 0
  BY RateAssumption
<1>2. /\ NoBucket \in [attempts : Nat, expires : Nat]
      /\ NoBucket.attempts = 0 /\ NoBucket.expires = 0
  BY DEF NoBucket
<1>3. bucket = [k \in Keys |-> NoBucket] /\ now = 0
  BY DEF RateInit
<1>4. \A k \in Keys : bucket[k].attempts <= Limit(k) /\ bucket[k].expires % Second = 0
  BY <1>1, <1>2, <1>3, LimitPositive
<1>5. bucket \in [Keys -> [attempts : Nat, expires : Nat]]
  BY <1>2, <1>3
<1>6. QED
  BY <1>3, <1>4, <1>5, RateAssumption DEF RateInit, RateTypeOK

\* The types, and that no bucket ever counts beyond its limit or ends within
\* a second, with maintenance and any delay together.
THEOREM RateTypeCorrect == RateSpec => []RateTypeOK
BY InitType, StepType, PTL DEF RateSpec
-----------------------------------------------------------------------------
(* The inductive invariant.                                                *)

Holders(k, e) == {a \in Attempts : place[k][a] = e}

Apart(d, e) == d = e \/ d + Window <= e \/ e + Window <= d

\* An attempt's place in a window of k, and how that window relates to the
\* attempt and to the row.
PlaceInv(k, a) ==
    LET e == place[k][a] IN
    /\ e % Second = 0
    /\ e # 0 => /\ started[a] < e /\ e <= started[a] + MaxDelay + Window
                /\ stage[a] \notin {"idle", "started"} /\ k \in KeysOf(a)
    /\ bucket[k].expires # 0 => e = bucket[k].expires \/ e + Window <= bucket[k].expires
    /\ stage[a] \in {"verifying", "verified", "failed"} /\ k \in KeysOf(a) => e # 0
    /\ stage[a] = "done" /\ e # 0 /\ e = bucket[k].expires => started[a] + Window < e

\* The row of k counts the attempts with a place in its window; the windows
\* that ended were limited as well, and none overlaps another.
KeyInv(k) ==
    /\ bucket[k].expires = 0 => bucket[k].attempts = 0
    /\ bucket[k].expires # 0 => Window <= bucket[k].expires
    /\ bucket[k].expires <= now + Window
    /\ \A a, b \in Attempts :
          place[k][a] # 0 /\ place[k][b] # 0 => Apart(place[k][a], place[k][b])
    /\ \A e \in Nat \ {0} : IsFiniteSet(Holders(k, e)) /\ Cardinality(Holders(k, e)) <= Limit(k)
    /\ Cardinality(Counted(k)) = bucket[k].attempts

\* While k has no row, its windows have ended for all who are yet to reserve.
EndedInv(k) ==
    bucket[k].expires = 0 =>
      /\ \A a \in Attempts : place[k][a] <= now
      /\ \A a, b \in Attempts :
            stage[b] = "started" /\ k \in KeysOf(b) => place[k][a] <= started[b]

\* An attempt reserves in time.
DelayInv == \A a \in Attempts : stage[a] = "started" => now <= started[a] + MaxDelay

\* Everything known of one key.
RowInv(k) == KeyInv(k) /\ EndedInv(k) /\ \A a \in Attempts : PlaceInv(k, a)

RateInv ==
    /\ RateTypeOK
    /\ DelayInv
    /\ \A k \in Keys \ overtaken : RowInv(k)
-----------------------------------------------------------------------------
(* One key, one kind of change.                                            *)

\* What the steps may do to the attempts that are yet to reserve.
Waiting ==
    \A b \in Attempts : stage'[b] = "started" =>
      started'[b] = now \/ (stage[b] = "started" /\ started'[b] = started[b])

LEMMA EndedKept ==
    ASSUME RateTypeOK, RateTypeOK', NEW k \in Keys, EndedInv(k), Kept(k), now <= now', Waiting
    PROVE  EndedInv(k)'
<1>1. /\ now \in Nat /\ now' \in Nat /\ \A a \in Attempts : place[k][a] \in Nat
      /\ place'[k] = place[k] /\ bucket'[k] = bucket[k]
  BY DEF RateTypeOK, Kept
<1> SUFFICES ASSUME bucket[k].expires = 0, NEW a \in Attempts
             PROVE  /\ place[k][a] <= now'
                    /\ \A b \in Attempts :
                          stage'[b] = "started" /\ k \in KeysOf(b) => place[k][a] <= started'[b]
  BY <1>1 DEF EndedInv, KeysOf
<1>2. place[k][a] <= now'
  BY <1>1 DEF EndedInv
<1>3. ASSUME NEW b \in Attempts, stage'[b] = "started", k \in KeysOf(b)
      PROVE  place[k][a] <= started'[b]
  BY <1>1, <1>3 DEF EndedInv, Waiting
<1>4. QED
  BY <1>2, <1>3

LEMMA KeyKept ==
    ASSUME RateTypeOK, RateTypeOK', NEW k \in Keys, KeyInv(k), Kept(k), now <= now'
    PROVE  KeyInv(k)'
<1>1. now \in Nat /\ now' \in Nat /\ Window \in Nat /\ bucket[k].expires \in Nat
  BY RateAssumption DEF RateTypeOK
<1>2. /\ \A e : Holders(k, e)' = Holders(k, e)
      /\ Counted(k)' = Counted(k)
  BY DEF Kept, Holders, Counted
<1>3. QED
  BY <1>1, <1>2 DEF KeyInv, Kept, Apart, Limit

LEMMA PlaceKept ==
    ASSUME RateTypeOK, RateTypeOK', NEW k \in Keys, NEW a \in Attempts,
           PlaceInv(k, a), Kept(k), now <= now',
           started'[a] = started[a], stage'[a] = stage[a]
    PROVE  PlaceInv(k, a)'
<1>1. now \in Nat /\ now' \in Nat /\ place[k][a] \in Nat
  BY DEF RateTypeOK
<1>2. place'[k][a] = place[k][a] /\ bucket'[k] = bucket[k]
  BY DEF Kept
<1>3. QED
  BY <1>1, <1>2 DEF PlaceInv, KeysOf

\* What a reservation finds: the window it gets ends after it and after all
\* others, or is the current one.
LEMMA TakenWindow ==
    ASSUME RateInv, NEW a \in Attempts, NEW k \in Keys \ overtaken, stage[a] = "started", Takes(k, a)
    PROVE  LET e == bucket'[k].expires IN
           /\ e \in Nat /\ e % Second = 0 /\ Window <= e
           /\ started[a] < e /\ e <= started[a] + MaxDelay + Window /\ e <= now + Window
           /\ place[k][a] = 0
           /\ \A b \in Attempts : place[k][b] = e \/ place[k][b] + Window <= e
           /\ \/ bucket[k].expires = e /\ bucket'[k].attempts = bucket[k].attempts + 1
                 /\ bucket[k].attempts < Limit(k)
              \/ bucket'[k].attempts = 1 /\ \A b \in Attempts : place[k][b] # e
<1> DEFINE t == Truncated(started[a])
           e == bucket'[k].expires
<1>1. /\ RateTypeOK /\ KeyInv(k) /\ EndedInv(k)
      /\ \A b \in Attempts : PlaceInv(k, b)
      /\ now <= started[a] + MaxDelay
  BY DEF RateInv, RowInv, DelayInv
<1>2. /\ now \in Nat /\ started[a] \in Nat /\ started[a] <= now
      /\ bucket[k].expires \in Nat /\ bucket[k].attempts \in Nat
      /\ bucket[k].expires % Second = 0
      /\ \A b \in Attempts : place[k][b] \in Nat
      /\ Window \in Nat /\ Window > 0 /\ MaxDelay \in Nat
  BY <1>1, RateAssumption DEF RateTypeOK
<1>3. t \in Nat /\ t <= started[a]
  BY <1>2, TruncatedProperties
<1>4. \A d \in Nat : d % Second = 0 /\ d <= started[a] => d <= t
  BY <1>2, LastWholeSecond
<1> HIDE DEF t
<1>5. e \in Nat /\ e % Second = 0
  BY <1>1, TakesType DEF RowType
<1>6. place[k][a] = 0
  BY <1>1 DEF PlaceInv
<1>7. CASE /\ t < bucket[k].expires /\ bucket[k].attempts < Limit(k)
           /\ e = bucket[k].expires /\ bucket'[k].attempts = bucket[k].attempts + 1
  <2>1. \A b \in Attempts : place[k][b] = e \/ place[k][b] + Window <= e
    BY <1>1, <1>2, <1>3, <1>7 DEF PlaceInv
  <2>2. Window <= e /\ e <= now + Window
    BY <1>1, <1>2, <1>3, <1>7 DEF KeyInv
  <2>3. started[a] < e
    BY <1>2, <1>3, <1>4, <1>5, <1>7
  <2>4. e <= started[a] + MaxDelay + Window
    BY <1>1, <1>2, <1>5, <2>2
  <2>5. QED
    BY <1>5, <1>6, <1>7, <2>1, <2>2, <2>3, <2>4
<1>8. CASE bucket[k].expires <= t /\ e = t + Window /\ bucket'[k].attempts = 1
  <2>1. ASSUME NEW b \in Attempts
        PROVE  place[k][b] <= t
    <3>1. CASE bucket[k].expires # 0
      BY <1>1, <1>2, <1>3, <1>8, <3>1 DEF PlaceInv
    <3>2. CASE bucket[k].expires = 0
      <4>1. place[k][b] <= started[a]
        BY <1>1, <3>2 DEF EndedInv, Takes
      <4>2. place[k][b] % Second = 0
        BY <1>1 DEF PlaceInv
      <4>3. QED
        BY <1>2, <1>4, <4>1, <4>2
    <3>3. QED
      BY <3>1, <3>2
  <2>2. \A b \in Attempts : place[k][b] + Window <= e /\ place[k][b] # e
    BY <1>2, <1>3, <1>8, <2>1
  <2>3. Window <= e /\ e <= now + Window /\ e <= started[a] + MaxDelay + Window
    BY <1>2, <1>3, <1>8
  <2>4. started[a] < e
    BY <1>2, <1>3, <1>4, <1>5, <1>8
  <2>5. QED
    BY <1>5, <1>6, <1>8, <2>2, <2>3, <2>4
<1>9. QED
  BY <1>7, <1>8 DEF Takes, t
LEMMA TakesKeepsKey ==
    ASSUME RateInv, RateTypeOK', NEW a \in Attempts, NEW k \in Keys \ overtaken, stage[a] = "started",
           Takes(k, a), now' = now
    PROVE  KeyInv(k)'
<1>0. PICK e \in Nat : e = bucket'[k].expires
  BY TakenWindow
<1>1. /\ e \in Nat /\ Window <= e /\ e <= now + Window /\ place[k][a] = 0
      /\ \A b \in Attempts : place[k][b] = e \/ place[k][b] + Window <= e
      /\ \/ bucket[k].expires = e /\ bucket'[k].attempts = bucket[k].attempts + 1
            /\ bucket[k].attempts < Limit(k)
         \/ bucket'[k].attempts = 1 /\ \A b \in Attempts : place[k][b] # e
  BY <1>0, TakenWindow
<1>2. /\ place'[k] = [place[k] EXCEPT ![a] = e]
      /\ place[k] \in [Attempts -> Nat] /\ bucket[k].attempts \in Nat
      /\ Window \in Nat \ {0}
  BY <1>0, RateAssumption DEF Takes, RateInv, RateTypeOK
<1>3. KeyInv(k)
  BY DEF RateInv, RowInv
<1>4. /\ e # 0 /\ a \notin Holders(k, e)
      /\ Holders(k, e)' = Holders(k, e) \cup {a}
      /\ \A d \in Nat \ {0, e} : Holders(k, d)' = Holders(k, d)
  BY <1>1, <1>2 DEF Holders
<1>5. /\ IsFiniteSet(Holders(k, e)) /\ Cardinality(Holders(k, e)) \in Nat
      /\ Cardinality(Holders(k, e)) + 1 = bucket'[k].attempts
      /\ Cardinality(Holders(k, e)) + 1 <= Limit(k)
  <2>1. IsFiniteSet(Holders(k, e)) /\ Cardinality(Holders(k, e)) \in Nat
    BY <1>1, <1>3, <1>4, FS_CardinalityType DEF KeyInv
  <2>2. CASE bucket[k].expires = e /\ bucket'[k].attempts = bucket[k].attempts + 1
             /\ bucket[k].attempts < Limit(k)
    <3>1. Counted(k) = Holders(k, e)
      BY <1>4, <2>2 DEF Counted, Holders
    <3>2. QED
      BY <1>2, <1>3, <2>1, <2>2, <3>1, LimitPositive DEF KeyInv
  <2>3. CASE bucket'[k].attempts = 1 /\ \A b \in Attempts : place[k][b] # e
    <3>1. Holders(k, e) = {}
      BY <2>3 DEF Holders
    <3>2. Cardinality(Holders(k, e)) = 0
      BY <3>1, FS_EmptySet
    <3>3. QED
      BY <2>1, <2>3, <3>2, LimitPositive
  <2>4. QED
    BY <1>1, <2>2, <2>3
<1>6. /\ IsFiniteSet(Holders(k, e)') /\ Cardinality(Holders(k, e)') = bucket'[k].attempts
      /\ Cardinality(Holders(k, e)') <= Limit(k)
  <2>1. /\ IsFiniteSet(Holders(k, e) \cup {a})
        /\ Cardinality(Holders(k, e) \cup {a}) = Cardinality(Holders(k, e)) + 1
    BY <1>4, <1>5, FS_AddElement
  <2>2. QED
    BY <1>4, <1>5, <2>1
<1>7. Counted(k)' = Holders(k, e)'
  <2>1. Counted(k)' = {b \in Attempts : place'[k][b] # 0 /\ place'[k][b] = e}
    BY <1>0 DEF Counted
  <2>2. Holders(k, e)' = {b \in Attempts : place'[k][b] = e}
    BY <1>2, <1>4 DEF Holders
  <2>3. QED
    BY <1>4, <2>1, <2>2
<1>8. Cardinality(Counted(k)') = bucket'[k].attempts
  BY <1>6, <1>7
<1>9. ASSUME NEW d \in Nat \ {0}
      PROVE  IsFiniteSet(Holders(k, d)') /\ Cardinality(Holders(k, d)') <= Limit(k)
  <2>1. CASE d = e
    BY <1>6, <2>1
  <2>2. CASE d # e
    BY <1>3, <1>4, <2>2 DEF KeyInv
  <2>3. QED
    BY <2>1, <2>2
<1>10. ASSUME NEW b \in Attempts, NEW c \in Attempts, place'[k][b] # 0, place'[k][c] # 0
       PROVE  Apart(place'[k][b], place'[k][c])
  <2>1. CASE b # a /\ c # a
    <3>1. place'[k][b] = place[k][b] /\ place'[k][c] = place[k][c]
      BY <1>2, <2>1
    <3>2. QED
      BY <1>3, <1>10, <3>1 DEF KeyInv
  <2>2. CASE b = a \/ c = a
    <3>1. \A x \in Attempts : place'[k][x] = e \/ place'[k][x] + Window <= e
      BY <1>1, <1>2
    <3>2. place'[k][b] = e \/ place'[k][c] = e
      BY <1>2, <2>2
    <3>3. QED
      BY <3>1, <3>2 DEF Apart
  <2>3. QED
    BY <2>1, <2>2
<1>11. QED
  <2>1. bucket'[k].expires = e /\ now' = now
    BY <1>0
  <2>2. \A d \in Nat \ {0} :
           IsFiniteSet(Holders(k, d)') /\ Cardinality(Holders(k, d)') <= Limit(k)
    BY <1>9
  <2>3. \A b, c \in Attempts :
           place'[k][b] # 0 /\ place'[k][c] # 0 => Apart(place'[k][b], place'[k][c])
    BY <1>10
  <2>4. QED
    BY <1>1, <1>4, <1>8, <2>1, <2>2, <2>3 DEF KeyInv, Limit, Apart, Holders

LEMMA TakesKeepsPlaces ==
    ASSUME RateInv, RateTypeOK', NEW a \in Attempts, NEW k \in Keys \ overtaken, stage[a] = "started",
           Takes(k, a), now' = now, started' = started,
           stage'[a] \in {"verifying", "refused"},
           \A b \in Attempts \ {a} : stage'[b] = stage[b], NEW b \in Attempts
    PROVE  PlaceInv(k, b)'
<1> DEFINE e == bucket'[k].expires
<1>1. /\ e \in Nat /\ e % Second = 0 /\ Window <= e
      /\ started[a] < e /\ e <= started[a] + MaxDelay + Window
      /\ place[k][b] = e \/ place[k][b] + Window <= e
      /\ bucket[k].expires = e \/ place[k][b] # e
  BY TakenWindow
<1>2. /\ place'[k] = [place[k] EXCEPT ![a] = e]
      /\ place[k] \in [Attempts -> Nat] /\ Window \in Nat \ {0}
  BY RateAssumption DEF Takes, RateInv, RateTypeOK
<1> HIDE DEF e
<1>3. e # 0
  BY <1>1, <1>2
<1>4. PlaceInv(k, b)
  BY DEF RateInv, RowInv
<1>5. bucket'[k].expires = e
  BY DEF e
<1>6. CASE b = a
  <2>1. place'[k][b] = e
    BY <1>2, <1>6
  <2>2. QED
    BY <1>1, <1>2, <1>3, <1>5, <1>6, <2>1 DEF PlaceInv, KeysOf, Takes
<1>7. CASE b # a
  <2>1. place'[k][b] = place[k][b] /\ stage'[b] = stage[b]
    BY <1>2, <1>7
  <2>2. QED
    BY <1>1, <1>2, <1>3, <1>4, <1>5, <2>1 DEF PlaceInv, KeysOf
<1>8. QED
  BY <1>6, <1>7

\* What a release gives back is the attempt's own place, in the current window.
LEMMA GivenBackWindow ==
    ASSUME RateInv, NEW a \in Attempts, NEW k \in Keys \ overtaken, stage[a] = "verified", GivesBack(k, a)
    PROVE  /\ place[k][a] = bucket[k].expires /\ place[k][a] # 0
<1>1. /\ RateTypeOK /\ KeyInv(k) /\ PlaceInv(k, a)
      /\ k \in KeysOf(a) /\ bucket[k] # NoBucket
      /\ bucket[k].expires <= started[a] + Window
  BY DEF RateInv, RowInv, GivesBack
<1>2. /\ bucket[k] \in [attempts : Nat, expires : Nat]
      /\ place[k][a] \in Nat /\ started[a] \in Nat /\ Window \in Nat
  BY <1>1, RateAssumption DEF RateTypeOK
<1>3. place[k][a] # 0 /\ started[a] < place[k][a]
  BY <1>1 DEF PlaceInv
<1>4. bucket[k].expires # 0
  BY <1>1, <1>2 DEF KeyInv, NoBucket
<1>5. place[k][a] = bucket[k].expires \/ place[k][a] + Window <= bucket[k].expires
  BY <1>1, <1>4 DEF PlaceInv
<1>6. QED
  BY <1>1, <1>2, <1>3, <1>5

LEMMA GivesBackKeepsKey ==
    ASSUME RateInv, RateTypeOK', NEW a \in Attempts, NEW k \in Keys \ overtaken, stage[a] = "verified",
           GivesBack(k, a), now' = now
    PROVE  KeyInv(k)'
<1>0. PICK e \in Nat : e = bucket[k].expires
  BY DEF RateInv, RowInv, RateTypeOK
<1>1. /\ place[k][a] = e /\ e # 0 /\ KeyInv(k) /\ e \in Nat
      /\ place[k] \in [Attempts -> Nat] /\ bucket[k].attempts \in Nat
      /\ place'[k] = [place[k] EXCEPT ![a] = 0] /\ bucket'[k].expires = e
      /\ bucket'[k].attempts = IF bucket[k].attempts > 0 THEN bucket[k].attempts - 1 ELSE 0
  <2>1. /\ place[k][a] = e /\ e # 0
    BY <1>0, GivenBackWindow
  <2>2. /\ KeyInv(k) /\ place[k] \in [Attempts -> Nat]
        /\ bucket[k] \in [attempts : Nat, expires : Nat]
    BY DEF RateInv, RowInv, RateTypeOK
  <2>3. bucket[k].attempts \in Nat
    BY <2>2
  <2>4. /\ place'[k] = [place[k] EXCEPT ![a] = 0] /\ bucket'[k].expires = e
        /\ bucket'[k].attempts = IF bucket[k].attempts > 0 THEN bucket[k].attempts - 1 ELSE 0
    BY <1>0, ZenonT(30) DEF GivesBack
  <2>5. QED
    BY <1>0, <2>1, <2>2, <2>3, <2>4
<1>2. /\ Counted(k) = Holders(k, e) /\ Counted(k)' = Holders(k, e)'
      /\ a \in Holders(k, e) /\ Holders(k, e)' = Holders(k, e) \ {a}
      /\ \A d \in Nat \ {0, e} : Holders(k, d)' = Holders(k, d)
  <2>1. Counted(k) = Holders(k, e) /\ Counted(k)' = Holders(k, e)'
    BY <1>0, <1>1 DEF Counted, Holders
  <2>2. a \in Holders(k, e)
    BY <1>1 DEF Holders
  <2>3. Holders(k, e)' = Holders(k, e) \ {a}
    BY <1>1 DEF Holders
  <2>4. ASSUME NEW d \in Nat \ {0, e} PROVE Holders(k, d)' = Holders(k, d)
    BY <1>1 DEF Holders
  <2>5. QED
    BY <2>1, <2>2, <2>3, <2>4
<1>3. /\ IsFiniteSet(Holders(k, e)) /\ Cardinality(Holders(k, e)) = bucket[k].attempts
      /\ Cardinality(Holders(k, e)) <= Limit(k)
  BY <1>1, <1>2 DEF KeyInv
<1>4. bucket[k].attempts > 0
  <2>1. Cardinality(Holders(k, e)) # 0
    BY <1>2, <1>3, FS_EmptySet
  <2>2. QED
    BY <1>1, <1>3, <2>1
<1>5. /\ IsFiniteSet(Holders(k, e)') /\ Cardinality(Holders(k, e)') = bucket'[k].attempts
      /\ Cardinality(Holders(k, e)') <= Limit(k)
  <2>1. /\ IsFiniteSet(Holders(k, e) \ {a})
        /\ Cardinality(Holders(k, e) \ {a}) = Cardinality(Holders(k, e)) - 1
    BY <1>2, <1>3, FS_RemoveElement
  <2>2. bucket'[k].attempts = bucket[k].attempts - 1
    BY <1>1, <1>4
  <2>3. QED
    BY <1>1, <1>2, <1>3, <2>1, <2>2, LimitPositive
<1>6. \A d \in Nat \ {0} :
         IsFiniteSet(Holders(k, d)') /\ Cardinality(Holders(k, d)') <= Limit(k)
  BY <1>1, <1>2, <1>5 DEF KeyInv
<1>7. \A b, c \in Attempts :
         place'[k][b] # 0 /\ place'[k][c] # 0 => Apart(place'[k][b], place'[k][c])
  BY <1>1 DEF KeyInv
<1>8. Window <= e /\ e <= now' + Window
  BY <1>0, <1>1 DEF KeyInv
<1>9. QED
  BY <1>1, <1>2, <1>5, <1>6, <1>7, <1>8 DEF KeyInv, Limit, Apart, Holders

LEMMA GivesBackKeepsPlaces ==
    ASSUME RateInv, RateTypeOK', NEW a \in Attempts, NEW k \in Keys \ overtaken, stage[a] = "verified",
           GivesBack(k, a), now' = now, started' = started,
           stage'[a] = "done",
           \A b \in Attempts \ {a} : stage'[b] = stage[b], NEW b \in Attempts
    PROVE  PlaceInv(k, b)'
<1>1. /\ KeyInv(k) /\ PlaceInv(k, b)
      /\ bucket[k].expires # 0 /\ bucket'[k].expires = bucket[k].expires
      /\ place'[k] = [place[k] EXCEPT ![a] = 0] /\ place[k] \in [Attempts -> Nat]
  <2>1. place[k][a] = bucket[k].expires /\ place[k][a] # 0
    BY GivenBackWindow
  <2>2. QED
    BY <2>1 DEF RateInv, RowInv, RateTypeOK, GivesBack
<1>2. CASE b = a
  <2>1. place'[k][b] = 0
    BY <1>1, <1>2
  <2>2. Window <= bucket'[k].expires
    BY <1>1 DEF KeyInv
  <2>3. 0 % Second = 0
    BY RateAssumption
  <2>4. 0 + Window = Window
    BY RateAssumption
  <2>5. QED
    BY <1>1, <1>2, <2>1, <2>2, <2>3, <2>4 DEF PlaceInv
<1>3. CASE b # a
  <2>1. place'[k][b] = place[k][b] /\ stage'[b] = stage[b]
    BY <1>1, <1>3
  <2>2. QED
    BY <1>1, <2>1 DEF PlaceInv, KeysOf
<1>4. QED
  BY <1>2, <1>3

LEMMA PurgesKeeps ==
    ASSUME RateInv, RateTypeOK', NEW k \in Keys \ overtaken', k \notin overtaken, Purges(k),
           UNCHANGED <<now, stage, started>>
    PROVE  RowInv(k)'
<1>1. /\ KeyInv(k) /\ EndedInv(k) /\ \A b \in Attempts : PlaceInv(k, b)
      /\ bucket[k].expires \in Nat /\ bucket[k].expires <= now /\ now \in Nat
      /\ place[k] \in [Attempts -> Nat] /\ place'[k] = place[k]
      /\ Window \in Nat /\ ~UnderWay(k)
      /\ \A b \in Attempts : started[b] \in Nat
  BY RateAssumption DEF RateInv, RowInv, RateTypeOK, Purges
<1>2. bucket'[k].expires = 0 /\ bucket'[k].attempts = 0
  BY DEF Purges, NoBucket
<1>3. ASSUME NEW b \in Attempts
      PROVE  PlaceInv(k, b)'
  BY <1>1, <1>2 DEF PlaceInv, KeysOf
<1>4. /\ Counted(k)' = {}
      /\ \A d : Holders(k, d)' = Holders(k, d)
  BY <1>1, <1>2 DEF Counted, Holders
<1>5. Cardinality(Counted(k)') = 0
  BY <1>4, FS_EmptySet
<1>6. KeyInv(k)'
  BY <1>1, <1>2, <1>4, <1>5 DEF KeyInv, Apart, Limit
<1>7. EndedInv(k)'
  <2>1. CASE bucket[k].expires = 0
    BY <1>1, <2>1 DEF EndedInv, KeysOf
  <2>2. CASE bucket[k].expires # 0
    <3>1. \A a \in Attempts : place[k][a] <= bucket[k].expires
      BY <1>1, <2>2 DEF PlaceInv
    <3>2. \A b \in Attempts :
             stage[b] = "started" /\ k \in KeysOf(b) => bucket[k].expires <= started[b]
      BY <1>1 DEF UnderWay
    <3>3. QED
      BY <1>1, <3>1, <3>2 DEF EndedInv, KeysOf
  <2>3. QED
    BY <2>1, <2>2
<1>8. QED
  BY <1>3, <1>6, <1>7 DEF RowInv
-----------------------------------------------------------------------------
(* Every step keeps the invariant.                                         *)

LEMMA InitInv == RateInit => RateInv
<1> SUFFICES ASSUME RateInit PROVE RateInv
  OBVIOUS
<1>1. RateTypeOK
  BY InitType
<1>2. /\ \A k \in Keys : bucket[k].attempts = 0 /\ bucket[k].expires = 0
      /\ \A k \in Keys : \A a \in Attempts : place[k][a] = 0
      /\ \A a \in Attempts : stage[a] = "idle"
      /\ now = 0
  BY DEF RateInit, NoBucket
<1>3. 0 % Second = 0 /\ Window \in Nat
  BY RateAssumption
<1>4. ASSUME NEW k \in Keys
      PROVE  RowInv(k)
  <2>1. Counted(k) = {} /\ \A e \in Nat \ {0} : Holders(k, e) = {}
    BY <1>2 DEF Counted, Holders
  <2>2. KeyInv(k)
    BY <1>2, <1>3, <2>1, FS_EmptySet, LimitPositive DEF KeyInv
  <2>3. EndedInv(k)
    BY <1>2 DEF EndedInv
  <2>4. \A a \in Attempts : PlaceInv(k, a)
    BY <1>2, <1>3 DEF PlaceInv
  <2>5. QED
    BY <2>2, <2>3, <2>4 DEF RowInv
<1>5. DelayInv
  BY <1>2 DEF DelayInv
<1>6. QED
  BY <1>1, <1>4, <1>5 DEF RateInv

\* A row that no attempt writes, beside attempts that keep their stage.
LEMMA RowKept ==
    ASSUME RateTypeOK, RateTypeOK', NEW k \in Keys, RowInv(k), Kept(k), now <= now',
           started' = started, stage' = stage
    PROVE  RowInv(k)'
<1>1. Waiting
  BY DEF Waiting
<1>2. QED
  BY <1>1, KeyKept, EndedKept, PlaceKept DEF RowInv

\* A row that is left alone, beside one attempt that moves on and whose place
\* in it suits its new stage.
LEMMA RowKeptBeside ==
    ASSUME RateTypeOK, RateTypeOK', NEW k \in Keys, RowInv(k), Kept(k), now' = now,
           NEW a \in Attempts, PlaceInv(k, a)',
           stage'[a] = "started" => started'[a] = now,
           \A b \in Attempts \ {a} : stage'[b] = stage[b] /\ started'[b] = started[b]
    PROVE  RowInv(k)'
<1>1. Waiting
  BY DEF Waiting
<1>2. now <= now'
  BY DEF RateTypeOK
<1>3. \A b \in Attempts \ {a} : PlaceInv(k, b)'
  BY <1>2, PlaceKept DEF RowInv
<1>4. QED
  BY <1>1, <1>2, <1>3, KeyKept, EndedKept DEF RowInv

\* An attempt whose step is not about the keys: all rows stay, and what its new
\* stage asks of its places holds.
LEMMA OneAttemptMoves ==
    ASSUME RateInv, RateTypeOK', NEW a \in Attempts,
           \A k \in Keys : Kept(k), UNCHANGED <<now, overtaken>>,
           \A b \in Attempts \ {a} : stage'[b] = stage[b] /\ started'[b] = started[b],
           \/ stage[a] = "idle" /\ stage'[a] = "started" /\ started'[a] = now
           \/ /\ stage[a] = "verifying" /\ stage'[a] \in {"verified", "failed"}
              /\ started'[a] = started[a]
    PROVE  RateInv'
<1>1. RateTypeOK /\ DelayInv /\ \A k \in Keys \ overtaken : RowInv(k)
  BY DEF RateInv
<1>2. ASSUME NEW k \in Keys \ overtaken
      PROVE  RowInv(k)'
  <2>1. /\ PlaceInv(k, a) /\ bucket'[k] = bucket[k] /\ place'[k][a] = place[k][a]
        /\ place[k][a] \in Nat
    BY <1>1 DEF RowInv, Kept, RateTypeOK
  <2>2. PlaceInv(k, a)'
    BY <2>1 DEF PlaceInv, KeysOf
  <2>3. QED
    BY <1>1, <2>2, RowKeptBeside
<1>3. DelayInv'
  <2>1. ASSUME NEW b \in Attempts, stage'[b] = "started"
        PROVE  now <= started'[b] + MaxDelay
    <3>1. CASE b = a
      BY <2>1, <3>1, <1>1, RateAssumption DEF RateTypeOK
    <3>2. CASE b # a
      BY <2>1, <3>2, <1>1 DEF DelayInv
    <3>3. QED
      BY <3>1, <3>2
  <2>2. QED
    BY <2>1 DEF DelayInv
<1>4. QED
  BY <1>2, <1>3 DEF RateInv

LEMMA StartInv == ASSUME RateInv, RateTypeOK', NEW a \in Attempts, Start(a) PROVE RateInv'
<1>1. \A k \in Keys : Kept(k)
  BY DEF Start, Kept
<1>2. /\ stage[a] = "idle" /\ stage'[a] = "started" /\ started'[a] = now
      /\ \A b \in Attempts \ {a} : stage'[b] = stage[b] /\ started'[b] = started[b]
      /\ UNCHANGED <<now, overtaken>>
  BY DEF Start, RateInv, RateTypeOK
<1>3. QED
  BY <1>1, <1>2, OneAttemptMoves

LEMMA VerifyInv ==
    ASSUME RateInv, RateTypeOK', NEW a \in Attempts, NEW verdict \in {"verified", "failed"},
           Verify(a, verdict)
    PROVE  RateInv'
<1>1. \A k \in Keys : Kept(k)
  BY DEF Verify, Kept
<1>2. /\ stage[a] = "verifying" /\ stage'[a] \in {"verified", "failed"}
      /\ started'[a] = started[a]
      /\ \A b \in Attempts \ {a} : stage'[b] = stage[b] /\ started'[b] = started[b]
      /\ UNCHANGED <<now, overtaken>>
  BY DEF Verify, RateInv, RateTypeOK
<1>3. QED
  BY <1>1, <1>2, OneAttemptMoves

LEMMA ConsumeInv == ASSUME RateInv, RateTypeOK', NEW a \in Attempts, Consume(a) PROVE RateInv'
<1>1. RateTypeOK /\ DelayInv /\ \A k \in Keys \ overtaken : RowInv(k)
  BY DEF RateInv
<1>2. /\ \A k \in Keys : Kept(k) \/ Takes(k, a)
      /\ stage'[a] = "verifying" => \A k \in KeysOf(a) : Takes(k, a)
      /\ stage'[a] \in {"verifying", "refused"} /\ stage[a] = "started"
      /\ \A b \in Attempts \ {a} : stage'[b] = stage[b]
      /\ now' = now /\ started' = started /\ overtaken' = overtaken
  BY <1>1, ConsumeChanges
<1>3. ASSUME NEW k \in Keys \ overtaken, Takes(k, a)
      PROVE  RowInv(k)'
  <2>1. KeyInv(k)' /\ \A b \in Attempts : PlaceInv(k, b)'
    BY <1>2, <1>3, TakesKeepsKey, TakesKeepsPlaces
  <2>2. bucket'[k].expires # 0
    <3>1. Window \in Nat \ {0} /\ bucket'[k].expires \in Nat
      BY RateAssumption DEF RateTypeOK
    <3>2. Window <= bucket'[k].expires
      BY <1>2, <1>3, TakenWindow
    <3>3. QED
      BY <3>1, <3>2
  <2>3. QED
    BY <2>1, <2>2 DEF RowInv, EndedInv
<1>4. ASSUME NEW k \in Keys \ overtaken, ~Takes(k, a)
      PROVE  RowInv(k)'
  <2>1. Kept(k) /\ ~(stage'[a] = "verifying" /\ k \in KeysOf(a))
    BY <1>2, <1>4
  <2>2. /\ PlaceInv(k, a) /\ bucket'[k] = bucket[k] /\ place'[k][a] = place[k][a]
        /\ place[k][a] = 0
    BY <1>1, <1>2, <2>1 DEF RowInv, Kept, PlaceInv
  <2>3. PlaceInv(k, a)'
    BY <1>2, <2>1, <2>2 DEF PlaceInv, KeysOf
  <2>4. QED
    BY <1>1, <1>2, <2>1, <2>3, RowKeptBeside
<1>5. DelayInv'
  BY <1>1, <1>2 DEF DelayInv
<1>6. QED
  BY <1>2, <1>3, <1>4, <1>5 DEF RateInv

LEMMA ReleaseInv == ASSUME RateInv, RateTypeOK', NEW a \in Attempts, Release(a) PROVE RateInv'
<1>1. RateTypeOK /\ DelayInv /\ \A k \in Keys \ overtaken : RowInv(k)
  BY DEF RateInv
<1>2. /\ \A k \in Keys : (Kept(k) /\ NotOwn(k, a)) \/ GivesBack(k, a)
      /\ stage[a] = "verified" /\ stage'[a] = "done"
      /\ \A b \in Attempts \ {a} : stage'[b] = stage[b]
      /\ now' = now /\ started' = started /\ overtaken' = overtaken
  BY <1>1, ReleaseChanges
<1>3. ASSUME NEW k \in Keys \ overtaken, GivesBack(k, a)
      PROVE  RowInv(k)'
  <2>1. KeyInv(k)' /\ \A b \in Attempts : PlaceInv(k, b)'
    BY <1>2, <1>3, GivesBackKeepsKey, GivesBackKeepsPlaces
  <2>2. bucket'[k].expires # 0
    BY <1>2, <1>3, GivenBackWindow DEF GivesBack
  <2>3. QED
    BY <2>1, <2>2 DEF RowInv, EndedInv
<1>4. ASSUME NEW k \in Keys \ overtaken, Kept(k), NotOwn(k, a)
      PROVE  RowInv(k)'
  <2>1. /\ PlaceInv(k, a) /\ bucket'[k] = bucket[k] /\ place'[k][a] = place[k][a]
        /\ place[k][a] \in Nat /\ bucket[k].expires \in Nat
        /\ NoBucket.expires = 0
    BY <1>1, <1>4 DEF RowInv, Kept, RateTypeOK, NoBucket
  <2>2. PlaceInv(k, a)'
    <3>1. CASE k \notin KeysOf(a)
      BY <1>2, <2>1, <3>1 DEF PlaceInv, KeysOf
    <3>2. CASE k \in KeysOf(a) /\ bucket[k].expires = 0
      BY <1>2, <2>1, <3>2 DEF PlaceInv, KeysOf
    <3>3. CASE /\ k \in KeysOf(a) /\ bucket[k].expires # 0
               /\ started[a] + Window < bucket[k].expires
      BY <1>2, <2>1, <3>3 DEF PlaceInv, KeysOf
    <3>4. QED
      <4>1. bucket[k].expires # 0 => bucket[k] # NoBucket
        BY <2>1
      <4>2. QED
        BY <1>4, <3>1, <3>2, <3>3, <4>1 DEF NotOwn
  <2>3. QED
    BY <1>1, <1>2, <1>4, <2>2, RowKeptBeside
<1>5. DelayInv'
  BY <1>1, <1>2 DEF DelayInv
<1>6. QED
  BY <1>2, <1>3, <1>4, <1>5 DEF RateInv

LEMMA PurgeInv == ASSUME RateInv, RateTypeOK', Purge PROVE RateInv'
<1>1. RateTypeOK /\ DelayInv /\ \A k \in Keys \ overtaken : RowInv(k)
  BY DEF RateInv
<1>2. /\ \A k \in Keys : Kept(k) \/ Purges(k)
      /\ overtaken \subseteq overtaken'
      /\ UNCHANGED <<now, stage, started>>
  BY <1>1, PurgeChanges
<1>3. ASSUME NEW k \in Keys \ overtaken'
      PROVE  RowInv(k)'
  <2>1. CASE Kept(k)
    <3>1. RowInv(k) /\ now <= now'
      BY <1>1, <1>2 DEF RateTypeOK
    <3>2. QED
      BY <1>1, <1>2, <2>1, <3>1, RowKept
  <2>2. CASE Purges(k)
    BY <1>2, <2>2, PurgesKeeps
  <2>3. QED
    BY <1>2, <2>1, <2>2
<1>4. Keys' = Keys
  BY DEF Keys
<1>5. DelayInv'
  BY <1>1, <1>2 DEF DelayInv
<1>6. QED
  BY <1>3, <1>4, <1>5 DEF RateInv

LEMMA TickInv == ASSUME RateInv, RateTypeOK', Tick PROVE RateInv'
<1>1. RateTypeOK /\ DelayInv /\ \A k \in Keys \ overtaken : RowInv(k)
  BY DEF RateInv
<1>2. /\ now' = now + 1 /\ UNCHANGED <<bucket, stage, started, place, overtaken>>
      /\ \A a \in Attempts : stage[a] = "started" => now - started[a] < MaxDelay
      /\ now <= now'
  BY <1>1 DEF Tick, RateTypeOK
<1>3. ASSUME NEW k \in Keys \ overtaken
      PROVE  RowInv(k)'
  <2>1. Kept(k)
    BY <1>2 DEF Kept
  <2>2. QED
    BY <1>1, <1>2, <2>1, RowKept
<1>4. DelayInv'
  BY <1>1, <1>2, RateAssumption DEF DelayInv, RateTypeOK
<1>5. QED
  BY <1>2, <1>3, <1>4 DEF RateInv

LEMMA StepInv == RateInv /\ [RateNext]_rateVars => RateInv'
<1> SUFFICES ASSUME RateInv, [RateNext]_rateVars
             PROVE  RateInv'
  OBVIOUS
<1>1. RateTypeOK'
  BY StepType DEF RateInv
<1>2. CASE UNCHANGED rateVars
  <2>1. /\ UNCHANGED <<now, stage, started, overtaken>> /\ \A k \in Keys : Kept(k)
        /\ RateTypeOK /\ now <= now' /\ DelayInv /\ \A k \in Keys \ overtaken : RowInv(k)
    BY <1>2 DEF rateVars, Kept, RateInv, RateTypeOK
  <2>2. ASSUME NEW k \in Keys \ overtaken
        PROVE  RowInv(k)'
    BY <1>1, <2>1, RowKept
  <2>3. DelayInv'
    BY <2>1 DEF DelayInv
  <2>4. QED
    BY <1>1, <2>1, <2>2, <2>3 DEF RateInv
<1>3. QED
  BY <1>1, <1>2, StartInv, ConsumeInv, VerifyInv, ReleaseInv, PurgeInv, TickInv DEF RateNext

THEOREM RateInvariant == RateSpec => []RateInv
BY InitInv, StepInv, PTL DEF RateSpec
-----------------------------------------------------------------------------
(* What follows.                                                           *)

\* With delays and maintenance in any mixture, and for every limit and window:
\* a bucket in which maintenance has overtaken no attempt counts every failure
\* of its window, whatever releases come late, and no success that was released
\* and whose second is not earlier than that of the window (security.py:196).
THEOREM ReleasesCountExactly == RateSpec => []ReleasesAreExact
<1>1. RateInv => ReleasesAreExact
  <2> SUFFICES ASSUME RateInv, NEW k \in Keys \ overtaken
               PROVE  /\ FailuresStayCounted(k)
                      /\ \A a \in Counted(k) :
                           stage[a] = "done" => Truncated(started[a]) + Window < bucket[k].expires
    BY DEF ReleasesAreExact
  <2>1. /\ RateTypeOK /\ KeyInv(k) /\ \A a \in Attempts : PlaceInv(k, a)
        /\ bucket[k].expires \in Nat /\ bucket[k].attempts \in Nat
    BY DEF RateInv, RowInv, RateTypeOK
  <2>2. IsFiniteSet(Counted(k)) /\ Cardinality(Counted(k)) = bucket[k].attempts
    <3>1. CASE bucket[k].expires = 0
      <4>1. Counted(k) = {}
        BY <3>1 DEF Counted
      <4>2. QED
        BY <2>1, <4>1, FS_EmptySet DEF KeyInv
    <3>2. CASE bucket[k].expires # 0
      <4>1. Counted(k) = Holders(k, bucket[k].expires)
        BY <3>2 DEF Counted, Holders
      <4>2. QED
        BY <2>1, <3>2, <4>1 DEF KeyInv
    <3>3. QED
      BY <3>1, <3>2
  <2>3. LET F == {a \in Counted(k) : stage[a] = "failed"}
        IN  IsFiniteSet(F) /\ Cardinality(F) <= Cardinality(Counted(k))
    <3> DEFINE F == {a \in Counted(k) : stage[a] = "failed"}
    <3>1. F \in SUBSET Counted(k)
      OBVIOUS
    <3> HIDE DEF F
    <3>2. IsFiniteSet(F) /\ Cardinality(F) <= Cardinality(Counted(k))
      BY <2>2, <3>1, FS_Subset
    <3>3. QED
      BY <3>2 DEF F
  <2>4. ASSUME NEW a \in Counted(k), stage[a] = "done"
        PROVE  Truncated(started[a]) + Window < bucket[k].expires
    <3>1. /\ a \in Attempts /\ place[k][a] # 0 /\ place[k][a] = bucket[k].expires
          /\ started[a] \in Nat /\ Window \in Nat
      BY <2>1, RateAssumption DEF Counted, RateTypeOK
    <3>2. started[a] + Window < bucket[k].expires
      BY <2>1, <2>4, <3>1 DEF PlaceInv
    <3>3. Truncated(started[a]) \in Nat /\ Truncated(started[a]) <= started[a]
      BY <3>1, TruncatedProperties
    <3>4. QED
      BY <2>1, <3>1, <3>2, <3>3
  <2>5. QED
    BY <2>2, <2>3, <2>4 DEF FailuresStayCounted
<1>2. QED
  BY <1>1, RateInvariant, PTL

\* A stretch as long as a window touches no more than two windows.
LEMMA TwoWindows ==
    ASSUME NEW t \in Nat, NEW x \in Nat, NEW y \in Nat, NEW z \in Nat, NEW w \in Nat,
           x > t, x < t + w + w, y > t, y < t + w + w, z > t, z < t + w + w,
           x = y \/ x + w <= y \/ y + w <= x,
           x = z \/ x + w <= z \/ z + w <= x,
           y = z \/ y + w <= z \/ z + w <= y
    PROVE  x = y \/ z = x \/ z = y
OBVIOUS

\* The failures and unanswered attempts of a pair in a stretch of time as long
\* as a window, less the delay, are two windows' worth at most
\* (security.py:150-158), unless maintenance has overtaken one of them: for every
\* limit, window and delay.
THEOREM FailuresStayBounded == RateSpec => []FailuresAreBounded
<1>1. RateInv => FailuresAreBounded
  <2> SUFFICES ASSUME RateInv, NEW p \in Pairs \ overtaken, NEW t \in 0..MaxTime
               PROVE  Cardinality({a \in Attempts :
                          /\ PairOf[a] = p
                          /\ stage[a] \in {"verifying", "failed"}
                          /\ t <= started[a] /\ started[a] + MaxDelay < t + Window})
                        <= 2 * PairLimit
    BY DEF FailuresAreBounded
  <2> DEFINE F == {a \in Attempts :
                     /\ PairOf[a] = p
                     /\ stage[a] \in {"verifying", "failed"}
                     /\ t <= started[a] /\ started[a] + MaxDelay < t + Window}
  <2>1. /\ p \in Keys /\ Limit(p) = PairLimit /\ PairLimit \in Nat \ {0}
        /\ Window \in Nat /\ t \in Nat
    BY RateAssumption DEF Keys, Limit
  <2>2. /\ RateTypeOK /\ KeyInv(p) /\ \A a \in Attempts : PlaceInv(p, a)
        /\ MaxDelay \in Nat
    BY <2>1, RateAssumption DEF RateInv, RowInv
  <2>3. ASSUME NEW a \in F
        PROVE  /\ a \in Attempts /\ place[p][a] \in Nat \ {0}
               /\ place[p][a] > t /\ place[p][a] < t + Window + Window
    <3>1. /\ a \in Attempts /\ p \in KeysOf(a) /\ stage[a] \in {"verifying", "failed"}
          /\ t <= started[a] /\ started[a] + MaxDelay < t + Window
      BY <2>3 DEF KeysOf
    <3>2. place[p][a] \in Nat /\ started[a] \in Nat
      BY <2>1, <2>2, <3>1 DEF RateTypeOK
    <3>3. /\ place[p][a] # 0 /\ started[a] < place[p][a]
          /\ place[p][a] <= started[a] + MaxDelay + Window
      BY <2>2, <3>1 DEF PlaceInv
    <3>4. QED
      BY <2>1, <2>2, <3>1, <3>2, <3>3
  <2>4. \A a, b \in F : \/ place[p][a] = place[p][b]
                       \/ place[p][a] + Window <= place[p][b]
                       \/ place[p][b] + Window <= place[p][a]
    BY <2>2, <2>3 DEF KeyInv, Apart
  <2> HIDE DEF F
  <2>5. \A e \in Nat \ {0} : /\ IsFiniteSet(Holders(p, e)) /\ Cardinality(Holders(p, e)) \in Nat
                             /\ Cardinality(Holders(p, e)) <= PairLimit
    BY <2>1, <2>2, FS_CardinalityType DEF KeyInv
  <2>6. CASE F = {}
    <3>1. Cardinality(F) <= 2 * PairLimit
      BY <2>1, <2>6, FS_EmptySet
    <3>2. QED
      BY <3>1 DEF F
  <2>7. CASE F # {}
    <3>1. PICK x \in F : TRUE
      BY <2>7
    <3>2. PICK y \in F : (\A z \in F : place[p][z] = place[p][x]) \/ place[p][y] # place[p][x]
      BY <3>1
    <3>3. \A z \in F : place[p][z] = place[p][x] \/ place[p][z] = place[p][y]
      BY <2>1, <2>3, <2>4, <3>1, <3>2, TwoWindows
    <3> DEFINE X == Holders(p, place[p][x])
               Y == Holders(p, place[p][y])
    <3>4. F \subseteq X \cup Y
      BY <2>3, <3>3 DEF Holders
    <3>5. /\ IsFiniteSet(X) /\ Cardinality(X) \in Nat /\ Cardinality(X) <= PairLimit
          /\ IsFiniteSet(Y) /\ Cardinality(Y) \in Nat /\ Cardinality(Y) <= PairLimit
      BY <2>3, <2>5
    <3> HIDE DEF X, Y
    <3>6. /\ IsFiniteSet(X \cup Y)
          /\ Cardinality(X \cup Y) = Cardinality(X) + Cardinality(Y) - Cardinality(X \cap Y)
      BY <3>5, FS_Union
    <3>7. Cardinality(X \cap Y) \in Nat
      BY <3>5, FS_Intersection, FS_CardinalityType
    <3>8. Cardinality(F) \in Nat /\ Cardinality(F) <= Cardinality(X \cup Y)
      BY <3>4, <3>6, FS_Subset, FS_CardinalityType
    <3>9. Cardinality(F) <= 2 * PairLimit
      BY <2>1, <3>5, <3>6, <3>7, <3>8
    <3>10. QED
      BY <3>9 DEF F
  <2>8. QED
    BY <2>6, <2>7
<1>2. QED
  BY <1>1, RateInvariant, PTL
=============================================================================

------------------------------- MODULE RateLimit -------------------------------
(***************************************************************************)
(* The fixed-window limit on authentication attempts (security.py:117-199) *)
(* as login and SMTP AUTH use it: an attempt notes the time, reserves one  *)
(* place in the bucket of its address and one in the bucket of the pair of *)
(* address and identity, is verified, and gives both places back if it     *)
(* succeeded.  A failure keeps its places until the window ends, and so    *)
(* does an attempt whose verification or release broke off.                *)
(*                                                                         *)
(* The buckets of one address are looked at.  Every transaction locks the  *)
(* address's bucket first, so each is one step.  Time passes in ticks; the *)
(* database keeps whole seconds.  expires_at is the one clock reading kept *)
(* in a row: it is compared with the noted time of an attempt, which may   *)
(* be older than the reading another attempt left there.                   *)
(***************************************************************************)
EXTENDS Naturals, FiniteSets

CONSTANTS
    Attempts,       \* authentication attempts from one address
    Pairs,          \* buckets of the address and an identity
    PairOf,         \* the pair an attempt belongs to
    AddressLimit,   \* limits[0]
    PairLimit,      \* limits[1]
    Second,         \* ticks in a second
    Window,         \* window_seconds, in ticks
    MaxTime,        \* bounds the clock
    MaxDelay        \* bounds the ticks between noting the time and reserving

Address == "address"
ASSUME RateAssumption ==
    /\ PairOf \in [Attempts -> Pairs] /\ Address \notin Pairs
    /\ AddressLimit \in Nat \ {0} /\ PairLimit \in Nat \ {0}
    /\ Second \in Nat \ {0} /\ Window \in Nat \ {0} /\ Window % Second = 0
    /\ MaxTime \in Nat /\ MaxDelay \in Nat

VARIABLES
    now,            \* the clock
    bucket,         \* rate_limits: attempts and expires_at of every key
    stage,          \* how far every attempt is
    started,        \* the time every attempt noted
    place,          \* history: when the window ends that an attempt has a place in,
                    \* for every key; 0 without one
    overtaken       \* history: keys whose row maintenance deleted ahead of an attempt
                    \* that had noted its time while the window lasted

rateVars == <<now, bucket, stage, started, place, overtaken>>

Keys == {Address} \cup Pairs
KeysOf(a) == {Address, PairOf[a]}
Limit(k) == IF k = Address THEN AddressLimit ELSE PairLimit

NoBucket == [attempts |-> 0, expires |-> 0]

RateTypeOK ==
    /\ now \in 0..MaxTime
    /\ bucket \in [Keys -> [attempts : Nat, expires : Nat]]
    /\ \A k \in Keys : bucket[k].attempts <= Limit(k) /\ bucket[k].expires % Second = 0
    /\ stage \in [Attempts -> {"idle", "started", "verifying", "verified",
                               "failed", "refused", "done"}]
    /\ started \in [Attempts -> 0..now]
    /\ place \in [Keys -> [Attempts -> Nat]]
    /\ overtaken \subseteq Keys

RateInit ==
    /\ now = 0
    /\ bucket = [k \in Keys |-> NoBucket]
    /\ stage = [a \in Attempts |-> "idle"]
    /\ started = [a \in Attempts |-> 0]
    /\ place = [k \in Keys |-> [a \in Attempts |-> 0]]
    /\ overtaken = {}

-----------------------------------------------------------------------------
Start(a) ==
    /\ stage[a] = "idle"
    /\ stage' = [stage EXCEPT ![a] = "started"]
    /\ started' = [started EXCEPT ![a] = now]
    /\ UNCHANGED <<now, bucket, place, overtaken>>

\* Mutant: the microseconds are left to the database.
NotTruncated(t) == t

\* The microseconds are cut off.
Truncated(t) == t - (t % Second)

\* Mutant: a bucket that is at its limit is restarted too.
RestartsFull(k, t) == bucket[k].expires <= t \/ bucket[k].attempts >= Limit(k)

\* The row is missing, which its expiry 0 stands for, or its window is over.
Restarts(k, t) == bucket[k].expires <= t

Current(k, t) ==
    IF Restarts(k, t) THEN [attempts |-> 0, expires |-> t + Window] ELSE bucket[k]

Full(k, t) == Current(k, t).attempts >= Limit(k)

\* Keys up to the first full bucket are counted; that one is only restarted.
Consume(a) ==
    LET t == Truncated(started[a])
        reached == IF Full(Address, t) THEN {Address} ELSE KeysOf(a)
        charged == {k \in reached : ~Full(k, t)}
    IN  /\ stage[a] = "started"
        /\ bucket' = [k \in Keys |->
                        IF k \in charged THEN [Current(k, t) EXCEPT !.attempts = @ + 1]
                        ELSE IF k \in reached THEN Current(k, t) ELSE bucket[k]]
        /\ place' = [k \in Keys |->
                       IF k \in charged
                       THEN [place[k] EXCEPT ![a] = Current(k, t).expires] ELSE place[k]]
        /\ stage' = [stage EXCEPT ![a] = IF charged = KeysOf(a) THEN "verifying" ELSE "refused"]
        /\ UNCHANGED <<now, started, overtaken>>

\* Wrong credentials, a backend that fails, a handler that is cancelled.
Verify(a, verdict) ==
    /\ stage[a] = "verifying"
    /\ stage' = [stage EXCEPT ![a] = verdict]
    /\ UNCHANGED <<now, bucket, started, place, overtaken>>

\* Mutant: the window the place was reserved in is not compared.
ReleaseAnyWindow(a) ==
    /\ stage[a] = "verified"
    /\ bucket' = [k \in Keys |->
                    IF k \in KeysOf(a) /\ bucket[k].attempts > 0
                    THEN [bucket[k] EXCEPT !.attempts = @ - 1] ELSE bucket[k]]
    /\ place' = [k \in Keys |->
                   IF k \in KeysOf(a) THEN [place[k] EXCEPT ![a] = 0] ELSE place[k]]
    /\ stage' = [stage EXCEPT ![a] = "done"]
    /\ UNCHANGED <<now, started, overtaken>>

\* Only a bucket whose window began no later than the attempt is its own.
Release(a) ==
    LET own == {k \in KeysOf(a) : /\ bucket[k] # NoBucket
                                  /\ bucket[k].expires <= started[a] + Window}
    IN  /\ stage[a] = "verified"
        /\ bucket' = [k \in Keys |->
                        IF k \in own /\ bucket[k].attempts > 0
                        THEN [bucket[k] EXCEPT !.attempts = @ - 1] ELSE bucket[k]]
        /\ place' = [k \in Keys |->
                       IF k \in own THEN [place[k] EXCEPT ![a] = 0] ELSE place[k]]
        /\ stage' = [stage EXCEPT ![a] = "done"]
        /\ UNCHANGED <<now, started, overtaken>>

\* An attempt that may use the row of k has noted its time while the window of
\* the row lasted, and has yet to reserve.
UnderWay(k) == \E a \in Attempts : /\ stage[a] = "started" /\ k \in KeysOf(a)
                                   /\ started[a] < bucket[k].expires

\* run_maintenance_once deletes the buckets whose window is over.
Purge ==
    LET over == {k \in Keys : bucket[k] # NoBucket /\ bucket[k].expires <= now}
    IN  /\ over # {}
        /\ bucket' = [k \in Keys |-> IF k \in over THEN NoBucket ELSE bucket[k]]
        /\ overtaken' = overtaken \cup {k \in over : UnderWay(k)}
        /\ UNCHANGED <<now, stage, started, place>>

Tick ==
    /\ now < MaxTime
    /\ \A a \in Attempts : stage[a] = "started" => now - started[a] < MaxDelay
    /\ now' = now + 1
    /\ UNCHANGED <<bucket, stage, started, place, overtaken>>

RateNext ==
    \/ \E a \in Attempts :
         \/ Start(a)
         \/ Consume(a)
         \/ Verify(a, "verified")
         \/ Verify(a, "failed")
         \/ Release(a)
    \/ Purge
    \/ Tick

RateSpec == RateInit /\ [][RateNext]_rateVars

-----------------------------------------------------------------------------
(* Properties.                                                             *)

\* Seen from outside, whatever the buckets say: in no stretch of time as
\* long as a window, less the time reservations come late by, do more than
\* two windows' worth of attempts of one pair go wrong or stay unanswered
\* (security.py:150-158; two, since a stretch may touch two windows), unless
\* maintenance has overtaken an attempt.
FailuresAreBounded ==
    \A p \in Pairs \ overtaken, t \in 0..MaxTime :
      Cardinality({a \in Attempts : /\ PairOf[a] = p
                                    /\ stage[a] \in {"verifying", "failed"}
                                    /\ t <= started[a] /\ started[a] + MaxDelay < t + Window})
        <= 2 * PairLimit

\* The attempts with a place in the window that the bucket counts.
Counted(k) == {a \in Attempts : place[k][a] # 0 /\ place[k][a] = bucket[k].expires}

\* "Release successful auth reservations without clearing failures"
\* (security.py:179): as long as a window lasts its bucket counts every
\* failure in it, whatever releases come late.
FailuresStayCounted(k) ==
    Cardinality({a \in Counted(k) : stage[a] = "failed"}) <= bucket[k].attempts

\* That holds of the buckets in which maintenance has overtaken no attempt; a
\* success that was released takes no place there any more, unless an attempt
\* of a later second opened its window (security.py:196).
ReleasesAreExact ==
    \A k \in Keys \ overtaken :
      /\ FailuresStayCounted(k)
      /\ \A a \in Counted(k) :
           stage[a] = "done" => Truncated(started[a]) + Window < bucket[k].expires

\* What the line quoted says, without exception: no release takes the failure
\* of another attempt back.  The buckets excepted above refute this; no run
\* checks it.
NoFailureIsCleared == \A k \in Keys : FailuresStayCounted(k)
=============================================================================

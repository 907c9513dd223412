------------------------------ MODULE RateLimit ------------------------------
(***************************************************************************)
(* The rate limiter in front of every route (middlewares/rateLimit.ts).    *)
(*                                                                         *)
(* A limiter keeps one bucket per key in the memory of its process: how    *)
(* many requests were let through since the bucket was opened, and when it *)
(* ends.  Every request first sweeps ended buckets, at most once per       *)
(* SweepPeriod.  A request is handled in one go: nothing awaits.           *)
(***************************************************************************)
EXTENDS Integers, Functions

CONSTANTS
    Keys,         \* prefix and address, or prefix and user
    Limit,        \* max
    Window,       \* windowMs
    SweepPeriod,  \* 60 000 ms
    MaxTime       \* bound on the clock

ASSUME LimitsAreNat ==
    /\ Limit \in Nat \ {0} /\ Window \in Nat \ {0} /\ SweepPeriod \in Nat
    /\ MaxTime \in Nat

VARIABLES
    now, buckets, nextSweepAt,
    passed,   \* history: how many requests of a key were let through at each instant
    opened    \* history: how many in the window a key opened at each instant

vars == <<now, buckets, nextSweepAt, passed, opened>>

-----------------------------------------------------------------------------

Time     == 0..MaxTime
Bucket   == [count: 1..Limit, resetAt: Nat]
NoBucket == [count |-> 0]

Live(b)   == b # NoBucket /\ ~(now > b.resetAt)
Start(b)  == b.resetAt - Window

\* Mutant: the sweep does not compare the time.
SweepableAny(b) == b # NoBucket

Sweepable(b) == b # NoBucket /\ now > b.resetAt

\* sweepExpiredBuckets
Swept ==
    IF now < nextSweepAt THEN buckets
    ELSE [k \in Keys |-> IF Sweepable(buckets[k]) THEN NoBucket ELSE buckets[k]]
NextSweep == IF now < nextSweepAt THEN nextSweepAt ELSE now + SweepPeriod

\* The first request of a window, which is never refused.
OpenWindow(k) ==
    /\ ~Live(Swept[k])
    /\ buckets' = [Swept EXCEPT ![k] = [count |-> 1, resetAt |-> now + Window]]
    /\ nextSweepAt' = NextSweep
    /\ passed' = [passed EXCEPT ![k][now] = @ + 1]
    /\ opened' = [opened EXCEPT ![k][now] = 1]
    /\ UNCHANGED now

HasRoom(k) == Swept[k].count < Limit

\* Mutant: forgets to count.
PassUncounted(k) ==
    /\ Live(Swept[k])
    /\ HasRoom(k)
    /\ buckets' = Swept
    /\ nextSweepAt' = NextSweep
    /\ passed' = [passed EXCEPT ![k][now] = @ + 1]
    /\ opened' = [opened EXCEPT ![k][Start(buckets[k])] = @ + 1]
    /\ UNCHANGED now

Pass(k) ==
    /\ Live(Swept[k])
    /\ HasRoom(k)
    /\ buckets' = [Swept EXCEPT ![k].count = @ + 1]
    /\ nextSweepAt' = NextSweep
    /\ passed' = [passed EXCEPT ![k][now] = @ + 1]
    /\ opened' = [opened EXCEPT ![k][Start(buckets[k])] = @ + 1]
    /\ UNCHANGED now

\* 429, "Too many requests"
Refuse(k) ==
    /\ Live(Swept[k])
    /\ ~HasRoom(k)
    /\ buckets' = Swept
    /\ nextSweepAt' = NextSweep
    /\ UNCHANGED <<now, passed, opened>>

Tick ==
    /\ now < MaxTime
    /\ now' = now + 1
    /\ UNCHANGED <<buckets, nextSweepAt, passed, opened>>

Init ==
    /\ now = 0
    /\ buckets = [k \in Keys |-> NoBucket]
    /\ nextSweepAt = 0
    /\ passed = [k \in Keys |-> [t \in Time |-> 0]]
    /\ opened = [k \in Keys |-> [t \in Time |-> 0]]

Next == Tick \/ \E k \in Keys : OpenWindow(k) \/ Pass(k) \/ Refuse(k)

Spec == Init /\ [][Next]_vars

-----------------------------------------------------------------------------
(* Properties *)

\* Every variable stays in its domain.
TypeOK ==
    /\ now \in Time
    /\ buckets \in [Keys -> Bucket \cup {NoBucket}]
    /\ nextSweepAt \in Nat
    /\ passed \in [Keys -> [Time -> Nat]]
    /\ opened \in [Keys -> [Time -> Nat]]

\* The windows of a key do not overlap, whatever is swept in between, and none
\* lets through more than the limit.
WindowsApart ==
    \A k \in Keys, s, t \in Time :
        /\ opened[k][s] <= Limit
        /\ opened[k][s] > 0 /\ opened[k][t] > 0 /\ s < t => t - s > Window

PassedIn(k, from, to) == SumFunctionOnSet(passed[k], from..to)

\* No stretch of time as long as a window sees more than twice the limit.
AtMostTwice ==
    \A k \in Keys, t \in Time : t + Window <= now => PassedIn(k, t, t + Window) <= 2 * Limit

=============================================================================

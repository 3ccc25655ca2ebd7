----------------------------- MODULE RateLimiter -----------------------------
(***************************************************************************)
(* The byte-rate limiter of a drive (throttle.rs): a bucket of tokens that *)
(* may go into debt.  A caller debits its bytes under the lock and, when   *)
(* that leaves a debt, sleeps outside the lock until the rate has paid it. *)
(*                                                                         *)
(* Time is in ticks and Rate in bytes per tick; the timer rounds a sleep   *)
(* up to a whole tick.  A limiter without a rate has no state and never    *)
(* waits: it is not modelled.                                              *)
(***************************************************************************)
EXTENDS Integers

CONSTANTS
    Callers,   \* tasks that transfer at the same time
    Rate,      \* rate_bytes_per_sec
    Burst,     \* the larger of the rate and MIN_BURST
    Sizes,     \* how many bytes one acquire asks for
    MaxTime,   \* the model's clock stops here
    MaxBytes,  \* and no more than these are asked for
    Awake      \* the wake-up time of a caller that does not sleep

ASSUME LimiterAssumption ==
    /\ Rate \in Nat \ {0} /\ Burst \in Nat /\ Rate <= Burst
    /\ Sizes \subseteq Nat /\ MaxTime \in Nat /\ MaxBytes \in Nat
    /\ Awake \notin Nat

VARIABLES
    now,       \* the clock
    last,      \* Inner.last: the last refill
    tokens,    \* Inner.tokens: below zero, the debt
    asked,     \* bytes debited so far
    wake,      \* when each caller's sleep ends
    mark,      \* asked, right after the caller's last debit
    passed     \* the largest mark of a caller that has returned
limiter == <<now, last, tokens, asked, wake, mark, passed>>

Smaller(a, b) == IF a <= b THEN a ELSE b
Larger(a, b)  == IF a >= b THEN a ELSE b

LimiterTypeOK ==
    /\ now \in Nat /\ last \in 0..now
    /\ tokens \in Int /\ tokens <= Burst
    /\ asked \in Nat /\ passed \in Nat
    /\ wake \in [Callers -> Nat \cup {Awake}]
    /\ mark \in [Callers -> Nat]

LimiterInit ==
    /\ now = 0 /\ last = 0 /\ tokens = Burst
    /\ asked = 0 /\ passed = 0
    /\ wake = [c \in Callers |-> Awake]
    /\ mark = [c \in Callers |-> 0]

\* Mutant of Refilled: a debt is forgiven.
RefilledFromZero == Smaller(Larger(tokens, 0) + (now - last) * Rate, Burst)

\* The tokens after the refill for the time since the last one.
Refilled == Smaller(tokens + (now - last) * Rate, Burst)

\* Mutant of Pays: one tick too many.
PaysMore(w, debt) == Rate * (w - 1) >= debt /\ Rate * (w - 2) < debt

\* w ticks at the rate pay the debt, and one tick less does not.
Pays(w, debt) == Rate * w >= debt /\ Rate * (w - 1) < debt

(***************************************************************************)
(* acquire: refill, debit and the length of the sleep in one critical      *)
(* section.  Without a debt the call returns at once.                      *)
(***************************************************************************)
Debit(c, n) ==
    /\ wake[c] = Awake /\ asked + n <= MaxBytes
    /\ last' = now
    /\ tokens' = Refilled - n
    /\ asked' = asked + n
    /\ mark' = [mark EXCEPT ![c] = asked + n]
    /\ UNCHANGED now

AcquireAtOnce(c, n) ==
    /\ Debit(c, n) /\ tokens' >= 0
    /\ passed' = Larger(passed, asked + n)
    /\ UNCHANGED wake

\* Mutant of AcquireSleeps: nobody waits longer than for its own bytes.
AcquireSleepsForOwn(c, n) ==
    /\ Debit(c, n) /\ tokens' < 0
    /\ \E w \in 1..MaxBytes : /\ Pays(w, Smaller(n, -tokens'))
                              /\ wake' = [wake EXCEPT ![c] = now + w]
    /\ UNCHANGED passed

AcquireSleeps(c, n) ==
    /\ Debit(c, n) /\ tokens' < 0
    /\ \E w \in 1..MaxBytes : /\ Pays(w, -tokens')
                              /\ wake' = [wake EXCEPT ![c] = now + w]
    /\ UNCHANGED passed

\* The sleep is over, and the caller comes back at some time after.
Returns(c) ==
    /\ wake[c] # Awake /\ wake[c] <= now
    /\ wake' = [wake EXCEPT ![c] = Awake]
    /\ passed' = Larger(passed, mark[c])
    /\ UNCHANGED <<now, last, tokens, asked, mark>>

Tick ==
    /\ now < MaxTime
    /\ now' = now + 1
    /\ UNCHANGED <<last, tokens, asked, wake, mark, passed>>

LimiterNext ==
    \/ \E c \in Callers : \/ \E n \in Sizes : AcquireAtOnce(c, n) \/ AcquireSleeps(c, n)
                         \/ Returns(c)
    \/ Tick

LimiterSpec == LimiterInit /\ [][LimiterNext]_limiter

-----------------------------------------------------------------------------
(***************************************************************************)
(* The cap: no call returns before the burst and the rate together have    *)
(* reached its last byte, counting the bytes of all callers in the order   *)
(* of their debits (throttle.rs acquire).                                  *)
(***************************************************************************)
RateHolds == passed <= Burst + Rate * now

(***************************************************************************)
(* "All subsequent callers wait behind it naturally": of two callers that  *)
(* sleep, the one that debited first wakes first (throttle.rs acquire).    *)
(***************************************************************************)
InOrder ==
    \A c, d \in Callers : wake[c] # Awake /\ wake[d] # Awake /\ mark[c] < mark[d]
                            => wake[c] <= wake[d]

(***************************************************************************)
(* No debt is slept off twice: a sleep ends less than one tick after the   *)
(* rate has paid what was debited up to the sleeper's own bytes, reckoned  *)
(* from the bucket as it is now (throttle.rs acquire).                     *)
(***************************************************************************)
NoLongerThanNeeded ==
    \A c \in Callers : wake[c] # Awake
        => Rate * (wake[c] - last) < mark[c] - asked - tokens + Rate

(***************************************************************************)
(* Each sleeps as long as those before it and its own bytes take, no       *)
(* shorter than a caller that came before it and not much longer than it   *)
(* must (throttle.rs acquire).                                             *)
(***************************************************************************)
SleepsAreRight == InOrder /\ NoLongerThanNeeded

=============================================================================

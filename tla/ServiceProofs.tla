---------------------------- MODULE ServiceProofs ----------------------------
(***************************************************************************)
(* Theorems about the two services a mounted drive has beside its volume:  *)
(* the rate limiter of its transfers and its coordinator client.           *)
(***************************************************************************)
EXTENDS RateLimiter, CoordinatorLoop, SequenceTheorems, TLAPS

-----------------------------------------------------------------------------
(* The rate limiter keeps its cap and its order for every rate, burst and  *)
(* number of callers.                                                      *)
(*                                                                         *)
(* asked + tokens is what the bucket has granted so far.  It grows by at   *)
(* most Rate per tick (Granted), and the sleep of a caller is the time the *)
(* rate takes from what is granted to the caller's mark: not less (Paid),  *)
(* and less than a tick more (NoLongerThanNeeded).                         *)

Granted == asked + tokens <= Burst + Rate * last

Paid == \A c \in Callers :
            wake[c] # Awake => mark[c] <= asked /\ mark[c] <= Burst + Rate * wake[c]

BucketInv == LimiterTypeOK /\ Granted /\ Paid /\ RateHolds /\ NoLongerThanNeeded /\ InOrder

-----------------------------------------------------------------------------
(* A product with the rate distributes over the arguments. *)
LEMMA Distributes ==
    ASSUME NEW a \in Int, NEW b \in Int
    PROVE  /\ Rate * a \in Int
           /\ Rate * (a + b) = Rate * a + Rate * b
           /\ Rate * (a - b) = Rate * a - Rate * b
           /\ a * Rate = Rate * a
BY LimiterAssumption

(* More time is worth more bytes, and strictly more of them. *)
LEMMA Monotone ==
    ASSUME NEW a \in Int, NEW b \in Int
    PROVE  /\ a <= b => Rate * a <= Rate * b
           /\ a < b => Rate * a < Rate * b
<1>1. Rate * (b - a) = Rate * b - Rate * a /\ Rate * a \in Int /\ Rate * b \in Int
  BY Distributes
<1>2. a <= b => Rate * (b - a) >= 0
  BY LimiterAssumption
<1>3. a < b => Rate * (b - a) > 0
  BY LimiterAssumption
<1> QED BY <1>1, <1>2, <1>3

(* The initial bucket is full. *)
LEMMA BucketInit == LimiterInit => BucketInv
<1> SUFFICES ASSUME LimiterInit PROVE BucketInv
  OBVIOUS
<1>1. Rate * 0 = 0 /\ Burst \in Nat
  BY LimiterAssumption
<1>2. /\ now = 0 /\ last = 0 /\ tokens = Burst /\ asked = 0 /\ passed = 0
      /\ wake = [c \in Callers |-> Awake] /\ mark = [c \in Callers |-> 0]
  BY DEF LimiterInit
<1>3. LimiterTypeOK
  BY <1>1, <1>2 DEF LimiterTypeOK
<1>4. Granted /\ RateHolds
  BY <1>1, <1>2 DEF Granted, RateHolds
<1>5. \A c \in Callers : wake[c] = Awake
  BY <1>2
<1> QED BY <1>3, <1>4, <1>5 DEF BucketInv, Paid, NoLongerThanNeeded, InOrder

(* What a debit does to the numbers of the bucket, whoever makes it. *)
LEMMA DebitFacts ==
    ASSUME BucketInv, NEW c \in Callers, NEW n \in Sizes, Debit(c, n)
    PROVE  /\ now \in Nat /\ last' = now /\ now' = now /\ n \in Nat
           /\ asked \in Nat /\ tokens \in Int /\ last \in Int
           /\ tokens' \in Int /\ tokens' <= Burst
           /\ asked' = asked + n /\ asked' \in Nat
           /\ mark' = [mark EXCEPT ![c] = asked']
           /\ mark' \in [Callers -> Nat]
           /\ Rate * now \in Int /\ Rate * last \in Int
           /\ asked' + tokens' <= Burst + Rate * now
           /\ asked' + tokens' - Rate * now <= asked + tokens - Rate * last
<1>1. /\ now \in Nat /\ last \in 0..now /\ tokens \in Int /\ asked \in Nat /\ n \in Nat
      /\ Burst \in Nat /\ mark \in [Callers -> Nat] /\ tokens <= Burst
  BY LimiterAssumption DEF BucketInv, LimiterTypeOK
<1>2. (now - last) * Rate = Rate * now - Rate * last
  <2>1. now - last \in Int /\ now \in Int /\ last \in Int
    BY <1>1
  <2> QED BY <2>1, Distributes
<1>3. Rate * now \in Int /\ Rate * last \in Int
  <2>1. now \in Int /\ last \in Int
    BY <1>1
  <2> QED BY <2>1, Distributes
<1>4. Rate * last <= Rate * now
  BY <1>1, Monotone
<1>5. tokens' = Smaller(tokens + (Rate * now - Rate * last), Burst) - n
  BY <1>2 DEF Debit, Refilled
<1>6. asked + tokens <= Burst + Rate * last
  BY DEF BucketInv, Granted
<1>7. asked' = asked + n /\ mark' = [mark EXCEPT ![c] = asked'] /\ last' = now /\ now' = now
  BY DEF Debit
<1> QED
  BY <1>1, <1>3, <1>4, <1>5, <1>6, <1>7 DEF Smaller

(* What the invariants say of one caller that sleeps. *)
LEMMA Sleeper ==
    ASSUME BucketInv, NEW d \in Callers, wake[d] # Awake
    PROVE  /\ wake[d] \in Nat /\ mark[d] \in Nat
           /\ mark[d] <= asked /\ mark[d] <= Burst + Rate * wake[d]
           /\ Rate * wake[d] \in Int
           /\ Rate * wake[d] - Rate * last < mark[d] - asked - tokens + Rate
<1>1. wake[d] \in Nat /\ mark[d] \in Nat /\ last \in Int /\ wake[d] \in Int
  BY DEF BucketInv, LimiterTypeOK
<1>2. mark[d] <= asked /\ mark[d] <= Burst + Rate * wake[d]
  BY DEF BucketInv, Paid
<1>3. Rate * (wake[d] - last) < mark[d] - asked - tokens + Rate
  BY DEF BucketInv, NoLongerThanNeeded
<1>4. Rate * (wake[d] - last) = Rate * wake[d] - Rate * last /\ Rate * wake[d] \in Int
  BY <1>1, Distributes
<1> QED BY <1>1, <1>2, <1>3, <1>4

(* A sleeper keeps its relation to the bucket over a debit of another.     *)
LEMMA SleeperKept ==
    ASSUME BucketInv, NEW c \in Callers, NEW n \in Sizes, Debit(c, n),
           NEW d \in Callers, d # c, wake[d] # Awake
    PROVE  /\ mark'[d] = mark[d] /\ mark[d] <= asked'
           /\ Rate * wake[d] - Rate * now < mark[d] - asked' - tokens' + Rate
           /\ Rate * (wake[d] - now) < mark[d] - asked' - tokens' + Rate
<1>1. /\ wake[d] \in Nat /\ mark[d] \in Nat
      /\ mark[d] <= asked
      /\ Rate * wake[d] \in Int
      /\ Rate * wake[d] - Rate * last < mark[d] - asked - tokens + Rate
  BY Sleeper
<1>2. /\ now \in Nat /\ n \in Nat /\ asked \in Nat /\ tokens \in Int
      /\ tokens' \in Int /\ asked' = asked + n
      /\ Rate * now \in Int /\ Rate * last \in Int
      /\ asked' + tokens' - Rate * now <= asked + tokens - Rate * last
      /\ mark' = [mark EXCEPT ![c] = asked'] /\ mark \in [Callers -> Nat]
  BY DebitFacts DEF BucketInv, LimiterTypeOK
<1>3. mark'[d] = mark[d]
  BY <1>2
<1>4. Rate \in Nat
  BY LimiterAssumption
<1>5. Rate * wake[d] - Rate * now < mark[d] - asked' - tokens' + Rate
  BY <1>1, <1>2, <1>4
<1>6. Rate * (wake[d] - now) = Rate * wake[d] - Rate * now
  <2>1. wake[d] \in Int /\ now \in Int
    BY <1>1, <1>2
  <2> QED BY <2>1, Distributes
<1> QED BY <1>1, <1>2, <1>3, <1>5, <1>6

(* The bucket pays the call at once. *)
LEMMA AtOnceKeeps ==
    ASSUME BucketInv, NEW c \in Callers, NEW n \in Sizes, AcquireAtOnce(c, n)
    PROVE  BucketInv'
<1>1. Debit(c, n) /\ tokens' >= 0 /\ wake' = wake /\ passed' = Larger(passed, asked + n)
  BY DEF AcquireAtOnce
<1>2. /\ now \in Nat /\ last' = now /\ now' = now /\ n \in Nat
      /\ tokens' \in Int /\ tokens' <= Burst
      /\ asked' = asked + n /\ asked' \in Nat
      /\ mark' = [mark EXCEPT ![c] = asked'] /\ mark' \in [Callers -> Nat]
      /\ Rate * now \in Int
      /\ asked' + tokens' <= Burst + Rate * now
  BY <1>1, DebitFacts
<1>3. wake[c] = Awake
  BY <1>1 DEF Debit
<1>4. passed \in Nat /\ passed <= Burst + Rate * now /\ Burst \in Nat
  BY LimiterAssumption DEF BucketInv, LimiterTypeOK, RateHolds
<1>5. passed' \in Nat /\ passed' <= Burst + Rate * now
  BY <1>1, <1>2, <1>4 DEF Larger
<1>6. LimiterTypeOK'
  BY <1>1, <1>2, <1>5 DEF BucketInv, LimiterTypeOK
<1>7. Granted' /\ RateHolds'
  BY <1>2, <1>5 DEF Granted, RateHolds
<1>8. ASSUME NEW d \in Callers, wake'[d] # Awake
      PROVE  /\ mark'[d] = mark[d] /\ mark[d] <= asked' /\ wake'[d] = wake[d]
             /\ mark[d] <= Burst + Rate * wake[d]
             /\ Rate * (wake[d] - now) < mark[d] - asked' - tokens' + Rate
  <2>1. d # c /\ wake[d] # Awake
    BY <1>1, <1>3, <1>8
  <2> QED BY <1>1, <2>1, SleeperKept, Sleeper
<1>9. Paid'
  BY <1>8 DEF Paid
<1>10. NoLongerThanNeeded'
  BY <1>2, <1>8 DEF NoLongerThanNeeded
<1>11. InOrder'
  BY <1>8 DEF BucketInv, InOrder
<1> QED BY <1>6, <1>7, <1>9, <1>10, <1>11 DEF BucketInv

(* The caller sleeps, behind everybody who sleeps already. *)
LEMMA SleepsKeeps ==
    ASSUME BucketInv, NEW c \in Callers, NEW n \in Sizes, AcquireSleeps(c, n)
    PROVE  BucketInv'
<1>1. Debit(c, n) /\ tokens' < 0 /\ passed' = passed
  BY DEF AcquireSleeps
<1>2. PICK w \in 1..MaxBytes : Pays(w, -tokens') /\ wake' = [wake EXCEPT ![c] = now + w]
  BY DEF AcquireSleeps
<1>3. /\ now \in Nat /\ last' = now /\ now' = now /\ n \in Nat
      /\ tokens' \in Int /\ tokens' <= Burst
      /\ asked' = asked + n /\ asked' \in Nat
      /\ mark' = [mark EXCEPT ![c] = asked'] /\ mark' \in [Callers -> Nat]
      /\ Rate * now \in Int
      /\ asked' + tokens' <= Burst + Rate * now
  BY <1>1, DebitFacts
<1>4. /\ w \in Nat /\ Rate \in Nat /\ Burst \in Nat
      /\ wake \in [Callers -> Nat \cup {Awake}] /\ mark \in [Callers -> Nat]
      /\ passed \in Nat /\ passed <= Burst + Rate * now
  BY LimiterAssumption DEF BucketInv, LimiterTypeOK, RateHolds
<1>5. /\ wake'[c] = now + w /\ now + w \in Nat
      /\ \A d \in Callers : d # c => wake'[d] = wake[d]
      /\ mark'[c] = asked'
  BY <1>2, <1>3, <1>4
<1>6. /\ Rate * (w - 1) = Rate * w - Rate /\ Rate * w \in Int
      /\ Rate * (now + w) = Rate * now + Rate * w
      /\ (now + w) - now = w
  <2>1. Rate * 1 = Rate
    BY <1>4
  <2> QED BY <1>3, <1>4, <2>1, Distributes
<1>7. tokens' + Rate * w >= 0 /\ tokens' + Rate * w < Rate
  <2> DEFINE paid == Rate * w
             less == Rate * (w - 1)
  <2>1. PICK t \in Int : t = tokens'
    BY <1>3
  <2>2. paid >= -t /\ less < -t
    BY <1>2, <2>1 DEF Pays
  <2>3. Rate \in Int /\ paid \in Int /\ less = paid - Rate
    BY <1>4, <1>6
  <2>4. t + paid >= 0 /\ t + paid < Rate
    <3> HIDE DEF paid, less
    <3> QED BY <2>2, <2>3
  <2> QED BY <2>1, <2>4
<1>8. LimiterTypeOK'
  BY <1>1, <1>2, <1>3, <1>4, <1>5 DEF LimiterTypeOK
<1>9. Granted' /\ RateHolds'
  BY <1>1, <1>3, <1>4 DEF Granted, RateHolds
<1>10. ASSUME NEW d \in Callers, d # c, wake[d] # Awake
       PROVE  /\ mark'[d] = mark[d] /\ mark[d] <= asked'
              /\ mark[d] <= Burst + Rate * wake[d]
              /\ Rate * (wake[d] - now) < mark[d] - asked' - tokens' + Rate
              /\ wake[d] <= now + w
  <2>1. /\ mark'[d] = mark[d] /\ mark[d] <= asked'
        /\ Rate * (wake[d] - now) < mark[d] - asked' - tokens' + Rate
    BY <1>1, <1>10, SleeperKept
  <2>2. mark[d] <= Burst + Rate * wake[d] /\ wake[d] \in Nat /\ mark[d] \in Nat
    BY <1>10, Sleeper
  <2>3. Rate * (wake[d] - now) \in Int
    <3>1. wake[d] - now \in Int
      BY <1>3, <2>2
    <3> QED BY <3>1, Distributes
  <2>4. Rate * (wake[d] - now) < Rate * w + Rate
    <3>1. /\ Rate * w \in Int /\ Rate \in Int /\ tokens' \in Int /\ asked' \in Int
          /\ mark[d] \in Int
      BY <1>3, <1>4, <1>6, <2>2
    <3> DEFINE mine == Rate * (wake[d] - now)
               paid == Rate * w
    <3>2. PICK t \in Int, a \in Int, k \in Int : t = tokens' /\ a = asked' /\ k = mark[d]
      BY <3>1
    <3>3. mine \in Int /\ paid \in Int /\ Rate \in Int
      BY <2>3, <3>1
    <3>4. k <= a /\ mine < k - a - t + Rate /\ t + paid >= 0
      BY <1>7, <2>1, <3>2
    <3>5. mine < paid + Rate
      <4> HIDE DEF mine, paid
      <4> QED BY <3>3, <3>4
    <3> QED BY <3>5
  <2>5. Rate * (w + 1) = Rate * w + Rate
    BY <1>4
  <2>6. wake[d] - now < w + 1
    <3>1. w + 1 <= wake[d] - now => Rate * (w + 1) <= Rate * (wake[d] - now)
      <4>1. w + 1 \in Int /\ wake[d] - now \in Int
        BY <1>3, <1>4, <2>2
      <4> QED BY <4>1, Monotone
    <3> QED BY <1>3, <1>4, <1>6, <2>2, <2>3, <2>4, <2>5, <3>1
  <2> QED BY <1>3, <1>4, <2>1, <2>2, <2>6
<1>11. /\ asked' <= Burst + Rate * (now + w)
       /\ Rate * ((now + w) - now) < asked' - asked' - tokens' + Rate
  <2> DEFINE paid == Rate * w
             gone == Rate * now
  <2>1. PICK t \in Int, a \in Int : t = tokens' /\ a = asked'
    BY <1>3
  <2>2. paid \in Int /\ gone \in Int /\ Rate \in Int /\ Burst \in Int
    BY <1>3, <1>4, <1>6
  <2>3. a + t <= Burst + gone /\ t + paid >= 0 /\ t + paid < Rate
    BY <1>3, <1>7, <2>1
  <2>4. a <= Burst + (gone + paid) /\ paid < a - a - t + Rate
    <3> HIDE DEF paid, gone
    <3> QED BY <2>2, <2>3
  <2>5. Rate * (now + w) = gone + paid /\ Rate * ((now + w) - now) = paid
    BY <1>6
  <2> QED
    <3> HIDE DEF paid, gone
    <3> QED BY <2>1, <2>4, <2>5
<1>12. Paid'
  BY <1>3, <1>5, <1>10, <1>11 DEF Paid
<1>13. NoLongerThanNeeded'
  BY <1>3, <1>5, <1>10, <1>11 DEF NoLongerThanNeeded
<1>14. InOrder'
  <2> SUFFICES ASSUME NEW d \in Callers, NEW e \in Callers,
                      wake'[d] # Awake, wake'[e] # Awake, mark'[d] < mark'[e]
               PROVE  wake'[d] <= wake'[e]
    BY DEF InOrder
  <2>1. CASE d = c
    <3>1. e # c
      BY <1>3, <2>1
    <3>2. mark'[e] <= asked' /\ mark'[e] \in Nat
      BY <1>3, <1>5, <1>10, <3>1
    <3> QED BY <1>3, <1>5, <2>1, <3>2
  <2>2. CASE d # c /\ e = c
    BY <1>5, <1>10, <2>2
  <2>3. CASE d # c /\ e # c
    <3>1. wake[d] # Awake /\ wake[e] # Awake /\ wake'[d] = wake[d] /\ wake'[e] = wake[e]
      BY <1>5, <2>3
    <3>2. mark[d] < mark[e]
      BY <1>10, <2>3, <3>1
    <3> QED BY <3>1, <3>2 DEF BucketInv, InOrder
  <2> QED BY <2>1, <2>2, <2>3
<1> QED BY <1>8, <1>9, <1>12, <1>13, <1>14 DEF BucketInv

(* A caller returns after its sleep. *)
LEMMA ReturnsKeeps ==
    ASSUME BucketInv, NEW c \in Callers, Returns(c)
    PROVE  BucketInv'
<1>1. /\ wake[c] # Awake /\ wake[c] <= now
      /\ wake' = [wake EXCEPT ![c] = Awake]
      /\ passed' = Larger(passed, mark[c])
      /\ now' = now /\ last' = last /\ tokens' = tokens /\ asked' = asked /\ mark' = mark
  BY DEF Returns
<1>2. /\ wake[c] \in Nat /\ mark[c] \in Nat /\ mark[c] <= Burst + Rate * wake[c]
      /\ Rate * wake[c] \in Int
  BY <1>1, Sleeper
<1>3. now \in Nat /\ Burst \in Nat /\ passed \in Nat /\ passed <= Burst + Rate * now
  BY LimiterAssumption DEF BucketInv, LimiterTypeOK, RateHolds
<1>4. Rate * wake[c] <= Rate * now /\ Rate * now \in Int
  <2>1. wake[c] \in Int /\ now \in Int /\ wake[c] <= now
    BY <1>1, <1>2, <1>3
  <2> QED BY <2>1, Monotone, Distributes
<1>5. passed' \in Nat /\ passed' <= Burst + Rate * now
  BY <1>1, <1>2, <1>3, <1>4 DEF Larger
<1>6. LimiterTypeOK'
  BY <1>1, <1>5 DEF BucketInv, LimiterTypeOK
<1>7. Granted' /\ RateHolds'
  BY <1>1, <1>5 DEF BucketInv, Granted, RateHolds
<1>8. \A d \in Callers : wake'[d] # Awake => wake'[d] = wake[d]
  BY <1>1 DEF BucketInv, LimiterTypeOK
<1>9. Paid' /\ NoLongerThanNeeded' /\ InOrder'
  BY <1>1, <1>8 DEF BucketInv, Paid, NoLongerThanNeeded, InOrder
<1> QED BY <1>6, <1>7, <1>9 DEF BucketInv

(* Time passes. *)
LEMMA TickKeeps == ASSUME BucketInv, Tick PROVE BucketInv'
<1>1. /\ now' = now + 1 /\ last' = last /\ tokens' = tokens /\ asked' = asked
      /\ wake' = wake /\ mark' = mark /\ passed' = passed
  BY DEF Tick
<1>2. now \in Nat /\ Burst \in Nat /\ passed \in Nat /\ last \in 0..now
  BY LimiterAssumption DEF BucketInv, LimiterTypeOK
<1>3. Rate * now <= Rate * (now + 1) /\ Rate * now \in Int /\ Rate * (now + 1) \in Int
  BY <1>2, Monotone, Distributes
<1>4. LimiterTypeOK'
  BY <1>1, <1>2 DEF BucketInv, LimiterTypeOK
<1>5. RateHolds'
  BY <1>1, <1>2, <1>3 DEF BucketInv, RateHolds
<1>6. Granted' /\ Paid' /\ NoLongerThanNeeded' /\ InOrder'
  BY <1>1 DEF BucketInv, Granted, Paid, NoLongerThanNeeded, InOrder
<1> QED BY <1>4, <1>5, <1>6 DEF BucketInv

(* The invariant is inductive. *)
LEMMA BucketKept == LimiterSpec => []BucketInv
<1>1. LimiterInit => BucketInv
  BY BucketInit
<1>2. BucketInv /\ [LimiterNext]_limiter => BucketInv'
  <2> SUFFICES ASSUME BucketInv, [LimiterNext]_limiter PROVE BucketInv'
    OBVIOUS
  <2>1. ASSUME NEW c \in Callers, NEW n \in Sizes, AcquireAtOnce(c, n) PROVE BucketInv'
    BY <2>1, AtOnceKeeps
  <2>2. ASSUME NEW c \in Callers, NEW n \in Sizes, AcquireSleeps(c, n) PROVE BucketInv'
    BY <2>2, SleepsKeeps
  <2>3. ASSUME NEW c \in Callers, Returns(c) PROVE BucketInv'
    BY <2>3, ReturnsKeeps
  <2>4. ASSUME Tick PROVE BucketInv'
    BY <2>4, TickKeeps
  <2>5. ASSUME UNCHANGED limiter PROVE BucketInv'
    BY <2>5 DEF limiter, BucketInv, LimiterTypeOK, Granted, Paid, RateHolds,
                NoLongerThanNeeded, InOrder
  <2> QED BY <2>1, <2>2, <2>3, <2>4, <2>5 DEF LimiterNext
<1> QED BY <1>1, <1>2, PTL DEF LimiterSpec

(***************************************************************************)
(* Every variable has its type, and the tokens never exceed the burst      *)
(* (throttle.rs Inner).                                                    *)
(***************************************************************************)
THEOREM LimiterTypes == LimiterSpec => []LimiterTypeOK
<1>1. BucketInv => LimiterTypeOK
  BY DEF BucketInv
<1> QED BY <1>1, BucketKept, PTL

(***************************************************************************)
(* The cap holds at every time, for any rate, burst and callers            *)
(* (throttle.rs acquire).                                                  *)
(***************************************************************************)
THEOREM CapHolds == LimiterSpec => []RateHolds
<1>1. BucketInv => RateHolds
  BY DEF BucketInv
<1> QED BY <1>1, BucketKept, PTL

(***************************************************************************)
(* Callers that sleep wake in the order of their debits, and nobody sleeps *)
(* longer than the rate requires (throttle.rs acquire).                    *)
(***************************************************************************)
THEOREM SleepsTheorem == LimiterSpec => []SleepsAreRight
<1>1. BucketInv => SleepsAreRight
  BY DEF BucketInv, SleepsAreRight
<1> QED BY <1>1, BucketKept, PTL

-----------------------------------------------------------------------------
(* The coordinator clients, for any number of drives, of mounts of each,   *)
(* of pushes and failures, and a channel of any capacity.                  *)

Delays == {0, 1, 2, 5, 15, 60, 300, 3600}

\* The table of pauses never goes down, and starts at a second.
LEMMA Table ==
    /\ LastStep = 13
    /\ \A s \in 0..LastStep : Backoff(s) \in Delays \ {0}
    /\ \A s \in 0..LastStep : Backoff(s) \in Nat
    /\ \A s, t \in 0..LastStep : s <= t => Backoff(s) <= Backoff(t)
<1>1. LastStep = 13
  BY DEF LastStep, BACKOFF_STEPS
<1>2. /\ Backoff(0) = 1 /\ Backoff(1) = 2 /\ Backoff(2) = 5 /\ Backoff(3) = 15
      /\ \A s \in 4..9 : Backoff(s) = 60
      /\ \A s \in 10..12 : Backoff(s) = 300
      /\ Backoff(13) = 3600
  BY DEF Backoff, BACKOFF_STEPS
<1>3. \A s \in 0..LastStep : s \in {0, 1, 2, 3, 13} \/ s \in 4..9 \/ s \in 10..12
  BY <1>1
<1> QED
  BY <1>1, <1>2, <1>3 DEF Delays

(* What the client that has spoken last of a drive has told of itself. *)
Honest ==
    \A l \in Loops :
        /\ stage[l] = "before" => loop[l] = "none" /\ told[Of[l]].by # l
        /\ loop[l] # "none" /\ told[Of[l]].by = l
              => (told[Of[l]].connected <=> loop[l] = "read" /\ acked[l])
        /\ loop[l] \in {"connect", "send"} => ~acked[l]

Patient == \A l \in Loops : delay[l] <= Backoff(step[l])

LinkInv == TypeOK /\ Honest /\ Patient

\* The type invariant, by the three groups of variables.
LinkTypes ==
    /\ loop \in [Loops -> {"none", "start", "connect", "send", "read", "sleep", "stopped"}]
    /\ silent \in [Loops -> BOOLEAN]
    /\ step \in [Loops -> 0..LastStep]
    /\ delay \in [Loops -> Delays]
    /\ acked \in [Loops -> BOOLEAN]
    /\ failures \in [Loops -> Nat]
    /\ told \in [Drives -> [by : Loops \cup {None}, connected : BOOLEAN]]
FlowTypes ==
    /\ receiver \in [Loops -> BOOLEAN]
    /\ channel \in [Loops -> Seq(1..MaxPushes)]
    /\ \A l \in Loops : Len(channel[l]) <= Capacity
    /\ applied \in [Loops -> Seq(1..MaxPushes)]
    /\ dropped \in [Loops -> SUBSET (1..MaxPushes)]
    /\ sent \in [Loops -> 0..MaxPushes]
OuterTypes ==
    /\ licence \in {Good, Bad} /\ calm \in BOOLEAN
    /\ stage \in [Loops -> {"before", "opening", "open", "over"}]
    /\ jwt \in [Loops -> {Good, Bad}]

LEMMA Types ==
    /\ TypeOK <=> LinkTypes /\ FlowTypes /\ OuterTypes
    /\ TypeOK' <=> LinkTypes' /\ FlowTypes' /\ OuterTypes'
<1>1. LinkTypes /\ FlowTypes /\ OuterTypes => TypeOK
  BY DEF TypeOK, LinkTypes, FlowTypes, OuterTypes, Delays
<1>2. TypeOK => LinkTypes /\ FlowTypes /\ OuterTypes
  BY DEF TypeOK, LinkTypes, FlowTypes, OuterTypes, Delays
<1>3. LinkTypes' /\ FlowTypes' /\ OuterTypes' => TypeOK'
  BY DEF TypeOK, LinkTypes, FlowTypes, OuterTypes, Delays
<1>4. TypeOK' => LinkTypes' /\ FlowTypes' /\ OuterTypes'
  BY DEF TypeOK, LinkTypes, FlowTypes, OuterTypes, Delays
<1> QED BY <1>1, <1>2, <1>3, <1>4

LEMMA OthersKept ==
    /\ FlowTypes /\ UNCHANGED flow => FlowTypes'
    /\ OuterTypes /\ UNCHANGED outer => OuterTypes'
BY DEF FlowTypes, OuterTypes, flow, outer

LEMMA LinkInit == Init => LinkInv
<1> SUFFICES ASSUME Init PROVE LinkInv
  OBVIOUS
<1>1. \A l \in Loops : channel[l] = <<>> /\ applied[l] = <<>>
  BY DEF Init
<1>2. <<>> \in Seq(1..MaxPushes) /\ Len(<<>>) = 0
  BY EmptySeq
<1>3. TypeOK
  <2>1. LinkTypes
    BY Table DEF Init, LinkTypes, Delays
  <2>2. FlowTypes
    BY <1>2, CoordinatorAssumption DEF Init, FlowTypes
  <2>3. OuterTypes
    BY DEF Init, OuterTypes
  <2> QED BY <2>1, <2>2, <2>3, Types
<1>4. Honest
  BY CoordinatorAssumption DEF Init, Honest
<1>5. Patient
  BY Table DEF Init, Patient, Delays
<1> QED BY <1>3, <1>4, <1>5 DEF LinkInv

(* The pause by the table. *)
LEMMA BackOffStep ==
    ASSUME LinkInv, NEW l \in Loops, BackOff(l)
    PROVE  /\ loop' = [loop EXCEPT ![l] = "sleep"]
           /\ step' \in [Loops -> 0..LastStep]
           /\ delay' \in [Loops -> Delays]
           /\ \A e \in Loops \ {l} : step'[e] = step[e] /\ delay'[e] = delay[e]
           /\ delay'[l] = Backoff(step[l])
           /\ delay'[l] <= Backoff(step'[l])
<1>1. step[l] \in 0..LastStep /\ LastStep = 13
  BY Table, Types DEF LinkInv, LinkTypes
<1>2. Least(step[l] + 1, LastStep) \in 0..LastStep /\ step[l] <= Least(step[l] + 1, LastStep)
  BY <1>1 DEF Least
<1>3. Backoff(step[l]) \in Delays /\ Backoff(step[l]) <= Backoff(Least(step[l] + 1, LastStep))
  BY <1>1, <1>2, Table
<1>4. step \in [Loops -> 0..LastStep] /\ delay \in [Loops -> Delays]
  BY Types DEF LinkInv, LinkTypes
<1> QED
  BY <1>2, <1>3, <1>4 DEF BackOff

(* What a client says is of its own drive. *)
LEMMA Speaks ==
    ASSUME LinkInv, NEW l \in Loops, NEW b \in BOOLEAN, Tell(l, b)
    PROVE  /\ told' \in [Drives -> [by : Loops \cup {None}, connected : BOOLEAN]]
           /\ \A d \in Drives : told'[d] = told[d] \/ told'[d].by = l
           /\ told'[Of[l]].connected = b
BY Types, CoordinatorAssumption DEF LinkInv, LinkTypes, Tell

(* One lemma for what a step of client l does to its connection. *)
LEMMA LinkKept ==
    ASSUME LinkInv, NEW l \in Loops, TypeOK', loop[l] # "none", UNCHANGED stage,
           \A d \in Drives : told'[d] = told[d] \/ told'[d].by = l,
           \A e \in Loops \ {l} : /\ loop'[e] = loop[e] /\ acked'[e] = acked[e]
                                  /\ step'[e] = step[e] /\ delay'[e] = delay[e],
           loop'[l] # "none" /\ told'[Of[l]].by = l
               => (told'[Of[l]].connected <=> loop'[l] = "read" /\ acked'[l]),
           loop'[l] \in {"connect", "send"} => ~acked'[l],
           delay'[l] <= Backoff(step'[l])
    PROVE  LinkInv'
<1>1. Honest'
  <2> SUFFICES ASSUME NEW e \in Loops
               PROVE  /\ stage'[e] = "before" => loop'[e] = "none" /\ told'[Of[e]].by # e
                      /\ loop'[e] # "none" /\ told'[Of[e]].by = e
                            => (told'[Of[e]].connected <=> loop'[e] = "read" /\ acked'[e])
                      /\ loop'[e] \in {"connect", "send"} => ~acked'[e]
    BY DEF Honest
  <2>1. Of[e] \in Drives
    BY CoordinatorAssumption
  <2>2. CASE e = l
    BY <2>2 DEF LinkInv, Honest
  <2>3. CASE e # l
    BY <2>1, <2>3 DEF LinkInv, Honest
  <2> QED BY <2>2, <2>3
<1>2. Patient'
  BY DEF LinkInv, Patient, Backoff
<1> QED BY <1>1, <1>2 DEF LinkInv

LEMMA FailsTypes ==
    ASSUME LinkInv, NEW l \in Loops, Fails(l)
    PROVE  silent' \in [Loops -> BOOLEAN] /\ failures' \in [Loops -> Nat]
BY Types DEF LinkInv, LinkTypes, Fails

LEMMA ConnectFailsStep == ASSUME LinkInv, NEW l \in Loops, ConnectFails(l) PROVE LinkInv'
<1>1. BackOff(l) /\ Fails(l) /\ UNCHANGED <<acked, told, flow, outer>> /\ loop[l] = "connect"
  BY DEF ConnectFails
<1>2. LinkTypes /\ FlowTypes /\ OuterTypes
  BY Types DEF LinkInv
<1>3. LinkTypes'
  BY <1>1, <1>2, BackOffStep, FailsTypes DEF LinkTypes
<1>4. TypeOK'
  BY <1>1, <1>2, <1>3, OthersKept, Types
<1>5. /\ loop'[l] = "sleep" /\ delay'[l] <= Backoff(step'[l])
      /\ \A e \in Loops \ {l} : /\ loop'[e] = loop[e] /\ acked'[e] = acked[e]
                                /\ step'[e] = step[e] /\ delay'[e] = delay[e]
      /\ told[Of[l]].by = l => ~told'[Of[l]].connected
  BY <1>1, <1>2, BackOffStep DEF LinkTypes, LinkInv, Honest
<1> QED BY <1>1, <1>4, <1>5, LinkKept DEF outer

LEMMA DisconnectsStep == ASSUME LinkInv, NEW l \in Loops, Disconnects(l) PROVE LinkInv'
<1>1. BackOff(l) /\ Fails(l) /\ UNCHANGED <<acked, flow, outer>> /\ Tell(l, FALSE)
      /\ loop[l] = "read"
  BY DEF Disconnects, Closed
<1>2. LinkTypes /\ FlowTypes /\ OuterTypes
  BY Types DEF LinkInv
<1>3. LinkTypes'
  BY <1>1, <1>2, BackOffStep, FailsTypes, Speaks DEF LinkTypes
<1>4. TypeOK'
  BY <1>1, <1>2, <1>3, OthersKept, Types
<1>5. /\ loop'[l] = "sleep" /\ delay'[l] <= Backoff(step'[l])
      /\ \A e \in Loops \ {l} : /\ loop'[e] = loop[e] /\ acked'[e] = acked[e]
                                /\ step'[e] = step[e] /\ delay'[e] = delay[e]
  BY <1>1, <1>2, BackOffStep DEF LinkTypes
<1> QED BY <1>1, <1>4, <1>5, Speaks, LinkKept DEF outer

LEMMA SendFailsStep == ASSUME LinkInv, NEW l \in Loops, SendFails(l) PROVE LinkInv'
<1>1. LinkTypes /\ FlowTypes /\ OuterTypes
  BY Types DEF LinkInv
<1>2. Backoff(step[l]) \in Delays \ {0}
  BY <1>1, Table DEF LinkTypes
<1>3. /\ loop' = [loop EXCEPT ![l] = "sleep"] /\ delay' = [delay EXCEPT ![l] = 1]
      /\ Fails(l) /\ UNCHANGED <<step, acked, told, flow, outer>> /\ loop[l] = "send"
  BY DEF SendFails
<1>4. LinkTypes'
  BY <1>1, <1>3, FailsTypes DEF LinkTypes, Delays
<1>5. TypeOK'
  BY <1>1, <1>3, <1>4, OthersKept, Types
<1>6. 1 <= Backoff(step'[l])
  BY <1>2, <1>3 DEF Delays
<1>7. told[Of[l]].by = l => ~told[Of[l]].connected
  BY <1>3 DEF LinkInv, Honest
<1> QED
  BY <1>1, <1>3, <1>5, <1>6, <1>7, LinkKept DEF LinkTypes, outer

LEMMA QuietStep ==
    ASSUME LinkInv, NEW l \in Loops,
           Connects(l) \/ Subscribes(l) \/ Wakes(l) \/ Rejected(l)
    PROVE  LinkInv'
<1>1. /\ UNCHANGED <<silent, step, delay, failures, flow, outer>>
      /\ \/ /\ loop[l] = "connect" /\ loop' = [loop EXCEPT ![l] = "send"]
            /\ UNCHANGED <<acked, told>>
         \/ /\ loop[l] = "send" /\ loop' = [loop EXCEPT ![l] = "read"]
            /\ UNCHANGED <<acked, told>>
         \/ /\ loop[l] \in {"start", "sleep"} /\ loop' = [loop EXCEPT ![l] = "connect"]
            /\ acked' = [acked EXCEPT ![l] = FALSE]
            /\ Tell(l, FALSE)
         \/ /\ loop[l] = "read" /\ loop' = [loop EXCEPT ![l] = "stopped"]
            /\ UNCHANGED acked
            /\ Tell(l, FALSE)
  BY DEF Connects, Subscribes, Wakes, Rejected, Closed, Goes
<1>2. LinkTypes /\ FlowTypes /\ OuterTypes /\ UNCHANGED <<step, delay, stage>>
  BY <1>1, Types DEF LinkInv, outer
<1>3. /\ told' \in [Drives -> [by : Loops \cup {None}, connected : BOOLEAN]]
      /\ \A d \in Drives : told'[d] = told[d] \/ told'[d].by = l
  BY <1>1, <1>2, Speaks DEF LinkTypes
<1>4. LinkTypes'
  BY <1>1, <1>2, <1>3 DEF LinkTypes
<1>5. TypeOK'
  BY <1>1, <1>2, <1>4, OthersKept, Types
<1>6. delay'[l] <= Backoff(step'[l])
  BY <1>1 DEF LinkInv, Patient
<1>7. /\ loop[l] # "none" /\ told[Of[l]].by = l
            => (told[Of[l]].connected <=> loop[l] = "read" /\ acked[l])
      /\ loop[l] \in {"connect", "send"} => ~acked[l]
  BY DEF LinkInv, Honest
<1>8. /\ loop[l] # "none"
      /\ \A e \in Loops \ {l} : loop'[e] = loop[e] /\ acked'[e] = acked[e]
      /\ loop'[l] \in {"connect", "send"} => ~acked'[l]
  BY <1>1, <1>2, <1>7 DEF LinkTypes
<1>9. loop'[l] # "none" /\ told'[Of[l]].by = l
         => (told'[Of[l]].connected <=> loop'[l] = "read" /\ acked'[l])
  BY <1>1, <1>2, <1>7, Speaks DEF LinkTypes
<1> QED
  BY <1>2, <1>3, <1>5, <1>6, <1>8, <1>9, LinkKept

(* A frame, and what it does to the connection. *)
LEMMA AcceptedStep ==
    ASSUME LinkInv, NEW l \in Loops, loop[l] = "read", Accepted(l), TypeOK',
           UNCHANGED stage,
           \/ TellsAccepted(l) /\ UNCHANGED loop
           \/ Closed(l) /\ loop' = [loop EXCEPT ![l] = "stopped"]
    PROVE  LinkInv'
<1>1. LinkTypes
  BY Types DEF LinkInv
<1>2. /\ acked' = [acked EXCEPT ![l] = TRUE]
      /\ step' = [step EXCEPT ![l] = 0] /\ delay' = [delay EXCEPT ![l] = 0]
  BY DEF Accepted
<1>3. delay'[l] <= Backoff(step'[l])
  <2>1. step'[l] = 0 /\ delay'[l] = 0
    BY <1>1, <1>2 DEF LinkTypes
  <2>2. Backoff(0) \in Delays \ {0}
    BY Table
  <2> QED BY <2>1, <2>2 DEF Delays
<1>4. told[Of[l]].by = l => (told[Of[l]].connected <=> acked[l])
  BY DEF LinkInv, Honest
<1>5. CASE TellsAccepted(l) /\ UNCHANGED loop
  <2>1. (UNCHANGED told /\ acked[l]) \/ Tell(l, TRUE)
    BY <1>5 DEF TellsAccepted
  <2> QED BY <1>1, <1>2, <1>3, <1>4, <1>5, <2>1, Speaks, LinkKept DEF LinkTypes
<1>6. CASE Closed(l) /\ loop' = [loop EXCEPT ![l] = "stopped"]
  <2>1. Tell(l, FALSE)
    BY <1>6 DEF Closed
  <2> QED BY <1>1, <1>2, <1>3, <1>6, <2>1, Speaks, LinkKept DEF LinkTypes
<1> QED BY <1>5, <1>6

LEMMA AcceptedTypes ==
    ASSUME LinkInv, NEW l \in Loops, Accepted(l), UNCHANGED silent,
           loop' = loop \/ loop' = [loop EXCEPT ![l] = "stopped"],
           told' = told \/ \E b \in BOOLEAN : Tell(l, b)
    PROVE  LinkTypes'
<1>1. LinkTypes
  BY Types DEF LinkInv
<1>2. told' \in [Drives -> [by : Loops \cup {None}, connected : BOOLEAN]]
  BY <1>1, Speaks DEF LinkTypes
<1> QED BY <1>1, <1>2, Table DEF LinkTypes, Accepted, Delays

LEMMA OtherFrameStep == ASSUME LinkInv, NEW l \in Loops, OtherFrame(l) PROVE LinkInv'
<1>1. /\ loop[l] = "read" /\ Accepted(l) /\ TellsAccepted(l)
      /\ UNCHANGED <<silent, loop, flow, outer>>
  BY DEF OtherFrame, Goes
<1>2. LinkTypes'
  BY <1>1, AcceptedTypes DEF TellsAccepted
<1>3. TypeOK'
  BY <1>1, <1>2, OthersKept, Types DEF LinkInv
<1> QED BY <1>1, <1>3, AcceptedStep DEF outer

LEMMA PushStep == ASSUME LinkInv, NEW l \in Loops, Push(l) PROVE LinkInv'
<1>1. /\ loop[l] = "read" /\ sent[l] < MaxPushes
      /\ sent' = [sent EXCEPT ![l] = @ + 1]
      /\ Accepted(l) /\ UNCHANGED <<silent, receiver, applied, outer>>
  BY DEF Push, Goes
<1>2. FlowTypes /\ OuterTypes
  BY Types DEF LinkInv
<1>3. sent[l] + 1 \in 1..MaxPushes /\ sent' \in [Loops -> 0..MaxPushes]
  BY <1>1, <1>2, CoordinatorAssumption DEF FlowTypes
<1>4. \/ TellsAccepted(l) /\ UNCHANGED loop
      \/ Closed(l) /\ loop' = [loop EXCEPT ![l] = "stopped"]
  BY DEF Push
<1>5. LinkTypes'
  BY <1>1, <1>4, AcceptedTypes DEF TellsAccepted, Closed
<1>6. /\ channel' \in [Loops -> Seq(1..MaxPushes)]
      /\ \A e \in Loops : Len(channel'[e]) <= Capacity
      /\ dropped' \in [Loops -> SUBSET (1..MaxPushes)]
  <2>1. CASE UNCHANGED <<channel, dropped>>
    BY <2>1, <1>2 DEF FlowTypes
  <2>2. CASE UNCHANGED channel /\ dropped' = [dropped EXCEPT ![l] = @ \cup {sent[l] + 1}]
    BY <2>2, <1>2, <1>3 DEF FlowTypes
  <2>3. CASE /\ Len(channel[l]) < Capacity /\ UNCHANGED dropped
             /\ channel' = [channel EXCEPT ![l] = Append(@, sent[l] + 1)]
    <3>1. channel[l] \in Seq(1..MaxPushes)
      BY <1>2 DEF FlowTypes
    <3>2. /\ Append(channel[l], sent[l] + 1) \in Seq(1..MaxPushes)
          /\ Len(Append(channel[l], sent[l] + 1)) = Len(channel[l]) + 1
      BY <3>1, <1>3, AppendProperties
    <3>3. Len(channel[l]) \in Nat /\ Capacity \in Nat
      BY <3>1, LenProperties, CoordinatorAssumption
    <3> QED BY <2>3, <3>2, <3>3, <1>2 DEF FlowTypes
  <2> QED BY <2>1, <2>2, <2>3 DEF Push
<1>7. FlowTypes'
  BY <1>1, <1>2, <1>3, <1>6 DEF FlowTypes
<1>8. TypeOK'
  BY <1>1, <1>2, <1>5, <1>7, OthersKept, Types
<1> QED BY <1>1, <1>4, <1>8, AcceptedStep DEF outer

LEMMA SpawnStep == ASSUME LinkInv, NEW l \in Loops, Spawn(l) PROVE LinkInv'
<1>1. LinkTypes /\ FlowTypes /\ OuterTypes
  BY Types DEF LinkInv
<1>2. LinkTypes' /\ FlowTypes' /\ OuterTypes'
  BY <1>1 DEF Spawn, LinkTypes, FlowTypes, OuterTypes
<1>3. TypeOK'
  BY <1>2, Types
<1>4. Honest'
  BY <1>1 DEF Spawn, LinkInv, Honest, LinkTypes, OuterTypes
<1>5. Patient'
  BY DEF Spawn, LinkInv, Patient, Backoff
<1> QED BY <1>3, <1>4, <1>5 DEF LinkInv

LEMMA ReceiveStep ==
    ASSUME LinkInv, NEW l \in Loops, Receive(l) \/ ReceiverEnds(l)
    PROVE  LinkInv'
<1>1. FlowTypes
  BY Types DEF LinkInv
<1>2. FlowTypes'
  <2>1. CASE Receive(l)
    <3>1. /\ channel[l] \in Seq(1..MaxPushes) /\ channel[l] # <<>>
          /\ applied[l] \in Seq(1..MaxPushes)
      BY <1>1, <2>1 DEF Receive, FlowTypes
    <3>2. /\ Head(channel[l]) \in 1..MaxPushes /\ Tail(channel[l]) \in Seq(1..MaxPushes)
          /\ Len(Tail(channel[l])) = Len(channel[l]) - 1 /\ Len(channel[l]) \in Nat
      BY <3>1, HeadTailProperties, LenProperties
    <3>3. Append(applied[l], Head(channel[l])) \in Seq(1..MaxPushes)
      BY <3>1, <3>2, AppendProperties
    <3> QED BY <2>1, <1>1, <3>2, <3>3, CoordinatorAssumption DEF Receive, FlowTypes
  <2>2. CASE ReceiverEnds(l)
    BY <2>2, <1>1, EmptySeq, CoordinatorAssumption DEF ReceiverEnds, FlowTypes
  <2> QED BY <2>1, <2>2
<1>3. UNCHANGED <<link, outer>>
  BY DEF Receive, ReceiverEnds
<1>4. TypeOK'
  BY <1>2, <1>3, Types DEF LinkInv, LinkTypes, OuterTypes, link, outer
<1> QED
  BY <1>3, <1>4, Table DEF LinkInv, Honest, Patient, Backoff, link, outer

LEMMA StageStep ==
    ASSUME LinkInv, NEW l \in Loops, Open(l) \/ Close(l) \/ LoopEnds(l)
    PROVE  LinkInv'
<1>1. /\ UNCHANGED <<silent, step, delay, acked, told, failures, flow, licence, calm, jwt>>
      /\ \/ /\ stage[l] # "before" /\ UNCHANGED loop
            /\ \E x \in {"open", "over"} : stage' = [stage EXCEPT ![l] = x]
         \/ loop' = [loop EXCEPT ![l] = "none"] /\ UNCHANGED stage
  BY DEF Open, Close, LoopEnds, link, outer
<1>2. LinkTypes /\ FlowTypes /\ OuterTypes
  BY Types DEF LinkInv
<1>3. LinkTypes' /\ OuterTypes'
  BY <1>1, <1>2 DEF LinkTypes, OuterTypes
<1>4. TypeOK'
  BY <1>1, <1>2, <1>3, OthersKept, Types
<1>5. Honest'
  BY <1>1, <1>2 DEF LinkInv, Honest, LinkTypes, OuterTypes
<1>6. Patient'
  BY <1>1 DEF LinkInv, Patient, Backoff
<1> QED BY <1>4, <1>5, <1>6 DEF LinkInv

LEMMA SilenceStep == ASSUME LinkInv, NEW l \in Loops, Silence(l) PROVE LinkInv'
<1>1. /\ UNCHANGED <<loop, step, delay, acked, told, failures, flow, outer>>
      /\ silent' = [silent EXCEPT ![l] = TRUE]
  BY DEF Silence
<1>2. LinkTypes /\ FlowTypes /\ OuterTypes
  BY Types DEF LinkInv
<1>3. LinkTypes'
  BY <1>1, <1>2 DEF LinkTypes
<1>4. TypeOK'
  BY <1>1, <1>2, <1>3, OthersKept, Types
<1> QED BY <1>1, <1>4 DEF LinkInv, Honest, Patient, Backoff, outer

LEMMA LinkNext == LinkInv /\ [Next]_vars => LinkInv'
<1> SUFFICES ASSUME LinkInv, [Next]_vars PROVE LinkInv'
  OBVIOUS
<1>1. ASSUME SetLicence \/ NetworkCalms \/ UNCHANGED vars PROVE LinkInv'
  <2>1. /\ UNCHANGED <<stage, jwt, link, flow>>
        /\ licence' \in {licence, Good} /\ calm' \in {calm, TRUE}
    BY <1>1 DEF SetLicence, NetworkCalms, vars, outer
  <2>2. TypeOK'
    <3>1. LinkTypes /\ FlowTypes /\ OuterTypes
      BY Types DEF LinkInv
    <3>2. LinkTypes'
      BY <3>1, <2>1 DEF LinkTypes, link
    <3>3. OuterTypes'
      BY <3>1, <2>1 DEF OuterTypes
    <3> QED BY <3>1, <3>2, <3>3, <2>1, OthersKept, Types
  <2> QED
    BY <2>1, <2>2 DEF LinkInv, Honest, Patient, Backoff, link
<1> QED
  BY <1>1, ConnectFailsStep, DisconnectsStep, SendFailsStep, QuietStep, OtherFrameStep,
     PushStep, SpawnStep, SilenceStep, ReceiveStep, StageStep DEF Next, LoopStep

(***************************************************************************)
(* However many mounts of a drive overlap, what was said last of it is     *)
(* what the connection is of the client that said it, as long as that      *)
(* client lives (coordinator.rs subscribe_loop, mounts.rs emit_status).    *)
(***************************************************************************)
THEOREM ScreenIsTold == Spec => []MountedIsTold
<1>1. LinkInv => MountedIsTold
  BY DEF LinkInv, Honest, MountedIsTold, Connected
<1> QED BY <1>1, LinkInit, LinkNext, PTL DEF Spec

(***************************************************************************)
(* Of two pauses without a frame in between the later is not the shorter,  *)
(* to the end of the table and past it (coordinator.rs BACKOFF_STEPS).     *)
(***************************************************************************)
THEOREM PausesGrow == Spec => NeverSooner
<1>1. LinkInv /\ [Next]_vars =>
         [\A l \in Loops : ~acked[l] /\ loop[l] \in {"connect", "read"} /\ loop'[l] = "sleep"
                                => delay'[l] >= delay[l]]_vars
  <2> SUFFICES ASSUME LinkInv, Next, NEW l \in Loops,
                      loop[l] \in {"connect", "read"}, loop'[l] = "sleep"
               PROVE  delay'[l] >= delay[l]
    BY DEF vars
  <2>1. /\ loop'[l] # loop[l] /\ LinkTypes
    BY Types DEF LinkInv
  <2>2. ASSUME NEW e \in Loops, LoopStep(e) PROVE delay'[l] = Backoff(step[l])
    <3>1. \A x : loop' = [loop EXCEPT ![e] = x] => e = l /\ x = "sleep"
      BY <2>1 DEF LinkTypes
    <3>2. CASE ConnectFails(e) \/ Disconnects(e)
      BY <3>1, <3>2, BackOffStep DEF ConnectFails, Disconnects, BackOff
    <3>3. CASE SendFails(e)
      BY <3>1, <3>3 DEF SendFails
    <3>4. CASE Connects(e) \/ Subscribes(e) \/ Wakes(e) \/ OtherFrame(e) \/ Rejected(e)
      BY <3>1, <3>4, <2>1 DEF Connects, Subscribes, Wakes, OtherFrame, Rejected
    <3> QED BY <2>2, <3>2, <3>3, <3>4 DEF LoopStep
  <2>3. ASSUME NEW e \in Loops, Push(e) \/ Spawn(e) \/ LoopEnds(e) PROVE FALSE
    <3>1. \A x : loop' = [loop EXCEPT ![e] = x] => x = "sleep"
      BY <2>1 DEF LinkTypes
    <3> QED BY <3>1, <2>1, <2>3 DEF Push, Spawn, LoopEnds
  <2>4. ASSUME \/ \E e \in Loops : \/ Receive(e) \/ Silence(e) \/ Open(e)
                                   \/ Close(e) \/ ReceiverEnds(e)
               \/ SetLicence \/ NetworkCalms
        PROVE  FALSE
    BY <2>1, <2>4 DEF Receive, Silence, Open, Close, ReceiverEnds, SetLicence, NetworkCalms, link
  <2>5. delay'[l] = Backoff(step[l])
    BY <2>2, <2>3, <2>4 DEF Next
  <2>6. delay[l] \in Nat /\ Backoff(step[l]) \in Nat /\ delay[l] <= Backoff(step[l])
    BY <2>1, Table DEF LinkInv, Patient, LinkTypes, Delays
  <2> QED BY <2>5, <2>6
<1> QED BY <1>1, LinkInit, LinkNext, PTL DEF Spec, NeverSooner

-----------------------------------------------------------------------------
(* Pushes.  What a mount has received, applied or not, is in order and no  *)
(* newer than the last one sent; before it there is nothing.               *)

Seen(l) == applied[l] \o channel[l]
Values(q) == {q[i] : i \in DOMAIN q}

Rising(q) == \A i, j \in DOMAIN q : i < j => q[i] < q[j]

Arrived(l) ==
    /\ Rising(Seen(l)) /\ Values(Seen(l)) \subseteq 1..sent[l]
    /\ ~receiver[l] => channel[l] = <<>>
    /\ stage[l] = "before" => /\ loop[l] = "none" /\ ~receiver[l] /\ sent[l] = 0
                              /\ applied[l] = <<>> /\ dropped[l] = {}
    /\ receiver[l] => Values(Seen(l)) \cup dropped[l] = 1..sent[l]

FlowInv == LinkInv /\ \A l \in Loops : Arrived(l)

\* One more at the end, one that changes queues, and a queue that is given up empty.
LEMMA Appended ==
    ASSUME NEW S, NEW p \in Seq(S), NEW q \in Seq(S), NEW v \in S
    PROVE  /\ p \o Append(q, v) \in Seq(S) /\ p \o q \in Seq(S)
           /\ Len(p \o Append(q, v)) = Len(p \o q) + 1
           /\ DOMAIN (p \o Append(q, v)) = 1..(Len(p \o q) + 1)
           /\ DOMAIN (p \o q) = 1..Len(p \o q) /\ Len(p \o q) \in Nat
           /\ \A i \in 1..Len(p \o q) : (p \o Append(q, v))[i] = (p \o q)[i]
           /\ (p \o Append(q, v))[Len(p \o q) + 1] = v
<1>1. /\ Append(q, v) \in Seq(S) /\ Len(Append(q, v)) = Len(q) + 1
      /\ \A i \in 1..Len(q) : Append(q, v)[i] = q[i]
      /\ Append(q, v)[Len(q) + 1] = v
  BY AppendProperties
<1>2. Len(p) \in Nat /\ Len(q) \in Nat
  BY LenProperties
<1>3. /\ p \o q \in Seq(S) /\ Len(p \o q) = Len(p) + Len(q)
      /\ \A i \in 1..Len(p) + Len(q) :
             (p \o q)[i] = IF i <= Len(p) THEN p[i] ELSE q[i - Len(p)]
  BY ConcatProperties
<1>4. /\ p \o Append(q, v) \in Seq(S) /\ Len(p \o Append(q, v)) = Len(p) + Len(q) + 1
      /\ \A i \in 1..Len(p) + Len(q) + 1 :
             (p \o Append(q, v))[i] = IF i <= Len(p) THEN p[i] ELSE Append(q, v)[i - Len(p)]
  BY <1>1, <1>2, ConcatProperties
<1>5. \A i \in 1..Len(p) + Len(q) : (p \o Append(q, v))[i] = (p \o q)[i]
  BY <1>1, <1>2, <1>3, <1>4
<1>6. (p \o Append(q, v))[Len(p) + Len(q) + 1] = v
  BY <1>1, <1>2, <1>4
<1>7. /\ DOMAIN (p \o Append(q, v)) = 1..Len(p \o Append(q, v))
      /\ DOMAIN (p \o q) = 1..Len(p \o q)
  BY <1>3, <1>4, LenProperties
<1> QED BY <1>2, <1>3, <1>4, <1>5, <1>6, <1>7

LEMMA Moved ==
    ASSUME NEW S, NEW p \in Seq(S), NEW q \in Seq(S), q # <<>>
    PROVE  Append(p, Head(q)) \o Tail(q) = p \o q
<1>1. /\ Head(q) \in S /\ Tail(q) \in Seq(S) /\ Len(Tail(q)) = Len(q) - 1
      /\ \A i \in 1..Len(Tail(q)) : Tail(q)[i] = q[i + 1]
      /\ Head(q) = q[1]
  BY HeadTailProperties, HeadTailOfSubSeq
<1>2. Len(p) \in Nat /\ Len(q) \in Nat \ {0}
  BY LenProperties, EmptySeq
<1>3. /\ Append(p, Head(q)) \in Seq(S) /\ Len(Append(p, Head(q))) = Len(p) + 1
      /\ \A i \in 1..Len(p) : Append(p, Head(q))[i] = p[i]
      /\ Append(p, Head(q))[Len(p) + 1] = Head(q)
  BY <1>1, AppendProperties
<1>4. /\ p \o q \in Seq(S) /\ Len(p \o q) = Len(p) + Len(q)
      /\ \A i \in 1..Len(p) + Len(q) :
             (p \o q)[i] = IF i <= Len(p) THEN p[i] ELSE q[i - Len(p)]
  BY ConcatProperties
<1>5. /\ Append(p, Head(q)) \o Tail(q) \in Seq(S)
      /\ Len(Append(p, Head(q)) \o Tail(q)) = Len(p) + 1 + Len(Tail(q))
      /\ \A i \in 1..Len(p) + 1 + Len(Tail(q)) :
             (Append(p, Head(q)) \o Tail(q))[i]
                 = IF i <= Len(p) + 1 THEN Append(p, Head(q))[i] ELSE Tail(q)[i - (Len(p) + 1)]
  BY <1>1, <1>3, ConcatProperties
<1>6. Len(Append(p, Head(q)) \o Tail(q)) = Len(p \o q)
  BY <1>1, <1>2, <1>4, <1>5
<1>7. ASSUME NEW i \in 1..Len(p \o q)
      PROVE  (Append(p, Head(q)) \o Tail(q))[i] = (p \o q)[i]
  <2>1. CASE i <= Len(p)
    BY <2>1, <1>1, <1>2, <1>3, <1>4, <1>5
  <2>2. CASE i = Len(p) + 1
    BY <2>2, <1>1, <1>2, <1>3, <1>4, <1>5
  <2>3. CASE i > Len(p) + 1
    <3>1. i - (Len(p) + 1) \in 1..Len(Tail(q)) /\ i \in Nat
      BY <2>3, <1>1, <1>2, <1>4
    <3>2. Tail(q)[i - (Len(p) + 1)] = q[i - Len(p)]
      BY <3>1, <1>1, <1>2
    <3> QED BY <2>3, <3>1, <3>2, <1>1, <1>2, <1>4, <1>5
  <2> QED BY <2>1, <2>2, <2>3, <1>2, <1>4
<1> QED BY <1>4, <1>5, <1>6, <1>7, SeqEqual

\* What is pushed is newer than all there is, and none was left out but what was dropped.
LEMMA NewestLast ==
    \A p, q \in Seq(1..MaxPushes), n \in Nat :
        n + 1 \in 1..MaxPushes /\ Rising(p \o q) /\ Values(p \o q) \subseteq 1..n
            => /\ Rising(p \o Append(q, n + 1))
               /\ Values(p \o Append(q, n + 1)) = Values(p \o q) \cup {n + 1}
<1> SUFFICES ASSUME NEW p \in Seq(1..MaxPushes), NEW q \in Seq(1..MaxPushes), NEW n \in Nat,
                    n + 1 \in 1..MaxPushes, Rising(p \o q), Values(p \o q) \subseteq 1..n
             PROVE  /\ Rising(p \o Append(q, n + 1))
                    /\ Values(p \o Append(q, n + 1)) = Values(p \o q) \cup {n + 1}
  OBVIOUS
<1> DEFINE N == Len(p \o q)
<1>1. /\ DOMAIN (p \o Append(q, n + 1)) = 1..(N + 1)
      /\ DOMAIN (p \o q) = 1..N /\ N \in Nat
      /\ \A i \in 1..N : (p \o Append(q, n + 1))[i] = (p \o q)[i]
      /\ (p \o Append(q, n + 1))[N + 1] = n + 1
  BY Appended
<1>2. \A i \in 1..N : (p \o q)[i] \in 1..n
  BY <1>1 DEF Values
<1>n. N \in Nat
  BY <1>1
<1> HIDE DEF N
<1>3. Rising(p \o Append(q, n + 1))
  <2> SUFFICES ASSUME NEW i \in 1..(N + 1), NEW j \in 1..(N + 1), i < j
               PROVE  (p \o Append(q, n + 1))[i] < (p \o Append(q, n + 1))[j]
    BY <1>1 DEF Rising
  <2>1. i \in 1..N /\ (j \in 1..N \/ j = N + 1)
    BY <1>n
  <2>2. CASE j \in 1..N
    BY <2>1, <2>2, <1>1 DEF Rising
  <2>3. CASE j = N + 1
    BY <2>1, <2>3, <1>1, <1>2
  <2> QED BY <2>1, <2>2, <2>3
<1>4. Values(p \o Append(q, n + 1)) = Values(p \o q) \cup {n + 1}
  <2>1. 1..(N + 1) = (1..N) \cup {N + 1}
    BY <1>1
  <2> DEFINE r == p \o Append(q, n + 1)
  <2>2. Values(r) = {r[i] : i \in 1..(N + 1)}
    BY <1>1 DEF Values
  <2>3. {r[i] : i \in 1..(N + 1)} = {r[i] : i \in 1..N} \cup {r[N + 1]}
    BY ONLY <2>1
  <2>4. {r[i] : i \in 1..N} = Values(p \o q)
    BY <1>1 DEF Values
  <2> QED BY <2>2, <2>3, <2>4, <1>1
<1> QED BY <1>3, <1>4

LEMMA FlowTyped ==
    ASSUME LinkInv, NEW l \in Loops
    PROVE  /\ channel[l] \in Seq(1..MaxPushes) /\ applied[l] \in Seq(1..MaxPushes)
           /\ sent[l] \in Nat /\ sent[l] <= MaxPushes /\ MaxPushes \in Nat
           /\ receiver[l] \in BOOLEAN
BY Types, CoordinatorAssumption DEF LinkInv, FlowTypes, OuterTypes

\* A step of client l leaves what the others received as it is.
LEMMA ArrivedElsewhere ==
    ASSUME FlowInv, NEW l \in Loops, Arrived(l)',
           \A e \in Loops \ {l} :
               /\ loop'[e] = loop[e] /\ receiver'[e] = receiver[e] /\ channel'[e] = channel[e]
               /\ applied'[e] = applied[e] /\ dropped'[e] = dropped[e]
               /\ sent'[e] = sent[e] /\ stage'[e] = stage[e]
    PROVE  \A e \in Loops : Arrived(e)'
<1> SUFFICES ASSUME NEW e \in Loops \ {l} PROVE Arrived(e)'
  OBVIOUS
<1>1. Arrived(e)
  BY DEF FlowInv
<1> QED BY <1>1 DEF Arrived, Seen

LEMMA PushArrives ==
    ASSUME FlowInv, NEW l \in Loops, Push(l)
    PROVE  \A e \in Loops : Arrived(e)'
<1>1. /\ channel[l] \in Seq(1..MaxPushes) /\ applied[l] \in Seq(1..MaxPushes)
      /\ sent[l] \in Nat /\ MaxPushes \in Nat
  BY FlowTyped DEF FlowInv
<1>2. FlowTypes /\ LinkTypes
  BY Types DEF FlowInv, LinkInv
<1>3. /\ loop[l] = "read" /\ sent[l] < MaxPushes
      /\ sent' = [sent EXCEPT ![l] = @ + 1]
      /\ UNCHANGED <<receiver, applied, stage>>
  BY DEF Push, outer
<1>4. Arrived(l) /\ stage[l] # "before"
  BY <1>3 DEF FlowInv, Arrived
<1>5. sent'[l] = sent[l] + 1 /\ 1..sent'[l] = (1..sent[l]) \cup {sent[l] + 1}
  BY <1>1, <1>2, <1>3 DEF FlowTypes
<1>6. Arrived(l)'
  <2>1. CASE /\ receiver[l] /\ UNCHANGED dropped
             /\ channel' = [channel EXCEPT ![l] = Append(@, sent[l] + 1)]
    <3>1. Seen(l)' = applied[l] \o Append(channel[l], sent[l] + 1)
      BY <2>1, <1>2, <1>3 DEF Seen, FlowTypes
    <3>2. /\ Rising(applied[l] \o channel[l])
          /\ Values(applied[l] \o channel[l]) \subseteq 1..sent[l]
          /\ sent[l] + 1 \in 1..MaxPushes
      BY <1>1, <1>3, <1>4 DEF Arrived, Seen
    <3>3. /\ Rising(applied[l] \o Append(channel[l], sent[l] + 1))
          /\ Values(applied[l] \o Append(channel[l], sent[l] + 1))
                 = Values(applied[l] \o channel[l]) \cup {sent[l] + 1}
      BY <3>2, <1>1, NewestLast, Zenon
    <3>4. Rising(Seen(l)') /\ Values(Seen(l)') = Values(Seen(l)) \cup {sent[l] + 1}
      BY <3>1, <3>3 DEF Seen
    <3> QED BY <3>4, <2>1, <1>3, <1>4, <1>5 DEF Arrived
  <2>2. CASE /\ receiver[l] /\ UNCHANGED channel
             /\ dropped' = [dropped EXCEPT ![l] = @ \cup {sent[l] + 1}]
    <3>1. Seen(l)' = Seen(l) /\ dropped'[l] = dropped[l] \cup {sent[l] + 1}
      BY <2>2, <1>2, <1>3 DEF Seen, FlowTypes
    <3> QED BY <3>1, <2>2, <1>3, <1>4, <1>5 DEF Arrived
  <2>3. CASE ~receiver[l] /\ UNCHANGED <<channel, dropped>>
    <3>1. Seen(l)' = Seen(l)
      BY <2>3, <1>3 DEF Seen
    <3> QED BY <3>1, <2>3, <1>3, <1>4, <1>5 DEF Arrived
  <2> QED BY <2>1, <2>2, <2>3 DEF Push
<1>7. \A e \in Loops \ {l} :
          /\ loop'[e] = loop[e] /\ receiver'[e] = receiver[e] /\ channel'[e] = channel[e]
          /\ applied'[e] = applied[e] /\ dropped'[e] = dropped[e]
          /\ sent'[e] = sent[e] /\ stage'[e] = stage[e]
  BY <1>2, <1>3 DEF Push, FlowTypes, LinkTypes
<1> QED BY <1>6, <1>7, ArrivedElsewhere

LEMMA ReceiveArrives ==
    ASSUME FlowInv, NEW l \in Loops, Receive(l)
    PROVE  \A e \in Loops : Arrived(e)'
<1>1. channel[l] \in Seq(1..MaxPushes) /\ applied[l] \in Seq(1..MaxPushes)
  BY FlowTyped DEF FlowInv
<1>2. FlowTypes
  BY Types DEF FlowInv, LinkInv
<1>3. /\ receiver[l] /\ channel[l] # <<>>
      /\ channel' = [channel EXCEPT ![l] = Tail(@)]
      /\ applied' = [applied EXCEPT ![l] = Append(@, Head(channel[l]))]
      /\ UNCHANGED <<loop, receiver, dropped, sent, stage>>
  BY DEF Receive, link, outer
<1>4. Seen(l)' = Append(applied[l], Head(channel[l])) \o Tail(channel[l])
  BY <1>2, <1>3 DEF Seen, FlowTypes
<1>5. Seen(l)' = Seen(l)
  BY <1>1, <1>3, <1>4, Moved DEF Seen
<1>6. Arrived(l) /\ stage[l] # "before"
  BY <1>3 DEF FlowInv, Arrived
<1>7. Arrived(l)'
  BY <1>3, <1>5, <1>6 DEF Arrived
<1>8. \A e \in Loops \ {l} :
          /\ loop'[e] = loop[e] /\ receiver'[e] = receiver[e] /\ channel'[e] = channel[e]
          /\ applied'[e] = applied[e] /\ dropped'[e] = dropped[e]
          /\ sent'[e] = sent[e] /\ stage'[e] = stage[e]
  BY <1>2, <1>3 DEF FlowTypes
<1> QED BY <1>7, <1>8, ArrivedElsewhere

\* Of a sequence with nothing behind it.
LEMMA FrontOf ==
    ASSUME NEW S, NEW p \in Seq(S), NEW q \in Seq(S)
    PROVE  /\ Rising(p \o q) => Rising(p \o <<>>)
           /\ Values(p \o <<>>) \subseteq Values(p \o q)
<1>1. p \o <<>> = p
  BY ConcatEmptySeq
<1>2. /\ DOMAIN p = 1..Len(p) /\ Len(p) \in Nat /\ Len(q) \in Nat
      /\ DOMAIN (p \o q) = 1..(Len(p) + Len(q))
      /\ \A i \in 1..Len(p) : (p \o q)[i] = p[i]
  BY ConcatProperties, LenProperties
<1>3. 1..Len(p) \subseteq 1..(Len(p) + Len(q))
  BY <1>2
<1>4. Rising(p \o q) => Rising(p)
  BY <1>2, <1>3 DEF Rising
<1>5. Values(p) \subseteq Values(p \o q)
  BY <1>2, <1>3 DEF Values
<1> QED BY <1>1, <1>4, <1>5

LEMMA EndedArrives ==
    ASSUME FlowInv, NEW l \in Loops, ReceiverEnds(l)
    PROVE  \A e \in Loops : Arrived(e)'
<1>1. channel[l] \in Seq(1..MaxPushes) /\ applied[l] \in Seq(1..MaxPushes) /\ sent[l] \in Nat
  BY FlowTyped DEF FlowInv
<1>2. FlowTypes
  BY Types DEF FlowInv, LinkInv
<1>3. /\ channel' = [channel EXCEPT ![l] = <<>>] /\ UNCHANGED <<applied, dropped, sent>>
      /\ receiver' = [receiver EXCEPT ![l] = FALSE] /\ UNCHANGED <<stage, loop>>
      /\ receiver[l]
  BY DEF ReceiverEnds, link, outer
<1>4. Seen(l)' = applied[l] \o <<>>
  BY <1>2, <1>3 DEF Seen, FlowTypes
<1>5. Arrived(l)
  BY DEF FlowInv
<1>6. Rising(Seen(l)') /\ Values(Seen(l)') \subseteq 1..sent'[l] /\ channel'[l] = <<>>
  BY <1>1, <1>2, <1>3, <1>4, <1>5, FrontOf DEF Arrived, Seen, FlowTypes
<1>7. Arrived(l)'
  BY <1>2, <1>3, <1>5, <1>6 DEF Arrived, FlowTypes
<1>8. \A e \in Loops \ {l} :
          /\ loop'[e] = loop[e] /\ receiver'[e] = receiver[e] /\ channel'[e] = channel[e]
          /\ applied'[e] = applied[e] /\ dropped'[e] = dropped[e]
          /\ sent'[e] = sent[e] /\ stage'[e] = stage[e]
  BY <1>2, <1>3 DEF FlowTypes
<1> QED BY <1>7, <1>8, ArrivedElsewhere

LEMMA SpawnArrives ==
    ASSUME FlowInv, NEW l \in Loops, Spawn(l)
    PROVE  \A e \in Loops : Arrived(e)'
<1>1. FlowTypes /\ LinkTypes /\ OuterTypes
  BY Types DEF FlowInv, LinkInv
<1>2. /\ stage[l] = "before" /\ stage' = [stage EXCEPT ![l] = "opening"]
      /\ receiver' = [receiver EXCEPT ![l] = TRUE] /\ loop' = [loop EXCEPT ![l] = "start"]
      /\ UNCHANGED <<channel, applied, dropped, sent>>
  BY DEF Spawn
<1>3. Arrived(l) /\ sent[l] = 0 /\ dropped[l] = {}
  BY <1>2 DEF FlowInv, Arrived
<1>4. Seen(l)' = Seen(l) /\ Values(Seen(l)) = {} /\ receiver'[l]
  BY <1>1, <1>2, <1>3 DEF Seen, Arrived, FlowTypes
<1>5. Arrived(l)'
  BY <1>1, <1>2, <1>3, <1>4 DEF Arrived, OuterTypes
<1>6. \A e \in Loops \ {l} :
          /\ loop'[e] = loop[e] /\ receiver'[e] = receiver[e] /\ channel'[e] = channel[e]
          /\ applied'[e] = applied[e] /\ dropped'[e] = dropped[e]
          /\ sent'[e] = sent[e] /\ stage'[e] = stage[e]
  BY <1>1, <1>2 DEF FlowTypes, LinkTypes, OuterTypes
<1> QED BY <1>5, <1>6, ArrivedElsewhere

\* Everything else moves a connection that there is, or ends it.
LEMMA OtherArrives ==
    ASSUME FlowInv, UNCHANGED flow,
           \A e \in Loops : stage'[e] = "before" => stage[e] = "before" /\ loop'[e] = loop[e]
    PROVE  \A e \in Loops : Arrived(e)'
<1>1. UNCHANGED <<receiver, channel, applied, dropped, sent>>
  BY DEF flow
<1>2. ASSUME NEW e \in Loops PROVE Arrived(e)'
  <2>1. Arrived(e) /\ Seen(e)' = Seen(e)
    BY <1>1 DEF FlowInv, Seen
  <2> QED BY <1>1, <2>1 DEF Arrived
<1> QED BY <1>2

LEMMA FlowNext == FlowInv /\ [Next]_vars => FlowInv'
<1> SUFFICES ASSUME FlowInv, [Next]_vars PROVE FlowInv'
  OBVIOUS
<1>1. LinkInv' /\ LinkTypes /\ OuterTypes
  BY LinkNext, Types DEF FlowInv, LinkInv
<1>2. ASSUME NEW l \in Loops, LoopStep(l) \/ LoopEnds(l)
      PROVE  \A e \in Loops : Arrived(e)'
  <2>1. UNCHANGED <<flow, stage>>
    BY <1>2 DEF LoopStep, ConnectFails, Connects, Subscribes, SendFails, Wakes, OtherFrame,
                Rejected, Disconnects, LoopEnds, outer
  <2>2. /\ loop[l] # "none"
        /\ UNCHANGED loop \/ \E x : loop' = [loop EXCEPT ![l] = x]
    <3>1. CASE ConnectFails(l) \/ SendFails(l) \/ Disconnects(l)
      BY <3>1 DEF ConnectFails, SendFails, Disconnects, BackOff
    <3>2. CASE Connects(l) \/ Subscribes(l) \/ Wakes(l) \/ Rejected(l)
      BY <3>2 DEF Connects, Subscribes, Wakes, Rejected
    <3>3. CASE OtherFrame(l) \/ LoopEnds(l)
      BY <3>3 DEF OtherFrame, LoopEnds
    <3> QED BY <1>2, <3>1, <3>2, <3>3 DEF LoopStep
  <2>3. stage[l] # "before" /\ \A e \in Loops \ {l} : loop'[e] = loop[e]
    BY <1>1, <2>2 DEF FlowInv, LinkInv, Honest, LinkTypes
  <2> QED BY <2>1, <2>3, OtherArrives
<1>3. ASSUME \/ \E l \in Loops : Open(l) \/ Close(l) \/ Silence(l)
             \/ SetLicence \/ NetworkCalms \/ UNCHANGED vars
      PROVE  \A e \in Loops : Arrived(e)'
  <2>1. UNCHANGED <<flow, loop>>
    BY <1>3 DEF Open, Close, Silence, SetLicence, NetworkCalms, vars, link
  <2>2. UNCHANGED stage \/ \E l \in Loops, x \in {"open", "over"} : stage' = [stage EXCEPT ![l] = x]
    BY <1>3 DEF Open, Close, Silence, SetLicence, NetworkCalms, vars, outer
  <2>3. \A e \in Loops : stage'[e] = "before" => stage[e] = "before"
    BY <1>1, <2>2 DEF OuterTypes
  <2> QED BY <2>1, <2>3, OtherArrives
<1>4. \A e \in Loops : Arrived(e)'
  BY <1>2, <1>3, PushArrives, ReceiveArrives, SpawnArrives, EndedArrives DEF Next
<1> QED BY <1>1, <1>4 DEF FlowInv

(***************************************************************************)
(* Every invalidation that is applied was pushed after those applied       *)
(* before it, and none is lost that found room in the channel, whatever    *)
(* its capacity (coordinator.rs try_send, winfsp_vfs.rs                    *)
(* start_coordinator_receiver).                                            *)
(***************************************************************************)
THEOREM PushesAreInOrder == Spec => []PushesInOrder
<1>1. Init => FlowInv
  <2> SUFFICES ASSUME Init PROVE \A l \in Loops : Arrived(l)
    BY LinkInit DEF FlowInv
  <2> TAKE l \in Loops
  <2>1. Seen(l) = <<>>
    BY EmptySeq, ConcatEmptySeq DEF Init, Seen
  <2>2. DOMAIN <<>> = {}
    OBVIOUS
  <2>3. Rising(<<>>) /\ Values(<<>>) = {}
    BY <2>2 DEF Rising, Values
  <2> QED BY <2>1, <2>3 DEF Init, Arrived
<1>2. FlowInv => PushesInOrder
  BY DEF FlowInv, Arrived, Seen, Rising, Values, PushesInOrder
<1> QED BY <1>1, <1>2, FlowNext, PTL DEF Spec
=============================================================================

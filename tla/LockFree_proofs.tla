-------------------------- MODULE LockFree_proofs --------------------------
(***************************************************************************)
(* Proofs about the two lock-free objects that all handlers of a pod       *)
(* share.  The circuit breaker, for every set of goroutines, threshold,    *)
(* timeout and number of retries: its types, and that no interleaving      *)
(* forgets that the failure threshold was reached.  The session ID         *)
(* generator, for every number of callers, every field width and every     *)
(* clock bound: that it loses uniqueness only through the windows          *)
(* OwnCounter describes, that lastTimestamp never goes back, and that      *)
(* ParseSessionID undoes it.                                               *)
(***************************************************************************)
EXTENDS CircuitBreaker, SessionId, TLAPS

-----------------------------------------------------------------------------
(* The circuit breaker *)

(* NewBreaker: a fresh breaker satisfies the inductive invariant. *)
LEMMA InitInv == Init => BreakerInv
  BY BreakerAssumption
     DEF Init, BreakerInv, TypeOK, States, Points, AttemptLeft,
         ThresholdNotForgotten, Reached

(* Every step keeps the breaker's fields and the goroutines' locals in     *)
(* their types; Attempt needs AttemptLeft to keep tries within MaxRetries. *)
LEMMA TypeStep ==
  ASSUME TypeOK, AttemptLeft, [Next]_vars
  PROVE  TypeOK'
<1> USE BreakerAssumption DEF TypeOK, States, Points, Goto, shared, AttemptLeft
<1>1. ASSUME NEW g \in Goroutines, AllowLoad(g)
      PROVE  TypeOK'
  BY <1>1 DEF AllowLoad
<1>2. ASSUME NEW g \in Goroutines, AllowReadLastFailure(g)
      PROVE  TypeOK'
  BY <1>2 DEF AllowReadLastFailure
<1>3. ASSUME NEW g \in Goroutines, AllowCas(g)
      PROVE  TypeOK'
  BY <1>3 DEF AllowCas
<1>4. ASSUME NEW g \in Goroutines, AllowReset(g)
      PROVE  TypeOK'
  BY <1>4 DEF AllowReset
<1>5. ASSUME NEW g \in Goroutines, Attempt(g)
      PROVE  TypeOK'
  BY <1>5 DEF Attempt
<1>6. ASSUME NEW g \in Goroutines, RecordSuccessLoad(g)
      PROVE  TypeOK'
  BY <1>6 DEF RecordSuccessLoad
<1>7. ASSUME NEW g \in Goroutines, RecordSuccessStore(g)
      PROVE  TypeOK'
  BY <1>7 DEF RecordSuccessStore
<1>8. ASSUME NEW g \in Goroutines, RecordSuccessReset(g)
      PROVE  TypeOK'
  BY <1>8 DEF RecordSuccessReset
<1>9. ASSUME NEW g \in Goroutines, RecordFailureAdd(g)
      PROVE  TypeOK'
  BY <1>9 DEF RecordFailureAdd
<1>10. ASSUME NEW g \in Goroutines, RecordFailureStamp(g)
       PROVE  TypeOK'
  BY <1>10 DEF RecordFailureStamp, AfterFailure
<1>11. ASSUME NEW g \in Goroutines, RecordFailureOpen(g)
       PROVE  TypeOK'
  BY <1>11 DEF RecordFailureOpen, AfterFailure
<1>12. CASE Tick
  BY <1>12 DEF Tick, Older
<1>13. CASE BackendChange
  BY <1>13 DEF BackendChange
<1>14. CASE UNCHANGED vars
  BY <1>14 DEF vars
<1> QED
  BY <1>1, <1>2, <1>3, <1>4, <1>5, <1>6, <1>7, <1>8, <1>9, <1>10, <1>11,
     <1>12, <1>13, <1>14 DEF Next, Continue

(* A goroutine reaches the next attempt of retry.Do only with tries left:  *)
(* Allow starts at zero and AfterFailure stops at MaxRetries.              *)
LEMMA AttemptStep ==
  ASSUME TypeOK, AttemptLeft, [Next]_vars
  PROVE  AttemptLeft'
<1> USE BreakerAssumption DEF TypeOK, States, Points, Goto, shared, AttemptLeft
<1>1. ASSUME NEW g \in Goroutines, AllowLoad(g)
      PROVE  AttemptLeft'
  BY <1>1 DEF AllowLoad
<1>2. ASSUME NEW g \in Goroutines, AllowReadLastFailure(g)
      PROVE  AttemptLeft'
  BY <1>2 DEF AllowReadLastFailure
<1>3. ASSUME NEW g \in Goroutines, AllowCas(g)
      PROVE  AttemptLeft'
  BY <1>3 DEF AllowCas
<1>4. ASSUME NEW g \in Goroutines, AllowReset(g)
      PROVE  AttemptLeft'
  BY <1>4 DEF AllowReset
<1>5. ASSUME NEW g \in Goroutines, Attempt(g)
      PROVE  AttemptLeft'
  BY <1>5 DEF Attempt
<1>6. ASSUME NEW g \in Goroutines, RecordSuccessLoad(g)
      PROVE  AttemptLeft'
  BY <1>6 DEF RecordSuccessLoad
<1>7. ASSUME NEW g \in Goroutines, RecordSuccessStore(g)
      PROVE  AttemptLeft'
  BY <1>7 DEF RecordSuccessStore
<1>8. ASSUME NEW g \in Goroutines, RecordSuccessReset(g)
      PROVE  AttemptLeft'
  BY <1>8 DEF RecordSuccessReset
<1>9. ASSUME NEW g \in Goroutines, RecordFailureAdd(g)
      PROVE  AttemptLeft'
  BY <1>9 DEF RecordFailureAdd
<1>10. ASSUME NEW g \in Goroutines, RecordFailureStamp(g)
       PROVE  AttemptLeft'
  BY <1>10 DEF RecordFailureStamp, AfterFailure
<1>11. ASSUME NEW g \in Goroutines, RecordFailureOpen(g)
       PROVE  AttemptLeft'
  BY <1>11 DEF RecordFailureOpen, AfterFailure
<1>12. CASE Tick
  BY <1>12 DEF Tick, Older
<1>13. CASE BackendChange
  BY <1>13 DEF BackendChange
<1>14. CASE UNCHANGED vars
  BY <1>14 DEF vars
<1> QED
  BY <1>1, <1>2, <1>3, <1>4, <1>5, <1>6, <1>7, <1>8, <1>9, <1>10, <1>11,
     <1>12, <1>13, <1>14 DEF Next, Continue

(* Whoever raises b.failures to the threshold is left opening the breaker, *)
(* and whoever leaves Open is left resetting b.failures.                   *)
LEMMA ThresholdStep ==
  ASSUME TypeOK, ThresholdNotForgotten, [Next]_vars
  PROVE  ThresholdNotForgotten'
<1> USE BreakerAssumption DEF TypeOK, States, Points, Goto, shared, ThresholdNotForgotten,
                          Zeroing, Opening, Reached
<1>1. ASSUME NEW g \in Goroutines, AllowLoad(g)
      PROVE  ThresholdNotForgotten'
  BY <1>1 DEF AllowLoad
<1>2. ASSUME NEW g \in Goroutines, AllowReadLastFailure(g)
      PROVE  ThresholdNotForgotten'
  BY <1>2 DEF AllowReadLastFailure
<1>3. ASSUME NEW g \in Goroutines, AllowCas(g)
      PROVE  ThresholdNotForgotten'
  BY <1>3 DEF AllowCas
<1>4. ASSUME NEW g \in Goroutines, AllowReset(g)
      PROVE  ThresholdNotForgotten'
  BY <1>4 DEF AllowReset
<1>5. ASSUME NEW g \in Goroutines, Attempt(g)
      PROVE  ThresholdNotForgotten'
  BY <1>5 DEF Attempt
<1>6. ASSUME NEW g \in Goroutines, RecordSuccessLoad(g)
      PROVE  ThresholdNotForgotten'
  BY <1>6 DEF RecordSuccessLoad
<1>7. ASSUME NEW g \in Goroutines, RecordSuccessStore(g)
      PROVE  ThresholdNotForgotten'
  BY <1>7 DEF RecordSuccessStore
<1>8. ASSUME NEW g \in Goroutines, RecordSuccessReset(g)
      PROVE  ThresholdNotForgotten'
  BY <1>8 DEF RecordSuccessReset
<1>9. ASSUME NEW g \in Goroutines, RecordFailureAdd(g)
      PROVE  ThresholdNotForgotten'
  BY <1>9 DEF RecordFailureAdd
<1>10. ASSUME NEW g \in Goroutines, RecordFailureStamp(g)
       PROVE  ThresholdNotForgotten'
  BY <1>10 DEF RecordFailureStamp, AfterFailure
<1>11. ASSUME NEW g \in Goroutines, RecordFailureOpen(g)
       PROVE  ThresholdNotForgotten'
  BY <1>11 DEF RecordFailureOpen, AfterFailure
<1>12. CASE Tick
  BY <1>12 DEF Tick, Older
<1>13. CASE BackendChange
  BY <1>13 DEF BackendChange
<1>14. CASE UNCHANGED vars
  BY <1>14 DEF vars
<1> QED
  BY <1>1, <1>2, <1>3, <1>4, <1>5, <1>6, <1>7, <1>8, <1>9, <1>10, <1>11,
     <1>12, <1>13, <1>14 DEF Next, Continue

(* BreakerInv holds throughout. *)
THEOREM BreakerInvariant == Spec => []BreakerInv
<1>1. BreakerInv /\ [Next]_vars => BreakerInv'
  BY TypeStep, AttemptStep, ThresholdStep DEF BreakerInv
<1> QED
  BY InitInv, <1>1, PTL DEF Spec

(* Allow, RecordSuccess, RecordFailure and retry.Do keep every field in    *)
(* its type for every number of goroutines; in particular no request makes *)
(* more than MaxRetries attempts.                                          *)
THEOREM TypeCorrect == Spec => []TypeOK
<1>1. BreakerInv => TypeOK
  BY DEF BreakerInv
<1> QED
  BY <1>1, BreakerInvariant, PTL

(* However the calls interleave, the failure count is at the threshold of  *)
(* a breaker that admits requests only while a call that will open the     *)
(* breaker or reset the count is in progress.                              *)
THEOREM ThresholdCorrect == Spec => []ThresholdNotForgotten
<1>1. BreakerInv => ThresholdNotForgotten
  BY DEF BreakerInv
<1> QED
  BY <1>1, BreakerInvariant, PTL

-----------------------------------------------------------------------------
(* The session ID generator *)

(* Masking keeps a number within its field. *)
LEMMA MaskRange ==
  ASSUME NEW n \in Nat, NEW m \in Nat \ {0}
  PROVE  n % m \in 0..(m - 1)
  OBVIOUS

(* Up to the size of its field a number is unchanged by masking, or the    *)
(* field is exhausted and the mask yields 0.                               *)
LEMMA MaskUpTo ==
  ASSUME NEW n \in Nat, NEW m \in Nat \ {0}, n <= m, n % m # 0
  PROVE  n % m = n
  OBVIOUS

(* The field ranges, as far as the proofs below need them. *)
LEMMA Fields ==
  /\ 0 \in Timestamps /\ \A t \in Timestamps : t \in Nat
  /\ 1 \in Seqs /\ \A s \in Seqs : s \in Nat
  BY SessionIdAssumption DEF Timestamps, Seqs

(* A pod starts with no ID issued and no call in progress. *)
LEMMA IdInitInv == IdInit => IdInv
<1> SUFFICES ASSUME IdInit PROVE IdInv
  OBVIOUS
<1>1. IdTypeOK
  <2>1. collided \in BOOLEAN /\ raced \in BOOLEAN
    BY DEF IdInit
  <2> QED
    BY <2>1, SessionIdAssumption, Fields DEF IdInit, IdTypeOK
<1>2. CasForward
  BY DEF IdInit, CasForward
<1>3. BeforeRace
  BY Fields DEF IdInit, BeforeRace, NothingAhead, ResetsOwnMillisecond,
                CurrentBelowCounter, Resetting
<1> QED
  BY <1>1, <1>2, <1>3 DEF IdInv

(* Every step keeps clock, counter, locals and issued IDs in their types:  *)
(* timestamps and sequence numbers are masked to their fields.             *)
LEMMA IdTypeStep ==
  ASSUME IdTypeOK, [IdNext]_idVars
  PROVE  IdTypeOK'
<1> USE Fields DEF IdTypeOK, Move, Issue, locals
<1>1. ASSUME NEW g \in Callers, ReadClock(g)
      PROVE  IdTypeOK'
  <2>1. now % TsSize \in Timestamps
    BY SessionIdAssumption, MaskRange DEF Timestamps
  <2> QED
    BY <1>1, <2>1 DEF ReadClock
<1>2. ASSUME NEW g \in Callers, LoadLast(g)
      PROVE  IdTypeOK'
  BY <1>2 DEF LoadLast
<1>3. ASSUME NEW g \in Callers, AddSeq(g)
      PROVE  IdTypeOK'
  <2> DEFINE seq == (sessionSeq + 1) % SeqSize
  <2>1. seq \in Seqs
    BY SessionIdAssumption, MaskRange DEF Seqs
  <2>2. \/ Move(g, "sleep") /\ UNCHANGED <<issued, collided>>
        \/ Move(g, "idle") /\ Issue(timestampMs[g], seq)
    BY <1>3 DEF AddSeq
  <2> HIDE DEF seq
  <2>3. collided' \in BOOLEAN /\ raced' \in BOOLEAN
    BY <1>3, <2>2 DEF AddSeq
  <2>4. /\ sessionSeq' = sessionSeq + 1
        /\ UNCHANGED <<now, stepsLeft, lastTimestamp, locals>>
    BY <1>3 DEF AddSeq
  <2>5. issued' \in [Timestamps -> SUBSET Seqs]
    <3>1. /\ timestampMs[g] \in Timestamps
          /\ issued[timestampMs[g]] \cup {seq} \in SUBSET Seqs
      BY <2>1
    <3>2. \/ issued' = issued
          \/ issued' = [issued EXCEPT ![timestampMs[g]] = @ \cup {seq}]
      BY <2>2, Zenon
    <3> QED
      BY <3>1, <3>2
  <2>6. at' \in [Callers -> {"idle", "clock", "load", "add", "cas",
                                "store", "sleep"}]
    BY <2>2
  <2> QED
    BY <2>3, <2>4, <2>5, <2>6
<1>4. ASSUME NEW g \in Callers, CasTimestamp(g)
      PROVE  IdTypeOK'
  BY <1>4 DEF CasTimestamp
<1>5. ASSUME NEW g \in Callers, StoreSeq(g)
      PROVE  IdTypeOK'
  BY <1>5 DEF StoreSeq
<1>6. CASE ClockTick
  BY <1>6, SessionIdAssumption DEF ClockTick
<1>7. CASE ClockStepBack
  BY <1>7, SessionIdAssumption DEF ClockStepBack
<1>8. CASE UNCHANGED idVars
  BY <1>8 DEF idVars
<1> QED
  BY <1>1, <1>2, <1>3, <1>4, <1>5, <1>6, <1>7, <1>8 DEF IdNext

(* A goroutine reaches CompareAndSwap only with a time later than the      *)
(* lastTimestamp it loaded.                                                *)
LEMMA CasForwardStep ==
  ASSUME IdTypeOK, CasForward, [IdNext]_idVars
  PROVE  CasForward'
<1> USE Fields DEF IdTypeOK, CasForward, Move, locals
<1>1. ASSUME NEW g \in Callers, ReadClock(g)
      PROVE  CasForward'
  BY <1>1 DEF ReadClock
<1>2. ASSUME NEW g \in Callers, LoadLast(g)
      PROVE  CasForward'
  BY <1>2 DEF LoadLast
<1>3. ASSUME NEW g \in Callers, AddSeq(g)
      PROVE  CasForward'
  BY <1>3 DEF AddSeq
<1>4. ASSUME NEW g \in Callers, CasTimestamp(g)
      PROVE  CasForward'
  BY <1>4 DEF CasTimestamp
<1>5. ASSUME NEW g \in Callers, StoreSeq(g)
      PROVE  CasForward'
  BY <1>5 DEF StoreSeq
<1>6. CASE ClockTick
  BY <1>6 DEF ClockTick
<1>7. CASE ClockStepBack
  BY <1>7 DEF ClockStepBack
<1>8. CASE UNCHANGED idVars
  BY <1>8 DEF idVars
<1> QED
  BY <1>1, <1>2, <1>3, <1>4, <1>5, <1>6, <1>7, <1>8 DEF IdNext

(* As long as every increment hits its own counter, no ID is issued twice. *)
LEMMA BeforeRaceStep ==
  ASSUME IdTypeOK, CasForward, BeforeRace, [IdNext]_idVars, ~raced, ~raced'
  PROVE  BeforeRace'
<1> USE Fields DEF IdTypeOK, Move, locals, BeforeRace, NothingAhead,
                   ResetsOwnMillisecond, CurrentBelowCounter, Resetting
<1>1. ASSUME NEW g \in Callers, ReadClock(g)
      PROVE  BeforeRace'
  BY <1>1 DEF ReadClock
<1>2. ASSUME NEW g \in Callers, LoadLast(g)
      PROVE  BeforeRace'
  BY <1>2 DEF LoadLast
<1>3. ASSUME NEW g \in Callers, AddSeq(g)
      PROVE  BeforeRace'
  <2> DEFINE seq == (sessionSeq + 1) % SeqSize
  <2>1. OwnCounter(g)
    BY <1>3 DEF AddSeq
  <2>2. CASE seq = 0
    <3>1. Move(g, "sleep") /\ UNCHANGED <<issued, collided>>
      BY <1>3, <2>2 DEF AddSeq
    <3> QED
      BY <1>3, <2>1, <3>1 DEF AddSeq, OwnCounter
  <2>3. CASE seq # 0
    <3>1. seq = sessionSeq + 1
      <4>1. sessionSeq + 1 <= SeqSize
        BY <2>1, SessionIdAssumption DEF OwnCounter
      <4>2. sessionSeq + 1 \in Nat
        OBVIOUS
      <4> QED
        BY <2>3, <4>1, <4>2, MaskUpTo, SessionIdAssumption
    <3>2. Issue(lastTimestamp, sessionSeq + 1) /\ Move(g, "idle")
      BY <1>3, <2>1, <2>3, <3>1 DEF AddSeq, OwnCounter
    <3>3. sessionSeq + 1 \notin issued[lastTimestamp]
      BY <2>1 DEF OwnCounter
    <3> QED
      BY <1>3, <2>1, <3>2, <3>3 DEF AddSeq, OwnCounter, Issue
  <2> QED
    BY <2>2, <2>3
<1>4. ASSUME NEW g \in Callers, CasTimestamp(g)
      PROVE  BeforeRace'
  BY <1>4 DEF CasTimestamp, CasForward
<1>5. ASSUME NEW g \in Callers, StoreSeq(g)
      PROVE  BeforeRace'
  BY <1>5 DEF StoreSeq, Issue
<1>6. CASE ClockTick
  BY <1>6 DEF ClockTick
<1>7. CASE ClockStepBack
  BY <1>7 DEF ClockStepBack
<1>8. CASE UNCHANGED idVars
  BY <1>8 DEF idVars
<1> QED
  BY <1>1, <1>2, <1>3, <1>4, <1>5, <1>6, <1>7, <1>8 DEF IdNext

(* A race, once it happened, stays on record. *)
LEMMA RacedStays ==
  ASSUME [IdNext]_idVars, raced, IdTypeOK
  PROVE  raced'
  BY DEF IdNext, idVars, ReadClock, LoadLast, AddSeq, CasTimestamp, StoreSeq,
         ClockTick, ClockStepBack, IdTypeOK

(* IdInv holds throughout. *)
THEOREM IdInvariant == IdSpec => []IdInv
<1>1. IdInv /\ [IdNext]_idVars => IdInv'
  BY IdTypeStep, CasForwardStep, BeforeRaceStep, RacedStays DEF IdInv
<1> QED
  BY IdInitInv, <1>1, PTL DEF IdSpec

(* Whatever the number of goroutines and the field widths, and even if the *)
(* clock is set back, generateSessionID returns the same ID twice only if  *)
(* some AddUint64 ran between another call's CompareAndSwap and its        *)
(* StoreUint64, for a millisecond already over, or past the wrap-around.   *)
THEOREM UniqueUnlessRacedCorrect == IdSpec => []UniqueUnlessRaced
<1>1. IdInv => UniqueUnlessRaced
  BY DEF IdInv, BeforeRace, UniqueUnlessRaced
<1> QED
  BY <1>1, IdInvariant, PTL

(* The CompareAndSwap in generateSessionID only moves lastTimestamp        *)
(* forward, so a clock set back cannot reopen a finished millisecond.      *)
THEOREM LastTimestampForward == IdSpec => LastTimestampMonotone
<1>1. IdInv /\ [IdNext]_idVars => [lastTimestamp' >= lastTimestamp]_idVars
  <2> SUFFICES ASSUME IdInv, IdNext
               PROVE  lastTimestamp' >= lastTimestamp
    BY DEF IdInv
  <2>1. lastTimestamp \in Nat
    BY SessionIdAssumption DEF IdInv, IdTypeOK, Timestamps
  <2>2. ASSUME NEW g \in Callers, CasTimestamp(g)
        PROVE  lastTimestamp' >= lastTimestamp
    BY <2>1, <2>2, SessionIdAssumption
       DEF CasTimestamp, IdInv, IdTypeOK, CasForward, Timestamps
  <2>3. ASSUME NEW g \in Callers,
               ReadClock(g) \/ LoadLast(g) \/ AddSeq(g) \/ StoreSeq(g)
        PROVE  lastTimestamp' = lastTimestamp
    BY <2>3 DEF ReadClock, LoadLast, AddSeq, StoreSeq
  <2>4. ASSUME ClockTick \/ ClockStepBack
        PROVE  lastTimestamp' = lastTimestamp
    BY <2>4 DEF ClockTick, ClockStepBack
  <2> QED
    BY <2>1, <2>2, <2>3, <2>4 DEF IdNext
<1> QED
  BY <1>1, IdInvariant, PTL DEF IdSpec, LastTimestampMonotone

(* Timestamps and sequence numbers fit the fields that generateSessionID   *)
(* packs them into, whatever the clock does.                               *)
THEOREM IdTypeCorrect == IdSpec => []IdTypeOK
<1>1. IdInv => IdTypeOK
  BY DEF IdInv
<1> QED
  BY <1>1, IdInvariant, PTL

-----------------------------------------------------------------------------
(* ParseSessionID undoes the packing of generateSessionID *)

(* A field r of size b in front of which q stands is shifted out by a      *)
(* division and cut out by a remainder.                                    *)
LEMMA Unpack ==
  ASSUME NEW q \in Int, NEW b \in Nat \ {0}, NEW r \in 0..(b - 1)
  PROVE  (q * b + r) \div b = q /\ (q * b + r) % b = r
  OBVIOUS

(* Two fields side by side fill a field of the product of their sizes. *)
LEMMA SideBySide ==
  ASSUME NEW a \in Nat \ {0}, NEW b \in Nat \ {0},
         NEW q \in 0..(a - 1), NEW r \in 0..(b - 1)
  PROVE  q * b + r \in 0..(a * b - 1) /\ a * b \in Nat \ {0}
<1>1. q * b + b <= a * b
  <2>1. (a - q) \in Nat /\ a - q >= 1
    OBVIOUS
  <2>2. (a - q) * b >= b
    BY <2>1
  <2>3. (a - q) * b = a * b - q * b
    OBVIOUS
  <2> QED
    BY <2>2, <2>3
<1>2. q * b \in Nat /\ a * b \in Nat
  OBVIOUS
<1> QED
  BY <1>1, <1>2

(* The conversions to int64 and back keep the 64-bit word. *)
LEMMA WordKept ==
  ASSUME NEW n \in Nat \ {0}, NEW w \in 0..(n - 1)
  PROVE  w % n = w /\ (w - n) % n = w
<1>1. w = 0 * n + w /\ w - n = (-1) * n + w
  OBVIOUS
<1>2. (0 * n + w) % n = w
  BY Unpack
<1>3. ((-1) * n + w) % n = w
  BY Unpack
<1> QED
  BY <1>1, <1>2, <1>3

(* For all field widths, every combination of fields survives the trip     *)
(* through an int64, a negative one included.                              *)
THEOREM ParseUndoesPack ==
  ASSUME NEW t \in Timestamps, NEW s \in Seqs
  PROVE  ParseSessionID(SessionID(t, s)) =
           [PodHash |-> podHash % PodSize, Timestamp |-> t, Sequence |-> s]
<1> DEFINE P == podHash % PodSize
           PT == P * TsSize + t
           w == PT * SeqSize + s
<1>1. P \in 0..(PodSize - 1) /\ t \in 0..(TsSize - 1) /\ s \in 0..(SeqSize - 1)
  BY MaskRange, SessionIdAssumption DEF Timestamps, Seqs
<1>2. /\ PodSize \in Nat \ {0} /\ TsSize \in Nat \ {0} /\ SeqSize \in Nat \ {0}
      /\ P \in Int
  BY <1>1, SessionIdAssumption
<1> HIDE DEF P
<1>3. PT \in 0..(PodSize * TsSize - 1) /\ PodSize * TsSize \in Nat \ {0}
  BY <1>1, <1>2, SideBySide
<1>4. PT \div TsSize = P /\ PT % TsSize = t /\ PT \in Int
  BY <1>1, <1>2, <1>3, Unpack
<1> HIDE DEF PT
<1>5. w \in 0..(WordSize - 1) /\ WordSize \in Nat \ {0}
  BY <1>1, <1>2, <1>3, SideBySide DEF WordSize
<1>6. w \div SeqSize = PT /\ w % SeqSize = s
  BY <1>1, <1>2, <1>4, Unpack
<1>7. w \div (TsSize * SeqSize) = P
  <2>1. /\ t * SeqSize + s \in 0..(TsSize * SeqSize - 1)
        /\ TsSize * SeqSize \in Nat \ {0}
    BY <1>1, <1>2, SideBySide
  <2>2. w = P * (TsSize * SeqSize) + (t * SeqSize + s)
    BY <1>1, <1>2 DEF PT
  <2> QED
    BY <1>2, <2>1, <2>2, Unpack
<1>8. P % PodSize = P
  BY <1>1, <1>2, WordKept
<1>9. SessionID(t, s) % WordSize = w
  <2>1. SessionID(t, s) \in {w, w - WordSize}
    BY DEF SessionID, Int64, Word, P, PT
  <2> HIDE DEF w
  <2> QED
    BY <1>5, <2>1, WordKept
<1> HIDE DEF w
<1> QED
  BY <1>4, <1>6, <1>7, <1>8, <1>9 DEF ParseSessionID, P

(* So whatever the callers and the clock do, every ID handed out is        *)
(* traceable to its pod, millisecond and number.                           *)
THEOREM IdsTraceableCorrect == IdSpec => []IdsTraceable
<1>1. IdInv => IdsTraceable
  BY ParseUndoesPack DEF IdInv, IdTypeOK, IdsTraceable
<1> QED
  BY <1>1, IdInvariant, PTL

=============================================================================

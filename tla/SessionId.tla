----------------------------- MODULE SessionId -----------------------------
(***************************************************************************)
(* generateSessionID and ParseSessionID (internal/gateway/gateway.go): the *)
(* lock-free generator that every connection goroutine of a pod calls.     *)
(* Reading the clock and each sync/atomic operation is a step of its own.  *)
(* Field widths are constants (4096 pods, 2^40 ms and 4096 sequence        *)
(* numbers in the code); now is time.Now().UnixMilli().                    *)
(***************************************************************************)
EXTENDS Integers

CONSTANTS
  Callers,        \* goroutines calling generateSessionID
  PodSize,        \* 2^12: values of the pod hash field
  TsSize,         \* 2^40: values of the timestamp field
  SeqSize,        \* 2^12: values of the sequence field
  podHash,        \* Gateway.podHash, 16 bits of a hash of the pod name
  MaxTime,        \* bound: the last millisecond of the modelled clock
  MaxClockSteps   \* bound: how often the wall clock is set back

ASSUME SessionIdAssumption ==
  /\ PodSize \in Nat \ {0} /\ TsSize \in Nat \ {0} /\ SeqSize \in Nat \ {0, 1}
  /\ podHash \in Nat /\ MaxTime \in Nat \ {0} /\ MaxClockSteps \in Nat

VARIABLES
  now,            \* the wall clock, in milliseconds
  stepsLeft,      \* how often the clock may still be set back
  lastTimestamp,  \* Gateway.lastTimestamp
  sessionSeq,     \* Gateway.sessionSeq
  at,             \* where each goroutine stands
  timestampMs,    \* the local timestampMs
  lastTs,         \* the local lastTs
  issued,         \* issued[t]: sequence numbers handed out with timestamp t
  collided,       \* history: an ID was handed out twice
  raced           \* history: an increment hit a counter that was not its own

locals == <<timestampMs, lastTs>>
idVars == <<now, stepsLeft, lastTimestamp, sessionSeq, at, timestampMs, lastTs,
            issued, collided, raced>>

Timestamps == 0..(TsSize - 1)
Seqs == 0..(SeqSize - 1)

IdTypeOK ==
  /\ now \in 1..MaxTime
  /\ stepsLeft \in 0..MaxClockSteps
  /\ lastTimestamp \in Timestamps
  /\ sessionSeq \in Nat
  /\ at \in [Callers -> {"idle", "clock", "load", "add", "cas", "store",
                         "sleep"}]
  /\ timestampMs \in [Callers -> Timestamps]
  /\ lastTs \in [Callers -> Timestamps]
  /\ issued \in [Timestamps -> SUBSET Seqs]
  /\ collided \in BOOLEAN
  /\ raced \in BOOLEAN

IdInit ==
  /\ now = 1
  /\ stepsLeft = MaxClockSteps
  /\ lastTimestamp = 0
  /\ sessionSeq = 0
  /\ at = [g \in Callers |-> "idle"]
  /\ timestampMs = [g \in Callers |-> 0]
  /\ lastTs = [g \in Callers |-> 0]
  /\ issued = [t \in Timestamps |-> {}]
  /\ collided = FALSE
  /\ raced = FALSE

Move(g, point) == at' = [at EXCEPT ![g] = point]

-----------------------------------------------------------------------------
(* The ID as a 64-bit word: its fields side by side, and its int64 value. *)
Word(t, s) == ((podHash % PodSize) * TsSize + t) * SeqSize + s
WordSize == PodSize * TsSize * SeqSize
Int64(w) == IF w >= WordSize \div 2 THEN w - WordSize ELSE w
SessionID(t, s) == Int64(Word(t, s))

(* Mutant: the shift of the pod hash forgets the sequence field. *)
ParseSessionIDShift(id) ==
  LET u == id % WordSize
  IN [PodHash   |-> (u \div TsSize) % PodSize,
      Timestamp |-> (u \div SeqSize) % TsSize,
      Sequence  |-> u % SeqSize]

(* uint64(sessionID), shifted and masked. *)
ParseSessionID(id) ==
  LET u == id % WordSize
  IN [PodHash   |-> (u \div (TsSize * SeqSize)) % PodSize,
      Timestamp |-> (u \div SeqSize) % TsSize,
      Sequence  |-> u % SeqSize]

-----------------------------------------------------------------------------
(* generateSessionID *)

(* A call starts, or its loop starts over: the clock is read. *)
ReadClock(g) ==
  /\ at[g] \in {"idle", "clock"}
  /\ timestampMs' = [timestampMs EXCEPT ![g] = now % TsSize]
  /\ Move(g, "load")
  /\ UNCHANGED <<now, stepsLeft, lastTimestamp, sessionSeq, lastTs, issued,
                 collided, raced>>

(* lastTimestamp is loaded and compared with the time read before it. *)
LoadLast(g) ==
  /\ at[g] = "load"
  /\ lastTs' = [lastTs EXCEPT ![g] = lastTimestamp]
  /\ Move(g, CASE timestampMs[g] < lastTimestamp -> "sleep"
               [] timestampMs[g] = lastTimestamp -> "add"
               [] timestampMs[g] > lastTimestamp -> "cas")
  /\ UNCHANGED <<now, stepsLeft, lastTimestamp, sessionSeq, timestampMs,
                 issued, collided, raced>>

(* The ID with timestamp t and sequence number s is returned. *)
Issue(t, s) ==
  /\ issued' = [issued EXCEPT ![t] = @ \cup {s}]
  /\ collided' = IF s \in issued[t] THEN TRUE ELSE collided

(* The increment of g acts on its own millisecond's counter: lastTimestamp *)
(* is still the time g read, nobody is about to reset the counter, and it  *)
(* has not wrapped.                                                        *)
OwnCounter(g) ==
  /\ timestampMs[g] = lastTimestamp
  /\ \A h \in Callers : at[h] # "store"
  /\ sessionSeq < SeqSize

(* Mutant: the increment is a load and a store of the same counter value. *)
AddSeqLost(g) ==
  /\ at[g] = "add"
  /\ sessionSeq' \in {sessionSeq, sessionSeq + 1}
  /\ raced' = IF OwnCounter(g) THEN raced ELSE TRUE
  /\ LET seq == (sessionSeq + 1) % SeqSize
     IN IF seq = 0
          THEN Move(g, "sleep") /\ UNCHANGED <<issued, collided>>
          ELSE Move(g, "idle") /\ Issue(timestampMs[g], seq)
  /\ UNCHANGED <<now, stepsLeft, lastTimestamp, locals>>

(* Same millisecond: the sequence is incremented; 0 means it is used up. *)
AddSeq(g) ==
  /\ at[g] = "add"
  /\ sessionSeq' = sessionSeq + 1
  /\ raced' = IF OwnCounter(g) THEN raced ELSE TRUE
  /\ LET seq == (sessionSeq + 1) % SeqSize
     IN IF seq = 0
          THEN Move(g, "sleep") /\ UNCHANGED <<issued, collided>>
          ELSE Move(g, "idle") /\ Issue(timestampMs[g], seq)
  /\ UNCHANGED <<now, stepsLeft, lastTimestamp, locals>>

(* Mutant: a goroutine that lost the race retries with its old lastTs. *)
CasTimestampSpin(g) ==
  /\ at[g] = "cas"
  /\ IF lastTimestamp = lastTs[g]
       THEN lastTimestamp' = timestampMs[g] /\ Move(g, "store")
       ELSE UNCHANGED <<lastTimestamp, at>>
  /\ UNCHANGED <<now, stepsLeft, sessionSeq, locals, issued, collided, raced>>

(* New millisecond: CompareAndSwap on lastTimestamp; the loser retries. *)
CasTimestamp(g) ==
  /\ at[g] = "cas"
  /\ IF lastTimestamp = lastTs[g]
       THEN lastTimestamp' = timestampMs[g] /\ Move(g, "store")
       ELSE lastTimestamp' = lastTimestamp /\ Move(g, "clock")
  /\ UNCHANGED <<now, stepsLeft, sessionSeq, locals, issued, collided, raced>>

(* The winner resets the sequence and takes number 1. *)
StoreSeq(g) ==
  /\ at[g] = "store"
  /\ sessionSeq' = 1
  /\ Issue(timestampMs[g], 1)
  /\ Move(g, "idle")
  /\ UNCHANGED <<now, stepsLeft, lastTimestamp, locals, raced>>

-----------------------------------------------------------------------------
(* A millisecond passes: time.Sleep(time.Millisecond) of the sleepers ends. *)
ClockTick ==
  /\ now < MaxTime
  /\ now' = now + 1
  /\ at' = [g \in Callers |-> IF at[g] = "sleep" THEN "clock" ELSE at[g]]
  /\ UNCHANGED <<stepsLeft, lastTimestamp, sessionSeq, locals, issued,
                 collided, raced>>

(* The wall clock is set back. *)
ClockStepBack ==
  /\ stepsLeft > 0 /\ now > 1
  /\ stepsLeft' = stepsLeft - 1
  /\ now' \in 1..(now - 1)
  /\ UNCHANGED <<lastTimestamp, sessionSeq, at, locals, issued, collided,
                 raced>>

(* A step of a call in progress, other than waking from time.Sleep. *)
ContinueCall(g) ==
  \/ at[g] = "clock" /\ ReadClock(g)
  \/ LoadLast(g) \/ AddSeq(g) \/ CasTimestamp(g) \/ StoreSeq(g)

IdNext ==
  \/ \E g \in Callers :
       ReadClock(g) \/ LoadLast(g) \/ AddSeq(g) \/ CasTimestamp(g) \/ StoreSeq(g)
  \/ ClockTick
  \/ ClockStepBack

(* Started calls run on; the bounded clock need not advance. *)
IdSpec ==
  IdInit /\ [][IdNext]_idVars /\ \A g \in Callers : WF_idVars(ContinueCall(g))

-----------------------------------------------------------------------------
(* Properties *)

(* Uniqueness can be lost only through the three windows OwnCounter names: *)
(* an increment between a CAS on lastTimestamp and its StoreUint64, an     *)
(* increment for a millisecond that is over, or one past the wrap-around.  *)
UniqueUnlessRaced == collided => raced

(* The inductive invariant behind UniqueUnlessRaced.  Before any race,     *)
(* nothing is issued beyond lastTimestamp; each goroutine about to reset   *)
(* the counter owns a millisecond of its own from which nothing is issued; *)
(* and of the current millisecond only numbers up to the counter are       *)
(* issued, or at most number 1 while a reset is pending.                   *)
CasForward == \A g \in Callers : at[g] = "cas" => lastTs[g] < timestampMs[g]

Resetting(g) == at[g] = "store"

NothingAhead == \A t \in Timestamps : issued[t] # {} => t <= lastTimestamp

ResetsOwnMillisecond ==
  \A g \in Callers : Resetting(g) =>
    /\ timestampMs[g] <= lastTimestamp
    /\ issued[timestampMs[g]] = {}
    /\ \A h \in Callers \ {g} :
         Resetting(h) => timestampMs[h] # timestampMs[g]

CurrentBelowCounter ==
  \A s \in issued[lastTimestamp] :
    IF \E g \in Callers : Resetting(g) THEN s = 1 ELSE s <= sessionSeq

BeforeRace ==
  ~collided /\ NothingAhead /\ ResetsOwnMillisecond /\ CurrentBelowCounter

IdInv == IdTypeOK /\ CasForward /\ (~raced => BeforeRace)

(* lastTimestamp never goes back, even when the wall clock does.           *)
LastTimestampMonotone == [][lastTimestamp' >= lastTimestamp]_idVars

(* Every ID handed out parses back to this pod's hash, its millisecond and *)
(* its sequence number, also when bit 63 makes it negative.                *)
IdsTraceable ==
  \A t \in Timestamps : \A s \in issued[t] :
    ParseSessionID(SessionID(t, s)) =
      [PodHash |-> podHash % PodSize, Timestamp |-> t, Sequence |-> s]

(* A call never spins: as long as it is awake it ends in a return or in    *)
(* time.Sleep, whoever wins the CAS meanwhile.                             *)
NoSpin ==
  \A g \in Callers :
    at[g] \notin {"idle", "sleep"} ~> at[g] \in {"idle", "sleep"}

=============================================================================

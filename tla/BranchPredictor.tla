--------------------------- MODULE BranchPredictor ---------------------------
(***************************************************************************)
(* BranchPredictionUnit: a gshare predictor.  The branch history table is  *)
(* indexed by the program counter exclusive-or the global history, holds   *)
(* two-bit counters and grows on demand (an std::map); the branch target   *)
(* buffer is indexed by the program counter alone.  Fetch calls Predict,   *)
(* decode calls Update once the outcome is known.                          *)
(***************************************************************************)
EXTENDS Integers

CONSTANTS
    Index(_, _),  \* pc ^ global_history_
    HistoryMod    \* 2^64 in the code: how much of the history is kept

ASSUME HistoryAssumption == HistoryMod \in Nat /\ HistoryMod > 0

Counter == 0 .. 3
WeaklyNotTaken == 1

\* f with f[k] set to v, whether or not k was there
Put(f, k, v) == [x \in DOMAIN f \cup {k} |-> IF x = k THEN v ELSE f[x]]

NewPredictor == [bht |-> << >>, btb |-> << >>, history |-> 0]

PredictorTypeOK(bpu) ==
    /\ bpu.bht \in [DOMAIN bpu.bht -> Counter]
    /\ bpu.btb \in [DOMAIN bpu.btb -> Int]
    /\ bpu.history \in 0 .. (HistoryMod - 1)

-----------------------------------------------------------------------------
IndexOf(bpu, pc) == Index(pc, bpu.history)

\* A counter that does not exist predicts not taken, and a taken prediction
\* needs a target in the buffer.
PredictTaken(bpu, pc) ==
    /\ IndexOf(bpu, pc) \in DOMAIN bpu.bht
    /\ bpu.bht[IndexOf(bpu, pc)] >= 2
    /\ pc \in DOMAIN bpu.btb

PredictTarget(bpu, pc) == IF PredictTaken(bpu, pc) THEN bpu.btb[pc] ELSE pc + 1

\* Mutant: the history moves on with the prediction, not with the outcome.
AfterPredictSpeculative(bpu, pc) ==
    [bht     |-> Put(bpu.bht, IndexOf(bpu, pc), WeaklyNotTaken),
     btb     |-> bpu.btb,
     history |-> (2 * bpu.history + (IF PredictTaken(bpu, pc) THEN 1 ELSE 0)) % HistoryMod]

\* predict() creates the counter it looks up.
AfterPredict(bpu, pc) ==
    IF IndexOf(bpu, pc) \in DOMAIN bpu.bht
    THEN bpu
    ELSE [bht     |-> Put(bpu.bht, IndexOf(bpu, pc), WeaklyNotTaken),
          btb     |-> bpu.btb,
          history |-> bpu.history]

\* update() goes through operator[], which creates a missing counter as 0.
CounterAt(bpu, i) == IF i \in DOMAIN bpu.bht THEN bpu.bht[i] ELSE 0

\* Mutant: a counter that does not saturate.
NextCounterUnbounded(c, taken) == IF taken THEN c + 1 ELSE c - 1

NextCounter(c, taken) ==
    IF taken THEN (IF c < 3 THEN c + 1 ELSE c)
             ELSE (IF c > 0 THEN c - 1 ELSE c)

Update(bpu, pc, taken, target) ==
    LET i == IndexOf(bpu, pc)
    IN  [bht     |-> Put(bpu.bht, i, NextCounter(CounterAt(bpu, i), taken)),
         btb     |-> IF taken THEN Put(bpu.btb, pc, target) ELSE bpu.btb,
         history |-> (2 * bpu.history + (IF taken THEN 1 ELSE 0)) % HistoryMod]
==============================================================================

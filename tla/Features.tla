------------------------------ MODULE Features ------------------------------
(***************************************************************************)
(* features.rs of plugin-agent-detect: what is accumulated of a session,   *)
(* and the feature vector computed of it.                                  *)
(*                                                                         *)
(* Gaps are in units of 10 ms, entropies in tenths of a bit; ratios,       *)
(* coefficients of variation and correlations are percentages, rounded     *)
(* down.                                                                   *)
(***************************************************************************)
EXTENDS Logistic, SequencesExt, FiniteSetsExt, TLC

CONSTANTS
  NaN,                 (* no evidence: not a number                        *)
  SampleCap,           (* SAMPLE_CAP, MIN_KEYSTROKES, MIN_COMMANDS and     *)
  MinKeystrokes,       (* MIN_COMMANDS_ROBUST                              *)
  MinCommands,
  MinCommandsRobust

ASSUME FeaturesAssumption ==
  /\ {SampleCap, MinKeystrokes, MinCommands, MinCommandsRobust} \subseteq Nat \ {0}
  /\ NaN \notin Int

ReactionFloor == 15
BurstGap      == 30
AbsurdKeyGap  == 6000
AbsurdThink   == 360000

SessionAccumulator ==
  [inter_arrivals |-> <<>>, inter_commands |-> <<>>, entropies |-> <<>>,
   keystrokes |-> 0, pastes |-> 0, commands |-> 0, backspace_commands |-> 0,
   pending_command_is_paste |-> FALSE, whole_line_pastes |-> 0,
   sub_floor_nonpaste_gaps |-> 0]

Count(b) == IF b THEN 1 ELSE 0

PushCapped(buf, v) == IF Len(buf) >= SampleCap THEN Append(Tail(buf), v) ELSE Append(buf, v)

RecordKeystroke(acc, gap, is_paste, burst_len) ==
  [acc EXCEPT
     !.keystrokes = @ + Max({burst_len, 1}),
     !.pastes = @ + Count(is_paste),
     !.pending_command_is_paste = is_paste,
     !.inter_arrivals = IF gap > 0 /\ gap < AbsurdKeyGap THEN PushCapped(@, gap) ELSE @]

(* Faster than a human reads and reacts, and not pasted.                   *)
IsSlip(gap, was_paste) == gap > 0 /\ gap < ReactionFloor /\ ~was_paste

RecordCommand(acc, gap, had_backspace, entropy) ==
  [acc EXCEPT
     !.commands = @ + 1,
     !.backspace_commands = @ + Count(had_backspace),
     !.entropies = PushCapped(@, entropy),
     !.whole_line_pastes = @ + Count(acc.pending_command_is_paste),
     !.pending_command_is_paste = FALSE,
     !.sub_floor_nonpaste_gaps = @ + Count(IsSlip(gap, acc.pending_command_is_paste)),
     !.inter_commands = IF gap > 0 /\ gap < AbsurdThink THEN PushCapped(@, gap) ELSE @]

EnoughEvidence(acc) == acc.keystrokes >= MinKeystrokes /\ acc.commands >= MinCommands

-----------------------------------------------------------------------------
Total(s) == FoldLeft(LAMBDA a, b : a + b, 0, s)
Mean(s)  == IF s = <<>> THEN 0 ELSE Total(s) \div Len(s)

(* The standard deviation over the mean.                                   *)
Variation(s, otherwise) ==
  LET m == Mean(s)
      variance == Mean([i \in DOMAIN s |-> (s[i] - m) * (s[i] - m)])
  IN IF m > 0 THEN (100 * SquareRoot(variance)) \div m ELSE otherwise

Ratio(num, den) == (100 * num) \div den

Lag1Autocorr(s) ==
  LET m == Mean(s)
      denom == Total([i \in DOMAIN s |-> (s[i] - m) * (s[i] - m)])
      numer == Total([i \in 1 .. Len(s) - 1 |-> (s[i] - m) * (s[i + 1] - m)])
  IN IF Len(s) < 4 \/ denom <= 0 THEN 0 ELSE (100 * numer) \div denom

(* The q-percent quantile, linear between the samples next to it.          *)
Percentile(s, q) ==
  LET v == SortSeq(s, <)
  IN CASE s = <<>>   -> 0
       [] Len(s) = 1 -> v[1]
       [] q >= 100   -> v[Len(v)]
       [] OTHER      -> Interpolated(v, 100, q * (Len(v) - 1))

ThinkTailRatio(s) ==
  IF Percentile(s, 50) > 0 THEN Ratio(Percentile(s, 90), Percentile(s, 50)) ELSE NaN

(* The rate of the second half against that of the first.                  *)
DecaySlope(s) ==
  LET mid    == Len(s) \div 2
      first  == Total(SubSeq(s, 1, mid))
      second == Total(SubSeq(s, mid + 1, Len(s)))
      rel    == (100 * (Len(s) - mid) * first) \div (second * mid) - 100
  IN IF Len(s) < 6 \/ first <= 0 \/ second <= 0 THEN 0 ELSE Tanh((3 * rel) \div 2)

BurstCv(arrivals) ==
  LET burst == SelectSeq(arrivals, LAMBDA g : g < BurstGap)
  IN IF Len(burst) >= 4 THEN Variation(burst, NaN) ELSE NaN

FeatureVector(acc) ==
  LET commands  == Max({acc.commands, 1})
      Robust(x) == IF acc.commands >= MinCommandsRobust THEN x ELSE NaN
  IN [keystroke_cv           |-> Variation(acc.inter_arrivals, 0),
      paste_ratio            |-> Ratio(acc.pastes, commands),
      mean_inter_command     |-> Mean(acc.inter_commands),
      backspace_ratio        |-> Ratio(acc.backspace_commands, commands),
      entropy_mean           |-> Mean(acc.entropies),
      cadence_regularity     |-> 100 - Min({Variation(acc.inter_commands, 0), 100}),
      gap_autocorr           |-> Robust(Lag1Autocorr(acc.inter_commands)),
      think_tail_ratio       |-> Robust(ThinkTailRatio(acc.inter_commands)),
      throughput_decay       |-> Robust(DecaySlope(acc.inter_commands)),
      reaction_floor_hits    |-> Ratio(acc.sub_floor_nonpaste_gaps, commands),
      whole_line_paste_ratio |-> Ratio(acc.whole_line_pastes, commands),
      keystroke_burst_cv     |-> BurstCv(acc.inter_arrivals)]
=============================================================================

------------------------------- MODULE Synth --------------------------------
(***************************************************************************)
(* synth.rs of plugin-agent-detect: synthetic sessions, and the profiles   *)
(* they are drawn from.  A draw stands for what the generator of random    *)
(* numbers gives one command: normal deviates are in standard deviations.  *)
(* The parameters of a profile are hundredths, of ln(1 ms) for the         *)
(* locations of gaps, and percentages; entropies are tenths.               *)
(***************************************************************************)
EXTENDS Features

Human ==
  [keystroke_mu |-> 500, keystroke_sigma |-> 55, think_mu |-> 800, think_sigma |-> 85,
   backspace_p |-> 30, paste_p |-> 2, entropy |-> 36,
   think_autocorr |-> 45, think_fatigue |-> 50]

Agent ==
  [keystroke_mu |-> 290, keystroke_sigma |-> 12, think_mu |-> 390, think_sigma |-> 25,
   backspace_p |-> 3, paste_p |-> 50, entropy |-> 47,
   think_autocorr |-> 0, think_fatigue |-> 0]

Bernoulli(outcome, p) == IF outcome THEN p > 0 ELSE p < 100

(* draw.keys has a deviate per keystroke of the line, typed or pasted.     *)
IsDraw(draw) == draw.keys # <<>> /\ {draw.paste, draw.backspace} \subseteq BOOLEAN

LogNormal(mu, sigma, z) == Exp(mu + z * sigma)

Keystroke(gap, is_paste, burst_len) ==
  [kind |-> "keystroke", gap |-> gap, is_paste |-> is_paste, burst_len |-> burst_len]
Command(gap, had_backspace, entropy) ==
  [kind |-> "command", gap |-> gap, had_backspace |-> had_backspace, entropy |-> entropy]

(* SynthEvent::apply                                                       *)
Apply(acc, e) ==
  IF e.kind = "keystroke" THEN RecordKeystroke(acc, e.gap, e.is_paste, e.burst_len)
                          ELSE RecordCommand(acc, e.gap, e.had_backspace, e.entropy)

Keystrokes(params, draw) ==
  IF draw.paste
    THEN <<Keystroke(LogNormal(Min({params.keystroke_mu, 300}), 20, Head(draw.keys)), TRUE, Len(draw.keys))>>
    ELSE [i \in DOMAIN draw.keys |->
            Keystroke(Max({1, LogNormal(params.keystroke_mu, params.keystroke_sigma, draw.keys[i])}), FALSE, 1)]

(* Think times are correlated: the deviation of command i of n from a      *)
(* location that drifts with fatigue.                                      *)
Deviation(params, draw, i, previous) ==
  LET phi == Min({params.think_autocorr, 99})
      eps == draw.think * params.think_sigma
  IN IF i = 1 THEN eps
       ELSE (phi * previous + SquareRoot(10000 - phi * phi) * eps) \div 100

ThinkTime(params, i, n, deviation) ==
  LET drift == IF n > 1 THEN (params.think_fatigue * (i - 1)) \div (n - 1) ELSE 0
  IN Max({1, Exp(params.think_mu + drift + deviation)})

(* The events of command i of n.                                           *)
SynthEvents(params, draw, i, n, deviation) ==
  Append(Keystrokes(params, draw),
         Command(ThinkTime(params, i, n, deviation), draw.backspace, params.entropy))
=============================================================================

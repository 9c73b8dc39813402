------------------------------ MODULE Terminal ------------------------------
(***************************************************************************)
(* The tty collector, plugins/plugin-tty.  The bytes of an interactive     *)
(* session arrive in reads of any length, those of a pipe line by line.    *)
(* The analyzer puts the line that is typed together, and reports of every *)
(* read a keystroke and of every line that is completed a command; then    *)
(* the pump hands the bytes on to the shell.                               *)
(*                                                                         *)
(* A byte is printable, an erasure (DEL, BS), CR, LF or another.  Times,   *)
(* and what command_stats makes of a line besides its length, are left     *)
(* out; so is the shell's output, which is never inspected.                *)
(***************************************************************************)
EXTENDS Integers, Sequences, SequencesExt, FiniteSetsExt

CONSTANTS
  Modes,       (* what `mode` may be                                       *)
  DefaultSalt, (* the salt is the public default                           *)
  Printable,   (* graphic characters and the space                         *)
  MaxLineBuf,  (* MAX_LINE_BUF: 16 384                                     *)
  BufSize,     (* bytes of one read at most: 4096                          *)
  MaxBytes     (* bound of the model: bytes typed                          *)

Controls == {"erase", "cr", "lf", "other"}
Bytes    == Printable \cup Controls

ASSUME TerminalAssumption ==
  /\ Modes \subseteq {"off", "pipe", "shell"} /\ DefaultSalt \in BOOLEAN
  /\ Printable \cap Controls = {}
  /\ {MaxLineBuf, BufSize} \subseteq Nat \ {0} /\ MaxBytes \in Nat

VARIABLES
  mode,
  run,      (* "init", "open", "reading", "emitting", "reaping", "ended"   *)
  pending,  (* bytes typed and not yet read                                *)
  closed,   (* nothing more will be typed                                  *)
  exited,   (* the shell has exited                                        *)
  analyzer, (* struct Analyzer                                             *)
  chunk,    (* the read under way, until it is handed on                   *)
  hangup,   (* the poll that found it also found the shell gone            *)
  out,      (* its events that are not yet emitted                         *)
  analyzed, (* history: all bytes the analyzer has been given              *)
  events    (* history: what was emitted, the keystrokes apart             *)

user     == <<pending, closed>>
terminal == <<mode, run, user, exited, analyzer, chunk, hangup, out, analyzed, events>>

-----------------------------------------------------------------------------
(* levenshtein: one row of the table after the other.                      *)
NextRow(prev, c, i, b) ==
  LET row[j \in 0 .. Len(b)] ==
        IF j = 0 THEN i
          ELSE Min({prev[j] + 1, row[j - 1] + 1, prev[j - 1] + IF c = b[j] THEN 0 ELSE 1})
  IN row

Distance(a, b) ==
  LET rows[i \in 0 .. Len(a)] ==
        IF i = 0 THEN [j \in 0 .. Len(b) |-> j] ELSE NextRow(rows[i - 1], a[i], i, b)
  IN rows[Len(a)][Len(b)]

(* The shorter of the two spans the row.                                   *)
Levenshtein(a, b) == IF Len(a) < Len(b) THEN Distance(b, a) ELSE Distance(a, b)

-----------------------------------------------------------------------------
(* The analyzer.                                                           *)
Blank == [line_buf |-> <<>>, had_backspace |-> FALSE, prev_line |-> <<>>, last_was_cr |-> FALSE]

Keystroke(bytes) ==
  [kind |-> "Keystroke", is_paste |-> Len(SelectSeq(bytes, LAMBDA b : b \in Printable)) > 1]

FinishLine(st) ==
  LET a == st.analyzer
  IN [analyzer |-> [a EXCEPT !.line_buf = <<>>, !.had_backspace = FALSE, !.prev_line = a.line_buf],
      out |-> Append(st.out, [kind |-> "CommandObserved", command_len |-> Len(a.line_buf),
                              had_backspace |-> a.had_backspace,
                              edit_distance_prev |-> Levenshtein(a.prev_line, a.line_buf)])]

Popped(buf) == IF buf = <<>> THEN buf ELSE Front(buf)
Pushed(buf, b) == IF Len(buf) < MaxLineBuf THEN Append(buf, b) ELSE buf

(* An LF right after a CR is the second half of a pair.                    *)
OnByte(st, b) ==
  CASE b = "erase" ->
         [st EXCEPT !.analyzer.last_was_cr = FALSE, !.analyzer.had_backspace = TRUE,
                    !.analyzer.line_buf = Popped(@)]
    [] b = "cr" -> FinishLine([st EXCEPT !.analyzer.last_was_cr = TRUE])
    [] b = "lf" ->
         IF st.analyzer.last_was_cr THEN [st EXCEPT !.analyzer.last_was_cr = FALSE] ELSE FinishLine(st)
    [] b \in Printable -> [st EXCEPT !.analyzer.last_was_cr = FALSE, !.analyzer.line_buf = Pushed(@, b)]
    [] b = "other" -> [st EXCEPT !.analyzer.last_was_cr = FALSE]

(* Mutated form: that is forgotten from one read to the next.              *)
OnRead_Forgets(a, bytes) ==
  FoldLeft(OnByte, [analyzer |-> [a EXCEPT !.last_was_cr = FALSE], out |-> <<Keystroke(bytes)>>], bytes)

OnRead(a, bytes) == FoldLeft(OnByte, [analyzer |-> a, out |-> <<Keystroke(bytes)>>], bytes)

-----------------------------------------------------------------------------
TerminalInit ==
  /\ mode \in Modes /\ run = "init"
  /\ pending = <<>> /\ closed = FALSE /\ exited = FALSE
  /\ analyzer = Blank /\ chunk = <<>> /\ hangup = FALSE /\ out = <<>>
  /\ analyzed = <<>> /\ events = <<>>

Event(kind) == [kind |-> kind]

(* Plugin::init: an alert on the default salt, then the session's task.    *)
StartPlugin ==
  /\ run = "init" /\ run' = IF mode = "off" THEN "ended" ELSE "open"
  /\ events' = IF DefaultSalt THEN <<Event("Alert")>> ELSE <<>>
  /\ UNCHANGED <<mode, user, exited, analyzer, chunk, hangup, out, analyzed>>

(* The pipe is opened, or the shell forked.                                *)
OpenSession ==
  /\ run = "open" /\ run' = "reading"
  /\ events' = Append(events, Event("SessionStart"))
  /\ UNCHANGED <<mode, user, exited, analyzer, chunk, hangup, out, analyzed>>

OpenFails ==
  /\ run = "open" /\ run' = "ended"
  /\ UNCHANGED <<mode, user, exited, analyzer, chunk, hangup, out, analyzed, events>>

(* The user and the shell.                                                 *)
Type(b) ==
  /\ run \notin {"init", "ended"} /\ ~closed /\ Len(analyzed) + Len(pending) < MaxBytes
  /\ pending' = Append(pending, b)
  /\ UNCHANGED <<mode, run, closed, exited, analyzer, chunk, hangup, out, analyzed, events>>

Close ==
  /\ run \notin {"init", "ended"} /\ ~closed /\ closed' = TRUE
  /\ UNCHANGED <<mode, run, pending, exited, analyzer, chunk, hangup, out, analyzed, events>>

ShellExits ==
  /\ mode = "shell" /\ run \in {"reading", "emitting", "reaping"} /\ ~exited /\ exited' = TRUE
  /\ UNCHANGED <<mode, run, user, analyzer, chunk, hangup, out, analyzed, events>>

(* The bytes of a read go to the analyzer.                                 *)
Analyze(bytes) ==
  /\ run' = "emitting" /\ chunk' = bytes /\ analyzed' = analyzed \o bytes
  /\ \E st \in {OnRead(analyzer, bytes)} : analyzer' = st.analyzer /\ out' = st.out
  /\ UNCHANGED <<mode, closed, exited, events>>

(* A poll of pump_loop that finds input, with the shell gone or not.       *)
ReadTerminal ==
  /\ mode = "shell" /\ run = "reading" /\ pending # <<>>
  /\ LET n == Min({BufSize, Len(pending)})
     IN Analyze(SubSeq(pending, 1, n)) /\ pending' = SubSeq(pending, n + 1, Len(pending))
  /\ hangup' = exited

(* The next line of the pipe, its end cut off; what an end of the input    *)
(* leaves is a line too.                                                   *)
Lfs == {i \in DOMAIN pending : pending[i] = "lf"}
LineEnd == IF Lfs = {} THEN Len(pending) ELSE Min(Lfs)
HasLine == mode = "pipe" /\ run = "reading" /\ (Lfs # {} \/ (closed /\ pending # <<>>))

NextLine ==
  LET upto == SubSeq(pending, 1, LineEnd)
      line == Front(upto)
  IN CASE Lfs = {} -> upto
       [] Lfs # {} /\ line # <<>> /\ Last(line) = "cr" -> Front(line)
       [] OTHER -> line

(* parse_pipe_line always ends the chunk with an LF.                       *)
ReadPipe ==
  /\ HasLine
  /\ Analyze(Append(NextLine, "lf")) /\ pending' = SubSeq(pending, LineEnd + 1, Len(pending))
  /\ UNCHANGED hangup

(* A line that is not UTF-8 ends run_pipe there and then.                  *)
ReadPipeFails ==
  /\ HasLine /\ "other" \in ToSet(NextLine) /\ run' = "ended"
  /\ UNCHANGED <<mode, user, exited, analyzer, chunk, hangup, out, analyzed, events>>

EmitNext ==
  /\ run = "emitting" /\ out # <<>> /\ out' = Tail(out)
  /\ events' = IF Head(out).kind = "Keystroke" THEN events ELSE Append(events, Head(out))
  /\ UNCHANGED <<mode, run, user, exited, analyzer, chunk, hangup, analyzed>>

(* Then the bytes are written to the shell, if there is one.               *)
Forward ==
  /\ run = "emitting" /\ out = <<>> /\ chunk' = <<>>
  /\ run' = IF hangup THEN "reaping" ELSE "reading"
  /\ UNCHANGED <<mode, user, exited, analyzer, hangup, out, analyzed, events>>

(* The input ends, or a poll finds nothing but the shell gone.             *)
StopReading ==
  /\ run = "reading" /\ pending = <<>> /\ (closed \/ exited)
  /\ run' = "reaping"
  /\ UNCHANGED <<mode, user, exited, analyzer, chunk, hangup, out, analyzed, events>>

(* waitpid, where there is a shell, and on_session_end.                    *)
EndSession ==
  /\ run = "reaping" /\ (mode = "shell" => exited)
  /\ run' = "ended" /\ analyzer' = Blank
  /\ events' = Append(events, Event("SessionEnd"))
  /\ UNCHANGED <<mode, user, exited, chunk, hangup, out, analyzed>>

Reader ==
  \/ StartPlugin \/ OpenSession \/ ReadTerminal \/ ReadPipe \/ EmitNext \/ Forward
  \/ StopReading \/ EndSession

TerminalNext ==
  \/ Reader \/ OpenFails \/ ReadPipeFails \/ Close \/ ShellExits
  \/ \E b \in Bytes : Type(b)

-----------------------------------------------------------------------------
(* What was typed, read off the bytes alone: where commands end, ...       *)
Ends(s) == {i \in DOMAIN s : s[i] = "cr" \/ (s[i] = "lf" /\ (i > 1 => s[i - 1] # "cr"))}

(* ... what of the bytes from one place to another is on the line at last: *)
(* a character goes when more has been erased after it than typed, ...     *)
CountIn(s, i, j, set) == Cardinality({k \in i .. j : s[k] \in set})

Survives(s, i, j) ==
  /\ s[i] \in Printable
  /\ \A k \in i .. j : CountIn(s, i + 1, k, {"erase"}) <= CountIn(s, i + 1, k, Printable)

LineOf(s, from, to) ==
  LET left == SetToSortSeq({i \in from .. to : Survives(s, i, to)}, <)
  IN [n \in DOMAIN left |-> s[left[n]]]

(* ... and the least number of edits between two lines: what an alignment  *)
(* of their characters, in order, leaves unmatched or matches wrongly.     *)
Alignments(a, b) ==
  {m \in SUBSET ((DOMAIN a) \X (DOMAIN b)) :
     \A p, q \in m : p # q => (p[1] < q[1] /\ p[2] < q[2]) \/ (q[1] < p[1] /\ q[2] < p[2])}

LeastEdits(a, b) ==
  Min({Len(a) + Len(b) - 2 * Cardinality(m) + Cardinality({p \in m : a[p[1]] # b[p[2]]}) :
         m \in Alignments(a, b)})

Commands(s) == SelectSeq(s, LAMBDA e : e.kind = "CommandObserved")

(* The n-th command of the bytes s: its first and its last byte, its line, *)
(* and whether that ever came up to the buffer's limit.                    *)
Upto(s, n) == SetToSortSeq(Ends(s), <)[n]
From(s, n) == IF n = 1 THEN 1 ELSE Upto(s, n - 1) + 1
Line(s, n) == IF n = 0 THEN <<>> ELSE LineOf(s, From(s, n), Upto(s, n))
Short(s, n) == n > 0 => \A k \in From(s, n) .. Upto(s, n) : Len(LineOf(s, From(s, n), k)) <= MaxLineBuf

(* Analyzer::on_read: however the bytes of a session are cut into reads,   *)
(* each line ends in exactly one command, with the length of what is left  *)
(* on it, whether something was erased, and the least number of edits that *)
(* make it of the line before; of a longer line the buffer keeps what fits.*)
CommandsAsTyped ==
  LET found == Commands(events \o out)
  IN /\ Len(found) = Cardinality(Ends(analyzed))
     /\ \A n \in DOMAIN found :
          /\ found[n].command_len <= MaxLineBuf
          /\ found[n].had_backspace =
               (CountIn(analyzed, From(analyzed, n), Upto(analyzed, n), {"erase"}) > 0)
          /\ Short(analyzed, n) => found[n].command_len = Len(Line(analyzed, n))
          /\ Short(analyzed, n - 1) /\ Short(analyzed, n) =>
               found[n].edit_distance_prev = LeastEdits(Line(analyzed, n - 1), Line(analyzed, n))
=============================================================================

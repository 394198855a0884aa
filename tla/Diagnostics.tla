---------------------------- MODULE Diagnostics ----------------------------
(***************************************************************************)
(* What `doctor` makes of the output of `btrfs qgroup show --raw` and of   *)
(* `fstrim --dry-run --verbose`.  A command succeeds or fails, with lines  *)
(* of output and perhaps a message; a report is Supported with what was    *)
(* read, Unsupported or Unknown.  Words are abstracted to what a parser    *)
(* tells apart: a number, the word none, or something else.                *)
(***************************************************************************)
EXTENDS Integers, Sequences, SequencesExt

CONSTANTS Output,        \* the outputs the commands may give
          MaxFraction,   \* the longest fraction read (6 in the code)
          Width          \* the width of an integer (64 in the code)

VARIABLES command, output, report
vars == <<command, output, report>>

Fits(n) == n < 2 ^ Width
Supported(x) == [kind |-> "Supported", value |-> x]
Unsupported == [kind |-> "Unsupported", value |-> <<>>]
Unknown == [kind |-> "Unknown", value |-> <<>>]
NotRun == [kind |-> "NotRun", value |-> <<>>]

\* A known message on either stream says the feature is not there.
DiagnosticFailureKind(o) == IF o.unsupported THEN Unsupported ELSE Unknown

-----------------------------------------------------------------------------
\* The fields of a data line: an identifier of two numbers, two counters and
\* two limits.  A word is [is, n], where n is the number of a "number".
QgroupSkipped(line) == line.form \in {"blank", "heading", "separator"}
ParseQgroupId(w) == w.is = "id" /\ Fits(w.n)
ParseQgroupLimit(w) == w.is = "none" \/ (w.is = "number" /\ Fits(w.n))
QgroupLine(line) ==
  /\ line.form = "words"
  /\ Len(line.words) = 5
  /\ ParseQgroupId(line.words[1])
  /\ \A i \in 2 .. 3 : line.words[i].is = "number" /\ Fits(line.words[i].n)
  /\ \A i \in 4 .. 5 : ParseQgroupLimit(line.words[i])

\* Fault: a line that cannot be read is passed over.
ParseQgroupTolerant(o) ==
  IF ~o.success THEN DiagnosticFailureKind(o)
  ELSE Supported([i \in DOMAIN SelectSeq(o.lines, QgroupLine) |-> SelectSeq(o.lines, QgroupLine)[i].words])

ParseQgroupDiagnostics(o) ==
  LET data == SelectSeq(o.lines, LAMBDA line : ~QgroupSkipped(line)) IN
  IF ~o.success THEN DiagnosticFailureKind(o)
  ELSE IF ~o.utf8 \/ \E i \in DOMAIN data : ~QgroupLine(data[i]) THEN Unknown
  ELSE Supported([i \in DOMAIN data |-> data[i].words])

-----------------------------------------------------------------------------
\* A quantity is [whole, point, fraction, unit]: whole is -1 when it is not a
\* number, fraction a sequence of digits, unit -1 when it is not a unit.
Numeral(digits) == FoldLeft(LAMBDA n, d : 10 * n + d, 0, digits)

\* Fault: the fraction is divided by its scale before it is multiplied.
ParseTrimBytesEarly(q) ==
  LET whole == q.whole * q.unit
      sum == whole + (Numeral(q.fraction) \div (10 ^ Len(q.fraction))) * q.unit
  IN IF q.whole >= 0 /\ Fits(whole) /\ Fits(sum) THEN {sum} ELSE {}

ParseTrimBytes(q) ==
  LET whole == q.whole * q.unit
      scaled == Numeral(q.fraction) * q.unit
      sum == whole + scaled \div (10 ^ Len(q.fraction))
  IN IF \/ q.point /\ Len(q.fraction) \notin 1 .. MaxFraction
        \/ q.whole < 0
        \/ ~(Fits(q.whole) /\ Fits(whole))
     THEN {}
     ELSE IF ~q.point THEN {whole}
     ELSE IF Fits(10 ^ Len(q.fraction)) /\ Fits(scaled) /\ Fits(sum) THEN {sum}
     ELSE {}

TrimUnitMultiplier(unit) == IF unit < 0 THEN {} ELSE {2 ^ unit}

\* parse_trim_line: "<root>: <number> <unit> (dry run) trimmed".
ParseTrimLine(line) ==
  IF line.form # "trimmed" THEN {}
  ELSE UNION {ParseTrimBytes([line.quantity EXCEPT !.unit = u]) : u \in TrimUnitMultiplier(line.quantity.unit)}

ParseTrimDiagnostics(o) ==
  LET lines == SelectSeq(o.lines, LAMBDA line : line.form # "blank") IN
  IF ~o.success THEN DiagnosticFailureKind(o)
  ELSE IF ~o.utf8 \/ Len(lines) # 1 \/ \E i \in DOMAIN lines : ParseTrimLine(lines[i]) = {} THEN Unknown
  ELSE Supported(CHOOSE n \in ParseTrimLine(lines[1]) : TRUE)

-----------------------------------------------------------------------------
Init == command \in {"qgroup", "trim"} /\ output \in Output[command] /\ report = NotRun

\* The report of a fixed command, of the doctor's two plans.
Diagnose ==
  /\ report.kind = "NotRun"
  /\ report' = IF command = "qgroup" THEN ParseQgroupDiagnostics(output) ELSE ParseTrimDiagnostics(output)
  /\ UNCHANGED <<command, output>>

Spec == Init /\ [][Diagnose]_vars

-----------------------------------------------------------------------------
\* A report of support leaves nothing out: the command succeeded and every
\* line of its output is a heading or is in the report.  A failure is taken
\* for a missing feature only on a message that says so.
DiagnosticsHonest ==
  /\ report.kind = "Supported" => output.success /\ output.utf8
  /\ report.kind = "Unsupported" => ~output.success /\ output.unsupported
  /\ report.kind = "Supported" /\ command = "qgroup" => \A i \in DOMAIN output.lines :
       output.lines[i].form \in {"blank", "heading", "separator"}
         \/ \E j \in DOMAIN report.value : report.value[j] = output.lines[i].words

\* The estimate of discardable bytes is the printed quantity rounded down to
\* a byte, never a wrapped or a truncated product.
TrimExact == report.kind = "Supported" /\ command = "trim" =>
  \E i \in DOMAIN output.lines : output.lines[i].form = "trimmed" /\
    LET q == output.lines[i].quantity
        scale == 10 ^ Len(q.fraction)
        exact == (q.whole * scale + Numeral(q.fraction)) * 2 ^ q.unit
    IN report.value < 2 ^ Width /\ report.value * scale <= exact /\ exact < (report.value + 1) * scale
=============================================================================

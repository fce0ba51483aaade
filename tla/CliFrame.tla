-------------------------------- MODULE CliFrame --------------------------------
(***************************************************************************)
(* The serial line collector: NivaloCliFrame and its caller,               *)
(* handleCliSerial, which drops a line that has taken too long, and then   *)
(* takes bytes, up to a limit, and hands every whole line to handleCliLine.*)
(* The time a line has taken is looked at only at the start of a call.     *)
(***************************************************************************)
EXTENDS Clock, Sequences

CONSTANTS
  MaximumLineLength,  \* 16384 in the code
  FrameTimeoutMs,     \* 5000
  WorkLimit           \* bytes taken by one call, 256

ASSUME FrameAssumption ==
  /\ {MaximumLineLength, FrameTimeoutMs, WorkLimit} \subseteq Nat \ {0}
  /\ FrameTimeoutMs + LoopMs < Period

\* Bytes, by what push does with them: line feed, carriage return, NUL, other.
Bytes == {"LF", "CR", "NUL", "x"}
Wiped == "NUL"

VARIABLES
  buffer,           \* _cliLine
  length,           \* the members of NivaloCliFrame
  startedAt,
  active,
  discarding,
  sawCarriageReturn,
  reading,          \* bytes taken in the call of handleCliSerial, or None
  result,           \* of the last push or expire
  line,             \* history: the bytes since a line last ended or expired
  age               \* history: how long ago, exactly, the first of them came

None == -1
frameVars == <<buffer, length, startedAt, active, discarding, sawCarriageReturn>>
cliState == <<frameVars, reading, result, line, age>>
cliVars == <<now, gap, cliState>>

CliInit ==
  /\ ClockInit
  /\ buffer = [i \in 0..MaximumLineLength |-> Wiped]
  /\ length = 0
  /\ startedAt = 0
  /\ active = FALSE
  /\ discarding = FALSE
  /\ sawCarriageReturn = FALSE
  /\ reading = None
  /\ result = "NONE"
  /\ line = <<>>
  /\ age = 0

-----------------------------------------------------------------------------
(* NivaloCliFrame *)

\* Defect: the length is cleared before as many bytes are wiped.
ResetForgetsLength ==
  /\ UNCHANGED buffer
  /\ length' = 0
  /\ startedAt' = 0
  /\ active' = FALSE
  /\ discarding' = FALSE
  /\ sawCarriageReturn' = FALSE

\* reset
Reset ==
  /\ buffer' = [i \in DOMAIN buffer |-> IF i < length THEN Wiped ELSE buffer[i]]
  /\ length' = 0
  /\ startedAt' = 0
  /\ active' = FALSE
  /\ discarding' = FALSE
  /\ sawCarriageReturn' = FALSE

\* Defect: one byte too many.
DiscardsPastEnd(byte) ==
  IF byte = "CR" THEN sawCarriageReturn
  ELSE sawCarriageReturn \/ byte = "NUL" \/ discarding \/ length > MaximumLineLength

\* What push does with a byte that does not end the line
Discards(byte) ==
  IF byte = "CR" THEN sawCarriageReturn
  ELSE sawCarriageReturn \/ byte = "NUL" \/ discarding \/ length >= MaximumLineLength

Collect(byte) ==
  /\ active' = TRUE
  /\ startedAt' = IF active THEN startedAt ELSE now
  /\ discarding' = (discarding \/ Discards(byte))
  /\ sawCarriageReturn' = (sawCarriageReturn \/ byte = "CR")
  /\ IF byte = "CR" \/ Discards(byte)
     THEN UNCHANGED <<buffer, length>>
     ELSE /\ buffer' = [buffer EXCEPT ![length] = byte]
          /\ length' = length + 1

\* push, and reset by its caller after a line feed.  The history keeps as much
\* of a line as shows that it is too long.
Push(byte) ==
  IF byte = "LF"
  THEN /\ result' = IF ~discarding /\ length > 0 THEN "READY" ELSE "DROPPED"
       /\ Reset
       /\ line' = <<>>
       /\ age' = 0
  ELSE /\ Collect(byte)
       /\ result' = "NONE"
       /\ line' = IF Len(line) < MaximumLineLength + 2 THEN Append(line, byte) ELSE line
       /\ UNCHANGED age

Expired == active /\ Elapsed(startedAt) >= FrameTimeoutMs

Expire ==
  IF Expired
  THEN Reset /\ result' = "DROPPED" /\ line' = <<>> /\ age' = 0
  ELSE result' = "NONE" /\ UNCHANGED <<frameVars, line, age>>

-----------------------------------------------------------------------------
(* handleCliSerial *)

\* A call looks first at how long the line has taken.
CliStarts ==
  /\ reading = None
  /\ Pass
  /\ reading' = 0
  /\ Expire

CliTakes ==
  /\ reading # None
  /\ reading < WorkLimit
  /\ reading' = reading + 1
  /\ \E byte \in Bytes : Push(byte)
  /\ UNCHANGED <<now, gap>>

\* No more bytes, or the limit.
CliReturns ==
  /\ reading # None
  /\ reading' = None
  /\ UNCHANGED <<now, gap, frameVars, result, line, age>>

\* Time passes between the calls, and while a line is handled.
CliTime ==
  /\ reading = None \/ line = <<>>
  /\ Tick
  /\ age' = IF line = <<>> THEN age ELSE Upto(age, FrameTimeoutMs)
  /\ UNCHANGED <<frameVars, reading, result, line>>

CliNext == CliStarts \/ CliTakes \/ CliReturns \/ CliTime

CliSpec == CliInit /\ [][CliNext]_cliVars

-----------------------------------------------------------------------------
(* Properties *)

\* A line as the protocol has it: some bytes, none of them NUL, not too many,
\* and perhaps a carriage return at the end.
Whole(l) ==
  LET n == IF l # <<>> /\ l[Len(l)] = "CR" THEN Len(l) - 1 ELSE Len(l) IN
  /\ n \in 1..MaximumLineLength
  /\ \A k \in 1..n : l[k] = "x"

\* README, "CLI serial provisioning": "partial, malformed, oversized ... requests
\* fail closed".  What is handed to handleCliLine is a whole line, all the bytes
\* since the last one ended or expired, none older than the lifetime of a frame;
\* and every such line is.
LineIsWhole ==
  [][reading # None /\ reading' = reading + 1 =>
       /\ result' = "READY" <=> line' = <<>> /\ Whole(line)
       /\ result' = "READY" => age < FrameTimeoutMs]_cliVars

\* README: "input is NDJSON bounded to 16 KiB ... and a five-second frame
\* lifetime", and "all credential values are wiped from the line buffer".  The
\* buffer holds nothing but the line being collected, and no call of
\* handleCliSerial goes on with a line that is older than that.
LineForgotten ==
  /\ length <= Len(line)
  /\ \A i \in length..MaximumLineLength : buffer[i] = Wiped
  /\ reading # None => age < FrameTimeoutMs
=================================================================================

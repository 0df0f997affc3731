------------------------------ MODULE Messages ------------------------------
(***************************************************************************)
(* What the program tells its user: Log, which composes every line in a    *)
(* buffer, CRException, which carries a text, and main, which logs the     *)
(* text of the exception that ends the invocation.                         *)
(*                                                                         *)
(* A text is its length.  Of the buffer the model keeps where its zeros    *)
(* are: puts prints what lies before the first.  Nothing runs concurrently.*)
(***************************************************************************)
EXTENDS Integers, Sequences

CONSTANTS
  Lengths,    \* of the messages the program logs
  Texts,      \* lengths of the texts exceptions are given
  MaxCalls    \* bound: calls of Log and of its setters

(* A text fits, with its zero, into the 4096 bytes CRException allocates:  *)
(* vsprintf does not ask.                                                  *)
ASSUME MessagesAssumption ==
  /\ Lengths \subseteq Nat
  /\ Texts \subseteq 0..4095
  /\ MaxCalls \in Nat

VARIABLES
  s_logLevelMode,
  s_minLevel,
  stack,      \* activations of vlog: the one called, and that of its warning
  console,    \* the lines printed
  _what,      \* length of the text of the exception that was thrown
  status,     \* of the invocation
  calls       \* history: calls so far

settings == <<s_logLevelMode, s_minLevel>>
program == <<_what, status, calls>>
vars == <<settings, stack, console, program>>

FINE == 0
INFO == 1
WARN == 2
ERROR == 3
Levels == FINE..ERROR
Modes == {"NONE", "UNIX_TERMINAL", "FLAGS"}

BufferSize == 4096    \* ROLLER_LOG_BUFFER_SIZE
SuffixSize == 1
CaughtSize == 31      \* "std::exception caught in main: "

(* Mutant of WarningSize: the warning quotes the message. *)
WarningSizeQuoting == 5000

WarningSize == 93     \* "Warning: the following message is too big ..."

ColorSize == 10       \* an escape sequence with a color of two digits

(* The color of the level, or one of four flags. *)
PrefixSize(level) ==
  CASE s_logLevelMode = "NONE" -> 0
    [] s_logLevelMode = "UNIX_TERMINAL" -> ColorSize
    [] s_logLevelMode = "FLAGS" -> IF level = ERROR THEN 8 ELSE 7

(* An activation of vlog, and then the line it printed: prefixSize and      *)
(* messageSize, the zeros in the buffer, and the settings it was made with. *)
Kinds == {"message", "exception", "warning"}
Labels == {"format", "measure", "suffix", "puts", "log"}
Activations ==
  [kind : Kinds, level : Levels, length : Nat, pc : Labels, min : Levels,
   prefixSize : 0..10, messageSize : Nat, zeros : SUBSET Nat]
Lines ==
  [kind : Kinds, length : Nat, min : Levels, prefixSize : 0..10,
   printed : Nat, returned : Nat]

TypeOK ==
  /\ s_logLevelMode \in Modes /\ s_minLevel \in Levels
  /\ stack \in Seq(Activations) /\ Len(stack) <= 2
  /\ console \in Seq(Lines)
  /\ _what \in Texts \union {-1}
  /\ status \in {"running", "thrown", "caught", "exited"}
  /\ calls \in 0..MaxCalls

Init ==
  /\ s_logLevelMode = "NONE" /\ s_minLevel = FINE
  /\ stack = <<>> /\ console = <<>>
  /\ _what = -1 /\ status = "running" /\ calls = 0

-----------------------------------------------------------------------------
(* Log. *)

top == stack[Len(stack)]
At(label) == stack # <<>> /\ top.pc = label
ReplaceTop(activation) == stack' = [stack EXCEPT ![Len(stack)] = activation]
space(activation) == BufferSize - activation.prefixSize - SuffixSize

(* What vlog is called with and the prefix it puts into its buffer. *)
Activation(kind, level, length, label) ==
  [kind |-> kind, level |-> level, length |-> length, pc |-> label,
   min |-> s_minLevel, prefixSize |-> PrefixSize(level), messageSize |-> 0,
   zeros |-> {}]

(* Mutant of Called: the lowest level is left out. *)
CalledAbove(under, kind, level, length) ==
  IF level <= s_minLevel
  THEN under
  ELSE Append(under, Activation(kind, level, length, "format"))

(* A call of f, i, w or e on top of the activations there are: nothing when *)
(* the level is too low.                                                    *)
Called(under, kind, level, length) ==
  IF level < s_minLevel
  THEN under
  ELSE Append(under, Activation(kind, level, length, "format"))

(* Mutant of Format: vsprintf. *)
FormatUnlimited ==
  /\ At("format")
  /\ ReplaceTop([top EXCEPT !.pc = "measure", !.messageSize = top.length,
                            !.zeros = {top.prefixSize + top.length}])
  /\ UNCHANGED <<settings, console, program>>

(* vsnprintf writes what fits with its zero, and returns what it would have *)
(* written.                                                                 *)
Format ==
  /\ At("format")
  /\ LET fits == top.length < space(top)
         kept == IF fits THEN top.length ELSE space(top) - 1 IN
       ReplaceTop([top EXCEPT !.pc = "measure", !.messageSize = top.length,
                              !.zeros = {top.prefixSize + kept}])
  /\ UNCHANGED <<settings, console, program>>

(* Mutants of Announced: not at all; at the default level. *)
AnnouncedNever(under) == under
AnnouncedByDefault(under) ==
  Append(under, Activation("warning", INFO, WarningSize, "log"))

(* Log::w, of a message that is too big. *)
Announced(under) == Called(under, "warning", WARN, WarningSize)

(* It is then counted as what there is space for. *)
Measure ==
  /\ At("measure")
  /\ LET tooBig == top.messageSize > space(top) IN
     LET measured == [stack EXCEPT ![Len(stack)] =
           [top EXCEPT !.pc = "suffix",
                       !.messageSize = IF tooBig THEN space(top) ELSE @]] IN
       stack' = IF tooBig THEN Announced(measured) ELSE measured
  /\ UNCHANGED <<settings, console, program>>

(* The carriage return behind the message, and a zero behind it. *)
Suffix ==
  /\ At("suffix")
  /\ LET at == top.prefixSize + top.messageSize IN
       ReplaceTop([top EXCEPT !.pc = "puts",
                              !.zeros = (@ \ {at}) \union {at + SuffixSize}])
  /\ UNCHANGED <<settings, console, program>>

firstZero(zeros) == CHOOSE z \in zeros : \A y \in zeros : z <= y

(* puts, and what vlog returns. *)
Puts ==
  /\ At("puts")
  /\ console' = Append(console,
       [kind |-> top.kind, length |-> top.length, min |-> top.min,
        prefixSize |-> top.prefixSize, printed |-> firstZero(top.zeros),
        returned |-> top.prefixSize + top.messageSize + SuffixSize])
  /\ stack' = SubSeq(stack, 1, Len(stack) - 1)
  /\ UNCHANGED <<settings, program>>

Vlog == Format \/ Measure \/ Suffix \/ Puts

-----------------------------------------------------------------------------
(* The program that calls it. *)

MayCall ==
  /\ status = "running" /\ stack = <<>> /\ calls < MaxCalls
  /\ calls' = calls + 1

SetLogLevelMode(mode) ==
  /\ MayCall
  /\ s_logLevelMode' = mode
  /\ UNCHANGED <<s_minLevel, stack, console, _what, status>>

SetMinLogLevel(level) ==
  /\ MayCall
  /\ s_minLevel' = level
  /\ UNCHANGED <<s_logLevelMode, stack, console, _what, status>>

(* Log::f, i, w and e. *)
LogAt(level, length) ==
  /\ MayCall
  /\ stack' = Called(stack, "message", level, length)
  /\ UNCHANGED <<settings, console, _what, status>>

(* Log::log calls itself with its va_list as one more argument, for ever:   *)
(* an activation without a step.                                            *)
LogAtDefault(length) ==
  /\ MayCall
  /\ stack' = <<Activation("message", INFO, length, "log")>>
  /\ UNCHANGED <<settings, console, _what, status>>

(* An exception, from wherever the program is. *)
Throw(text) ==
  /\ status = "running" /\ stack = <<>>
  /\ _what' = text /\ status' = "thrown"
  /\ UNCHANGED <<settings, stack, console, calls>>

(* main catches it and logs it. *)
Catch ==
  /\ status = "thrown"
  /\ stack' = Called(stack, "exception", INFO, CaughtSize + _what)
  /\ status' = "caught"
  /\ UNCHANGED <<settings, console, _what, calls>>

(* return 1. *)
Exit ==
  /\ status = "caught" /\ stack = <<>>
  /\ status' = "exited"
  /\ UNCHANGED <<settings, stack, console, _what, calls>>

Next ==
  \/ Vlog
  \/ \E mode \in Modes : SetLogLevelMode(mode)
  \/ \E level \in Levels : SetMinLogLevel(level)
  \/ \E level \in Levels, length \in Lengths : LogAt(level, length)
  \/ \E length \in Lengths : LogAtDefault(length)
  \/ \E text \in Texts : Throw(text)
  \/ Catch \/ Exit

Spec == Init /\ [][Next]_vars

(* The one thread runs. *)
FairSpec == Spec /\ WF_vars(Vlog)

-----------------------------------------------------------------------------
(* Properties. *)

(* vlog's two writers agree on the end of the buffer: nothing is written    *)
(* behind it but, for a message that does not fit, the one zero that the    *)
(* suffix of a full buffer ends with.                                       *)
WithinBuffer ==
  \A i \in DOMAIN stack : \A z \in stack[i].zeros :
    z < BufferSize \/ (z = BufferSize /\ stack[i].length >= space(stack[i]))

(* A line is complete when its prefix, its message and its carriage return  *)
(* were printed, which is then also the length vlog returns.                *)
Complete(line) ==
  /\ line.printed = line.prefixSize + line.length + SuffixSize
  /\ line.returned = line.printed

(* A line that is not complete lost the end of a long message, and the line *)
(* before it says so; unless the level of warnings is not printed, or the   *)
(* message would have fit but for the zero, which passes unnoticed.         *)
CutIsAnnounced ==
  \A k \in DOMAIN console : ~Complete(console[k]) =>
    /\ console[k].length >= space(console[k])
    /\ \/ console[k].min > WARN
       \/ console[k].length = space(console[k])
       \/ k > 1 /\ console[k - 1].kind = "warning"

(* The text of the exception that ended the invocation is the last thing    *)
(* printed, as far as the buffer goes: all but the end of it.               *)
ExceptionReported ==
  status = "exited" /\ s_minLevel <= INFO =>
    /\ console # <<>>
    /\ LET line == console[Len(console)] IN
         /\ line.kind = "exception"
         /\ Complete(line) \/ line.printed = BufferSize - 2

(* Every call of f, i, w and e returns, whatever it has to announce.        *)
EveryCallReturns ==
  (stack # <<>> /\ stack[1].pc # "log") ~> stack = <<>>

=============================================================================

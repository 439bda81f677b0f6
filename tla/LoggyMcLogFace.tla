---------------------------- MODULE LoggyMcLogFace ----------------------------
(***************************************************************************)
(* The event log: log writes a line of text in which each directive "/%c"  *)
(* is replaced by what the interpreter added for the letter c writes of    *)
(* the next value.  A line that turns out not to fit its values is given   *)
(* up by seeking back to where it began.  The std::ofstream writes its     *)
(* buffer to the file when it is full, on a seek and when it is closed;    *)
(* what is still in it when the process ends is lost.                      *)
(*                                                                         *)
(* A unit of the file stands for the characters one step writes; it knows  *)
(* the call it was written by.  m_valid_functions is never initialized.    *)
(***************************************************************************)
EXTENDS Integers, Sequences

CONSTANTS
    Letters,        \* 'a' .. 'z'
    Text, BadLetter,        \* what else a format has: other characters, "/%?"
    LOG_READY,      \* the bit of m_valid_functions
    Formats,        \* sequences of letters (directives), Text and BadLetter
    Width,          \* 2^32, in units of the file: pos is an int32_t
    MaxCalls        \* bound: calls of log

ASSUME LogAssumption ==
    /\ {Text, BadLetter, LOG_READY} \cap Letters = {}
    /\ Text # BadLetter
    /\ \A f \in Formats : f \in Seq(Letters \cup {Text, BadLetter})
    /\ Width \in Nat \ {0} /\ Width % 2 = 0 /\ MaxCalls \in Nat

VARIABLES
    pc,                 \* "idle", "log", "closed", "dead"
    m_valid_functions,  \* the set of its bits
    functions,          \* letters whose entry of m_functions was set
    disk,               \* the file
    offset, buffer,     \* m_file: where its buffer belongs, and the buffer
    usable,             \* m_file is open and no operation on it has failed
    rest, t_num_values, \* log: the format from index on, and its argument
    vars_used, pos,
    result,
    calls, line, good   \* history: calls so far, units of this one, of those that returned 0

LOG_NOT_READY_ERROR == -4
NOT_VALID_FUNCTION_VAR == -5
FUNCTION_NEVER_DEFINED == -6
MORE_VALUES_THEN_FUNCTION_CALLS == -7
LESS_VALUES_THEN_FUNCTION_CALLS == -8

stream == <<disk, offset, buffer, usable>>
locals == <<rest, t_num_values, vars_used, pos>>
vars == <<pc, m_valid_functions, functions, stream, locals, result, calls, line, good>>

(* The constructor opens a new file, or fails to; the bits are arbitrary. *)
Init ==
    /\ pc = "idle" /\ functions = {} /\ usable \in BOOLEAN
    /\ \E bits \in SUBSET (Letters \cup {LOG_READY}) :
        m_valid_functions = IF usable THEN bits \cup {LOG_READY} ELSE bits
    /\ disk = <<>> /\ offset = 0 /\ buffer = <<>>
    /\ rest = <<>> /\ t_num_values = 0 /\ vars_used = 0 /\ pos = 0
    /\ result = 0 /\ calls = 0 /\ line = <<>> /\ good = <<>>

-----------------------------------------------------------------------------
(* std::ofstream. *)

Over(file, at, units) ==
    SubSeq(file, 1, at) \o units \o SubSeq(file, at + Len(units) + 1, Len(file))

Position == offset + Len(buffer)

(* The first n units of what is buffered go to the file. *)
Flush(buffered, n) ==
    /\ disk' = Over(disk, offset, SubSeq(buffered, 1, n))
    /\ offset' = offset + n
    /\ buffer' = SubSeq(buffered, n + 1, Len(buffered))

Units(call, n) == [k \in 1 .. n |-> <<call, Len(line) + k>>]

Put(call, n) ==
    /\ line' = line \o Units(call, n)
    /\ IF usable
       THEN \E k \in {0, Len(buffer), Len(buffer) + n} : Flush(buffer \o Units(call, n), k)
       ELSE UNCHANGED <<disk, offset, buffer>>
    /\ UNCHANGED usable

(* A negative position is an error, after which the stream does nothing. *)
Seek(p) ==
    IF ~usable THEN UNCHANGED stream
    ELSE /\ disk' = Over(disk, offset, buffer) /\ buffer' = <<>>
         /\ offset' = IF p < 0 THEN Position ELSE p
         /\ usable' = (p >= 0)

Int32(p) == IF p % Width < Width \div 2 THEN p % Width ELSE (p % Width) - Width

-----------------------------------------------------------------------------
addInterpreter(c) ==
    /\ pc = "idle"
    /\ functions' = functions \cup {c}
    /\ m_valid_functions' = m_valid_functions \cup {c}
    /\ UNCHANGED <<pc, stream, locals, result, calls, line, good>>

(* The line begins with the time, which has one or two digits each. *)
LineStartLate(n) == Int32(Position + n)     \* mutant: tellp after the time was written
LineStart(n) == Int32(Position)

LogBegin(format, num) ==
    /\ pc = "idle" /\ calls < MaxCalls /\ LOG_READY \in m_valid_functions
    /\ calls' = calls + 1
    /\ pc' = "log" /\ rest' = format /\ t_num_values' = num /\ vars_used' = 0
    /\ \E n \in 1 .. 2 : pos' = LineStart(n) /\ Put(calls + 1, n)
    /\ UNCHANGED <<m_valid_functions, functions, result, good>>

NotReady ==
    /\ pc = "idle" /\ calls < MaxCalls /\ LOG_READY \notin m_valid_functions
    /\ calls' = calls + 1
    /\ result' = LOG_NOT_READY_ERROR
    /\ UNCHANGED <<pc, m_valid_functions, functions, stream, locals, line, good>>

(* Every return with an error goes back to the beginning of the line. *)
GiveUp(code) ==
    /\ Seek(pos)
    /\ result' = code /\ pc' = "idle"
    /\ rest' = <<>> /\ t_num_values' = 0 /\ vars_used' = 0 /\ pos' = 0 /\ line' = <<>>
    /\ UNCHANGED <<m_valid_functions, functions, calls, good>>

Advance(n) ==
    /\ Put(calls, n)
    /\ rest' = Tail(rest)
    /\ UNCHANGED <<pc, m_valid_functions, functions, t_num_values, pos, result, calls, good>>

InText == pc = "log" /\ rest # <<>> /\ Head(rest) = Text
InDirective == pc = "log" /\ rest # <<>> /\ Head(rest) \in Letters

WriteText == InText /\ Advance(1) /\ UNCHANGED vars_used

NotALetter ==
    /\ pc = "log" /\ rest # <<>> /\ Head(rest) = BadLetter
    /\ GiveUp(NOT_VALID_FUNCTION_VAR)

NeverDefined ==
    /\ InDirective /\ Head(rest) \notin m_valid_functions
    /\ GiveUp(FUNCTION_NEVER_DEFINED)

NoValueLeftLate == vars_used > t_num_values     \* mutant: tested before it is counted
NoValueLeft == vars_used + 1 > t_num_values

MoreValues ==
    /\ InDirective /\ Head(rest) \in m_valid_functions
    /\ NoValueLeft /\ GiveUp(MORE_VALUES_THEN_FUNCTION_CALLS)

(* With the process goes what the stream has not written to the file.      *)
End ==
    /\ pc' = "dead" /\ buffer' = <<>>
    /\ UNCHANGED <<disk, offset, usable, m_valid_functions, functions, locals, result, calls, line, good>>

(* read_ip, read_port and read_char_buf write as much as the value has, the *)
(* last perhaps nothing.                                                    *)
Lengths == 0 .. 2

(* An entry of m_functions that was never set is no function. *)
Interpret ==
    /\ InDirective /\ Head(rest) \in m_valid_functions /\ ~NoValueLeft
    /\ IF Head(rest) \in functions
       THEN (\E n \in Lengths : Advance(n)) /\ vars_used' = vars_used + 1
       ELSE End

LessValues ==
    /\ pc = "log" /\ rest = <<>> /\ t_num_values # vars_used
    /\ GiveUp(LESS_VALUES_THEN_FUNCTION_CALLS)

EndLine ==
    /\ pc = "log" /\ rest = <<>> /\ t_num_values = vars_used
    /\ IF usable
       THEN \E k \in {0, Len(buffer), Len(buffer) + 1} : Flush(buffer \o Units(calls, 1), k)
       ELSE UNCHANGED <<disk, offset, buffer>>
    /\ good' = IF usable THEN good \o line \o Units(calls, 1) ELSE good
    /\ result' = 0 /\ pc' = "idle"
    /\ vars_used' = 0 /\ t_num_values' = 0 /\ pos' = 0 /\ line' = <<>>
    /\ UNCHANGED <<rest, usable, m_valid_functions, functions, calls>>

(* One turn of the loop over the format. *)
Turn == WriteText \/ NotALetter \/ NeverDefined \/ MoreValues \/ Interpret

(* The destructor. *)
Close ==
    /\ pc = "idle" /\ pc' = "closed"
    /\ disk' = IF usable THEN Over(disk, offset, buffer) ELSE disk
    /\ buffer' = <<>> /\ offset' = Position
    /\ UNCHANGED <<usable, m_valid_functions, functions, locals, result, calls, line, good>>

(* The process may end anywhere. *)
Die ==
    /\ pc \in {"idle", "log"} /\ End

Next ==
    \/ \E c \in Letters : addInterpreter(c)
    \/ \E f \in Formats, num \in 0 .. 2 : LogBegin(f, num)
    \/ NotReady \/ Turn \/ LessValues \/ EndLine \/ Close \/ Die

Spec == Init /\ [][Next]_vars
-----------------------------------------------------------------------------
(* Every variable stays in its type; log never reaches beyond the values   *)
(* it was given, and the file buffers nothing that was not opened or that  *)
(* failed, whatever m_valid_functions says of it.                          *)
TypeOK ==
    /\ pc \in {"idle", "log", "closed", "dead"}
    /\ m_valid_functions \in SUBSET (Letters \cup {LOG_READY})
    /\ functions \in SUBSET (m_valid_functions \cap Letters)
    /\ disk \in Seq((1 .. calls) \X Nat) /\ buffer \in Seq((1 .. calls) \X Nat)
    /\ offset \in 0 .. Len(disk) /\ usable \in BOOLEAN /\ (~usable => buffer = <<>>)
    /\ rest \in Seq(Letters \cup {Text, BadLetter})
    /\ t_num_values \in Nat /\ vars_used \in 0 .. t_num_values
    /\ pos \in -(Width \div 2) .. Width \div 2 - 1
    /\ result \in {0} \cup LESS_VALUES_THEN_FUNCTION_CALLS .. LOG_NOT_READY_ERROR /\ calls \in 0 .. MaxCalls

(* Whatever lines were given up, as long as a position fits pos: while the *)
(* log lives the stream holds, up to its position, exactly the lines of    *)
(* the calls that returned 0, in their order, and the line being written.  *)
(* Wherever the process ends, the file holds a beginning of that, as far   *)
(* as it was written out, and behind it only leftovers of lines that were  *)
(* given up; what was in the buffer is lost.  A closed log has it all.     *)
LinesKept ==
    LET lines == good \o line
    IN  usable /\ Len(good) < Width \div 2 =>
        /\ pc # "dead" => Position = Len(lines)
                          /\ SubSeq(Over(disk, offset, buffer), 1, Position) = lines
        /\ pc = "closed" => buffer = <<>>
        /\ offset <= Len(lines) /\ SubSeq(disk, 1, offset) = SubSeq(lines, 1, offset)
        /\ \A k \in offset + 1 .. Len(disk) : \A g \in DOMAIN lines : disk[k] # lines[g]
=============================================================================

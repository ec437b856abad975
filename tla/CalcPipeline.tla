---------------------------- MODULE CalcPipeline ----------------------------
(***************************************************************************)
(* One run of models/calc.js over a file: the pipeline of its init(), in   *)
(* which lib/jsonstream.js turns lines into objects and CalcInsnStream     *)
(* numbers them, and its exec(), called by an engine that nobody stops.    *)
(*                                                                         *)
(* A text is a sequence of pieces: one that opens an object and gives its  *)
(* op, one that gives its value and closes it, and a literal null.  The    *)
(* pieces are what JSON.parse() can tell apart here; a line holds some of  *)
(* them, and whether two pieces come on one line or two is the point.      *)
(***************************************************************************)
EXTENDS Integers, Sequences, SequencesExt

CONSTANTS
  Lines,     \* the lines that files are made of
  MaxLines   \* bound: the lines of a file

Open(op) == <<"open", op>>
Close(v) == <<"close", v>>
Null == <<"null">>

(* "none" stands for an object whose op is no string, "pow" for an op that *)
(* calc does not know.  (div is left out: its results are no integers.)    *)
Op == {"add", "sub", "mul", "set", "pow", "none"}

Piece == ({"open"} \X Op) \cup ({"close"} \X Int) \cup {Null}

ASSUME LineAssumption == \A line \in Lines : line \in Seq(Piece)
ASSUME BoundAssumption == MaxLines \in Nat

VARIABLES
  file,       \* the lines of the file
  unread,     \* those that lstream has not delivered yet
  js_accum,   \* js_accum of the JSONStream: text that did not parse so far
  flushed,    \* _flush() was called
  eof,        \* null was pushed: the JSONStream delivers no more
  broken,     \* the pipeline emitted its error
  queue,      \* numbered instructions on their way to the engine
  pc,         \* _pc of the CalcInsnStream
  engine,     \* the controller has an engine plumbed to the pipeline
  executing,  \* _sim_executing is not null
  result,     \* what exec() is going to report, or NoResult
  done,       \* _done of the controller
  accum,      \* _accum of the model
  output,     \* the data pushed to the output, in order
  fault       \* the model's callback read an instruction that was gone

pipeVars == <<unread, js_accum, flushed, eof, broken, queue, pc>>
execVars == <<executing, result, accum, output, fault>>
vars == <<file, pipeVars, engine, done, execVars>>

NoResult == [ok |-> FALSE]

Init ==
  /\ file \in SeqOf(Lines, MaxLines)
  /\ unread = file
  /\ js_accum = <<>> /\ flushed = FALSE /\ eof = FALSE /\ broken = FALSE
  /\ queue = <<>> /\ pc = 0
  /\ engine = TRUE /\ executing = FALSE /\ result = NoResult /\ done = FALSE
  /\ accum = 0 /\ output = <<>> /\ fault = FALSE

-----------------------------------------------------------------------------
(* JSON.parse() of text: one whole object, or null.                        *)
IsObject(text) == Len(text) = 2 /\ text[1][1] = "open" /\ text[2][1] = "close"
Parses(text) == IsObject(text) \/ text = <<Null>>
Object(text) == [op |-> text[1][2], value |-> text[2][2]]

(* The pipeline emits an error; the model calls set_input_error(), by      *)
(* which the controller drops its engine and the executing instruction.    *)
Break ==
  /\ broken' = TRUE
  /\ engine' = FALSE /\ executing' = FALSE

(* What the JSONStream keeps when newl has parsed.                         *)
RestKept(newl) == newl  \* mutant: it is not reset
Rest(newl) == <<>>

(* CalcInsnStream gives each object that comes out an address.             *)
NumberedFromOne(object) ==  \* mutant: ++_pc for _pc++
  Append(queue, [insn |-> object, addr |-> pc + 1])
Numbered(object) == Append(queue, [insn |-> object, addr |-> pc])

(* push() of what parsed: null ends the stream, and anything after that is *)
(* an error, "stream.push() after EOF".                                    *)
Push(text) ==
  \/ /\ text = <<Null>>
     /\ eof' = TRUE
     /\ UNCHANGED <<broken, queue, pc, engine, executing>>
  \/ /\ text # <<Null>> /\ ~eof
     /\ queue' = Numbered(Object(text))
     /\ pc' = pc + 1
     /\ UNCHANGED <<eof, broken, engine, executing>>
  \/ /\ text # <<Null>> /\ eof
     /\ Break
     /\ UNCHANGED <<eof, queue, pc>>

(* _transform() of the JSONStream for the next line.                       *)
Transform ==
  /\ ~fault /\ ~broken /\ unread # <<>>
  /\ unread' = Tail(unread)
  /\ LET line == Head(unread)
         newl == js_accum \o line
     IN  \/ /\ line = <<>>
            /\ UNCHANGED <<js_accum, eof, broken, queue, pc, engine, executing>>
         \/ /\ line # <<>> /\ Parses(newl)
            /\ js_accum' = Rest(newl)
            /\ Push(newl)
         \/ /\ line # <<>> /\ ~Parses(newl)
            /\ js_accum' = newl
            /\ UNCHANGED <<eof, broken, queue, pc, engine, executing>>
  /\ UNCHANGED <<file, flushed, result, done, accum, output, fault>>

(* _flush(), when the last line has been read, and the end of the stream.  *)
(* Its attempt to parse what has accumulated is one that failed before.    *)
FlushAnything ==  \* mutant: what is left is dropped
  /\ eof' = TRUE
  /\ UNCHANGED <<broken, engine, executing>>
FlushRest ==
  \/ /\ js_accum = <<>>
     /\ eof' = TRUE
     /\ UNCHANGED <<broken, engine, executing>>
  \/ /\ js_accum # <<>>
     /\ Break
     /\ UNCHANGED eof

Flush ==
  /\ ~fault /\ ~broken /\ unread = <<>> /\ ~flushed
  /\ flushed' = TRUE
  /\ FlushRest
  /\ UNCHANGED <<file, unread, js_accum, queue, pc, result, done, accum, output, fault>>

(* 'end' of the pipeline, once all that was in it has been read.           *)
End ==
  /\ ~fault /\ ~broken /\ engine
  /\ eof /\ queue = <<>> /\ ~done
  /\ done' = TRUE
  /\ UNCHANGED <<file, pipeVars, engine, execVars>>

-----------------------------------------------------------------------------
(* The accumulator after insn.                                             *)
Apply(acc, insn) ==
  CASE insn.op = "add" -> acc + insn.value
    [] insn.op = "sub" -> acc - insn.value
    [] insn.op = "mul" -> acc * insn.value
    [] insn.op = "set" -> insn.value
    [] OTHER -> acc

(* What exec() is going to report for ictx: an error for an object that is *)
(* no instruction, an error with the data gathered so far for an unknown   *)
(* op, or the data of an instruction that was executed.                    *)
ResultLate(ictx) ==  \* mutant: pre is read after the accumulator was set
  LET post == Apply(accum, ictx.insn)
  IN  [ok |-> TRUE, data |-> <<[pre |-> post, addr |-> ictx.addr, post |-> post]>>]
ResultOf(ictx) ==
  CASE ictx.insn.op = "none" -> [ok |-> FALSE, data |-> <<>>]
    [] ictx.insn.op = "pow" -> [ok |-> FALSE, data |-> <<[pre |-> accum]>>]
    [] OTHER -> [ok |-> TRUE,
                 data |-> <<[pre |-> accum, addr |-> ictx.addr,
                             post |-> Apply(accum, ictx.insn)]>>]

(* The engine takes an instruction and exec() executes it at once; it will *)
(* report later, after a second or with setImmediate().                    *)
Exec ==
  /\ ~fault /\ engine /\ ~executing /\ queue # <<>>
  /\ queue' = Tail(queue)
  /\ executing' = TRUE
  /\ result' = ResultOf(Head(queue))
  /\ accum' = Apply(accum, Head(queue).insn)
  /\ UNCHANGED <<file, unread, js_accum, flushed, eof, broken, pc, engine, done, output, fault>>

(* The callback: it outputs the data, also those of an error; an error, or *)
(* the end of the input, terminates the simulation.  It throws if the      *)
(* controller has dropped the instruction meanwhile.                       *)
Report ==
  /\ ~fault /\ result # NoResult
  /\ result' = NoResult
  /\ IF executing
     THEN /\ executing' = FALSE
          /\ output' = output \o result.data
          /\ engine' = (result.ok /\ ~done)
          /\ UNCHANGED fault
     ELSE fault' = TRUE /\ UNCHANGED <<executing, output, engine>>
  /\ UNCHANGED <<file, pipeVars, done, accum>>

Next == Transform \/ Flush \/ End \/ Exec \/ Report

Spec == Init /\ [][Next]_vars

(* The file is read, the engine goes on, and a timer or setImmediate()     *)
(* that was set fires.                                                     *)
FairSpec ==
  /\ Spec
  /\ WF_vars(Transform) /\ WF_vars(Flush) /\ WF_vars(End)
  /\ WF_vars(Exec) /\ WF_vars(Report)

-----------------------------------------------------------------------------
(* The file as it should be read: its pieces, whatever lines they are on.  *)
Pieces == FlattenSeq(file)
Objects == Len(Pieces) \div 2
Nth(i) == Object(SubSeq(Pieces, 2 * i - 1, 2 * i))
Value(i) == FoldLeft(Apply, 0, [j \in 1 .. i |-> Nth(j)])

(* Objects only, each of which begins on a line of its own.                *)
WellFormed ==
  /\ Len(Pieces) % 2 = 0
  /\ \A i \in 1 .. Objects : IsObject(SubSeq(Pieces, 2 * i - 1, 2 * i))
  /\ \A l \in DOMAIN file : \A i \in DOMAIN file[l] :
       file[l][i][1] = "close" => i = Len(file[l])

HasNull == \E i \in DOMAIN Pieces : Pieces[i] = Null
Executable == \A i \in 1 .. Objects : Nth(i).op \notin {"pow", "none"}

Instruction == [insn : [op : Op, value : Int], addr : 0 .. (MaxLines - 1)]
Datum == [pre : Int, addr : Nat, post : Int] \cup [pre : Int]

(* Every variable has its type.                                            *)
TypeOK ==
  /\ js_accum \in Seq(Piece)
  /\ queue \in Seq(Instruction) /\ pc \in 0 .. MaxLines
  /\ flushed \in BOOLEAN /\ eof \in BOOLEAN /\ broken \in BOOLEAN /\ engine \in BOOLEAN
  /\ executing \in BOOLEAN /\ done \in BOOLEAN /\ fault \in BOOLEAN
  /\ result # NoResult => result.ok \in BOOLEAN /\ result.data \in Seq(Datum)
  /\ accum \in Int /\ output \in Seq(Datum)

(* Whatever the file, the data of an executed instruction are those of the *)
(* object with that number in the file: its address, and the accumulator   *)
(* before and after it.                                                    *)
OutputFollowsFile ==
  \A i \in DOMAIN output :
    "post" \in DOMAIN output[i] =>
      output[i] = [pre |-> Value(i - 1), addr |-> i - 1, post |-> Value(i)]

KilledOnlyIfBroken == fault => broken

(* A file without a null that has been read to its end is reported as      *)
(* broken if and only if it is not well formed.  (A null between objects   *)
(* ends the stream: nothing is reported if only nulls follow, or if the    *)
(* simulation is over by then, so files with one are excepted.)  Whatever  *)
(* the file, a well-formed one is never reported, and only a broken one    *)
(* can kill the process, by a result that comes late.                      *)
MalformedReported ==
  /\ flushed /\ ~HasNull => (broken <=> ~WellFormed)
  /\ WellFormed => ~broken
  /\ KilledOnlyIfBroken

(* The text left when the file ends never parses: _flush() pushes nothing. *)
FlushNeverPushes == ~Parses(js_accum)

(* All the instructions of a well-formed file are executed in the end, and *)
(* the accumulator has the value of the file.                              *)
FileExecuted ==
  WellFormed /\ Executable => <>[](Len(output) = Objects /\ accum = Value(Objects))
=============================================================================

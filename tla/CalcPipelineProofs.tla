------------------------- MODULE CalcPipelineProofs -------------------------
(* Proofs about CalcPipeline, for all files of any lines.                  *)
EXTENDS CalcPipeline, TLAPS

(* No text is left over that would parse, so the push() in _flush() of the *)
(* JSONStream is dead code: a flush with text left over is an error.       *)
THEOREM FlushDead == Spec => []FlushNeverPushes
<1>1. ~Parses(<<>>)
  <2>1. <<>> # <<Null>> /\ Len(<<>>) # 2
    OBVIOUS
  <2> QED
    BY <2>1 DEF Parses, IsObject
<1>2. Init => FlushNeverPushes
  BY <1>1 DEF Init, FlushNeverPushes
<1>3. FlushNeverPushes /\ [Next]_vars => FlushNeverPushes'
  <2> SUFFICES ASSUME FlushNeverPushes, [Next]_vars PROVE FlushNeverPushes'
    OBVIOUS
  <2>1. CASE Transform
    <3>1. \/ UNCHANGED js_accum
          \/ js_accum' = <<>>
          \/ ~Parses(js_accum')
      BY <2>1 DEF Transform, Rest
    <3> QED
      BY <1>1, <3>1 DEF FlushNeverPushes, Parses, IsObject
  <2>2. CASE UNCHANGED js_accum
    BY <2>2 DEF FlushNeverPushes, Parses, IsObject
  <2> QED
    BY <2>1, <2>2 DEF Next, Flush, End, Exec, Report, pipeVars, vars
<1> QED
  BY <1>2, <1>3, PTL DEF Spec

-----------------------------------------------------------------------------
(* What one object, and what exec() makes of it, can be.                   *)

LEMMA ObjectType ==
  ASSUME NEW text \in Seq(Piece), IsObject(text)
  PROVE  Object(text) \in [op : Op, value : Int]
<1>1. text[1] \in Piece /\ text[2] \in Piece
  BY DEF IsObject
<1>2. text[1][2] \in Op
  BY <1>1 DEF IsObject, Piece, Null
<1>3. text[2][2] \in Int
  BY <1>1 DEF IsObject, Piece, Null
<1> QED
  BY <1>2, <1>3 DEF Object

LEMMA ApplyType ==
  ASSUME NEW acc \in Int, NEW insn \in [op : Op, value : Int]
  PROVE  Apply(acc, insn) \in Int
<1>1. insn.value \in Int
  OBVIOUS
<1>2. acc * insn.value \in Int
  BY <1>1
<1> QED
  BY <1>1, <1>2 DEF Apply

(* A result says what became of the instruction: none, one with no address *)
(* in its data, or one that tells the accumulator before and after it.     *)
LEMMA ResultType ==
  ASSUME accum \in Int, NEW ictx \in Instruction
  PROVE  /\ ResultOf(ictx) # NoResult
         /\ ResultOf(ictx).ok \in BOOLEAN
         /\ ResultOf(ictx).data \in Seq(Datum)
         /\ \/ ResultOf(ictx).data = <<>> /\ ~ResultOf(ictx).ok
            \/ ResultOf(ictx).data = <<[pre |-> accum]>> /\ ~ResultOf(ictx).ok
            \/ /\ ResultOf(ictx).ok
               /\ ResultOf(ictx).data =
                    <<[pre |-> accum, addr |-> ictx.addr, post |-> Apply(accum, ictx.insn)]>>
<1>1. ictx.insn \in [op : Op, value : Int] /\ ictx.addr \in Nat
  BY BoundAssumption DEF Instruction
<1>2. Apply(accum, ictx.insn) \in Int
  BY <1>1, ApplyType
<1>3. [pre |-> accum] \in Datum
  BY DEF Datum
<1>4. [pre |-> accum, addr |-> ictx.addr, post |-> Apply(accum, ictx.insn)] \in Datum
  BY <1>1, <1>2 DEF Datum
<1>5. \A d : [ok |-> TRUE, data |-> d] # [ok |-> FALSE] /\ [ok |-> FALSE, data |-> d] # [ok |-> FALSE]
  <2> SUFFICES ASSUME NEW d
               PROVE  [ok |-> TRUE, data |-> d] # [ok |-> FALSE] /\ [ok |-> FALSE, data |-> d] # [ok |-> FALSE]
    OBVIOUS
  <2>1. "data" \in DOMAIN [ok |-> TRUE, data |-> d] /\ "data" \in DOMAIN [ok |-> FALSE, data |-> d]
    OBVIOUS
  <2>2. "data" \notin DOMAIN [ok |-> FALSE]
    OBVIOUS
  <2> QED
    BY <2>1, <2>2
<1>6. CASE ictx.insn.op = "none"
  <2>1. ResultOf(ictx) = [ok |-> FALSE, data |-> <<>>]
    BY <1>6 DEF ResultOf
  <2>2. <<>> \in Seq(Datum)
    OBVIOUS
  <2> QED
    BY <1>5, <2>1, <2>2 DEF NoResult
<1>7. CASE ictx.insn.op = "pow"
  <2>1. ResultOf(ictx) = [ok |-> FALSE, data |-> <<[pre |-> accum]>>]
    BY <1>7 DEF ResultOf
  <2>2. <<[pre |-> accum]>> \in Seq(Datum)
    BY <1>3
  <2> QED
    BY <1>5, <2>1, <2>2 DEF NoResult
<1>8. CASE ictx.insn.op \notin {"none", "pow"}
  <2> DEFINE datum == [pre |-> accum, addr |-> ictx.addr, post |-> Apply(accum, ictx.insn)]
  <2>1. ResultOf(ictx) = [ok |-> TRUE, data |-> <<datum>>]
    BY <1>8 DEF ResultOf
  <2>2. <<datum>> \in Seq(Datum)
    BY <1>4
  <2> HIDE DEF datum
  <2>3. ResultOf(ictx).ok /\ ResultOf(ictx).data = <<datum>> /\ ResultOf(ictx) # NoResult
    BY <1>5, <2>1 DEF NoResult
  <2> QED
    BY <2>2, <2>3 DEF datum
<1> QED
  BY <1>6, <1>7, <1>8

-----------------------------------------------------------------------------
(* As many lines as are unread may still give an address each.             *)
Room == unread \in Seq(Lines) /\ pc + Len(unread) <= MaxLines

(* Unless the input broke, a result is due exactly while an instruction    *)
(* executes, and one that executes has an engine.                          *)
ResultDue ==
  /\ ~broken => (executing <=> result # NoResult)
  /\ executing => engine /\ result # NoResult

TypeInv == TypeOK /\ Room /\ ResultDue /\ KilledOnlyIfBroken

LEMMA InitTypeInv == Init => TypeInv
<1> SUFFICES ASSUME Init PROVE TypeInv
  OBVIOUS
<1>1. file \in Seq(Lines) /\ Len(file) <= MaxLines
  BY BoundAssumption DEF Init, SeqOf
<1>2. Room
  BY <1>1 DEF Init, Room
<1>3. TypeOK
  <2>1. <<>> \in Seq(Piece) /\ <<>> \in Seq(Instruction) /\ <<>> \in Seq(Datum) /\ 0 \in 0 .. MaxLines
    BY BoundAssumption
  <2>2. js_accum \in Seq(Piece) /\ queue \in Seq(Instruction) /\ output \in Seq(Datum)
    BY <2>1 DEF Init
  <2>3. result = NoResult /\ pc = 0 /\ accum = 0
    BY DEF Init
  <2>4. /\ flushed \in BOOLEAN /\ eof \in BOOLEAN /\ broken \in BOOLEAN /\ engine \in BOOLEAN
        /\ executing \in BOOLEAN /\ done \in BOOLEAN /\ fault \in BOOLEAN
    BY DEF Init
  <2> QED
    BY <2>1, <2>2, <2>3, <2>4 DEF TypeOK
<1> QED
  BY <1>2, <1>3 DEF Init, TypeInv, ResultDue, KilledOnlyIfBroken

(* A line that is read gives at most one instruction, with the number the  *)
(* lines before it have left.                                              *)
LEMMA TransformTypeInv ==
  ASSUME TypeInv, Transform
  PROVE  TypeInv'
<1> DEFINE newl == js_accum \o Head(unread)
<1>1. /\ unread' = Tail(unread) /\ unread' \in Seq(Lines)
      /\ Len(unread) \in Nat /\ Len(unread') = Len(unread) - 1
      /\ pc \in Nat /\ pc < MaxLines
  BY BoundAssumption DEF TypeInv, TypeOK, Room, Transform
<1>2. newl \in Seq(Piece)
  <2>1. Head(unread) \in Lines
    BY DEF TypeInv, Room, Transform
  <2> QED
    BY <2>1, LineAssumption DEF TypeInv, TypeOK
<1>3. js_accum' \in Seq(Piece)
  <2>1. js_accum' = js_accum \/ js_accum' = <<>> \/ js_accum' = newl
    BY DEF Transform, Rest
  <2>2. js_accum \in Seq(Piece) /\ <<>> \in Seq(Piece)
    BY DEF TypeInv, TypeOK
  <2> HIDE DEF newl
  <2> QED
    BY <1>2, <2>1, <2>2
<1>4. /\ \/ UNCHANGED <<queue, pc>>
         \/ /\ IsObject(newl) /\ pc' = pc + 1
            /\ queue' = Append(queue, [insn |-> Object(newl), addr |-> pc])
      /\ \/ UNCHANGED <<broken, engine, executing>>
         \/ broken' /\ ~engine' /\ ~executing'
      /\ eof' \in BOOLEAN /\ broken' \in BOOLEAN /\ engine' \in BOOLEAN /\ executing' \in BOOLEAN
      /\ UNCHANGED <<flushed, result, done, accum, output, fault>>
  BY DEF Transform, Push, Parses, Numbered, Break, TypeInv, TypeOK
<1>5. queue' \in Seq(Instruction) /\ pc' \in 0 .. MaxLines /\ Room'
  <2>1. CASE UNCHANGED <<queue, pc>>
    BY <1>1, <2>1, BoundAssumption DEF Room, TypeInv, TypeOK
  <2>2. CASE IsObject(newl) /\ pc' = pc + 1
             /\ queue' = Append(queue, [insn |-> Object(newl), addr |-> pc])
    <3>1. [insn |-> Object(newl), addr |-> pc] \in Instruction
      <4>1. pc \in 0 .. (MaxLines - 1)
        BY <1>1, BoundAssumption
      <4>2. Object(newl) \in [op : Op, value : Int]
        BY <1>2, <2>2, ObjectType
      <4> HIDE DEF newl
      <4> QED
        BY <4>1, <4>2 DEF Instruction
    <3>2. queue \in Seq(Instruction)
      BY DEF TypeInv, TypeOK
    <3>3. queue' \in Seq(Instruction)
      BY <2>2, <3>1, <3>2
    <3> QED
      BY <1>1, <2>2, <3>3, BoundAssumption DEF Room, TypeInv, TypeOK
  <2> QED
    BY <1>4, <2>1, <2>2
<1>6. TypeOK'
  BY <1>3, <1>4, <1>5 DEF TypeInv, TypeOK
<1>7. ResultDue' /\ KilledOnlyIfBroken'
  BY <1>4 DEF TypeInv, ResultDue, KilledOnlyIfBroken
<1> QED
  BY <1>5, <1>6, <1>7 DEF TypeInv

LEMMA NextTypeInv == TypeInv /\ [Next]_vars => TypeInv'
<1> SUFFICES ASSUME TypeInv, [Next]_vars PROVE TypeInv'
  OBVIOUS
<1>1. CASE Transform
  BY <1>1, TransformTypeInv
<1>2. CASE Flush
  <2>1. \/ eof' /\ UNCHANGED <<broken, engine, executing>>
        \/ broken' /\ ~engine' /\ ~executing' /\ UNCHANGED eof
    BY <1>2 DEF Flush, FlushRest, Break
  <2>2. /\ UNCHANGED <<unread, js_accum, queue, pc, result, done, accum, output, fault>>
        /\ flushed'
    BY <1>2 DEF Flush
  <2>3. eof' \in BOOLEAN /\ broken' \in BOOLEAN /\ engine' \in BOOLEAN /\ executing' \in BOOLEAN
    BY <1>2 DEF Flush, FlushRest, Break, TypeInv, TypeOK
  <2>4. TypeOK'
    BY <1>2, <2>2, <2>3 DEF Flush, TypeInv, TypeOK
  <2> QED
    BY <2>1, <2>2, <2>4 DEF TypeInv, Room, ResultDue, KilledOnlyIfBroken
<1>3. CASE End
  BY <1>3 DEF End, pipeVars, execVars, TypeInv, TypeOK, Room, ResultDue, KilledOnlyIfBroken
<1>4. CASE Exec
  <2>1. Head(queue) \in Instruction /\ Tail(queue) \in Seq(Instruction)
    BY <1>4 DEF Exec, TypeInv, TypeOK
  <2>2. Apply(accum, Head(queue).insn) \in Int
    BY <2>1, ApplyType DEF Instruction, TypeInv, TypeOK
  <2>3. /\ result' # NoResult
        /\ result'.ok \in BOOLEAN /\ result'.data \in Seq(Datum)
    BY <1>4, <2>1, ResultType DEF Exec, TypeInv, TypeOK
  <2>4. TypeOK'
    BY <1>4, <2>1, <2>2, <2>3 DEF Exec, TypeInv, TypeOK
  <2> QED
    BY <1>4, <2>3, <2>4 DEF Exec, TypeInv, Room, ResultDue, KilledOnlyIfBroken
<1>5. CASE Report
  <2>1. output \o result.data \in Seq(Datum)
    BY <1>5 DEF Report, TypeInv, TypeOK
  <2>2. TypeOK'
    BY <1>5, <2>1 DEF Report, pipeVars, TypeInv, TypeOK
  <2> QED
    BY <1>5, <2>2 DEF Report, pipeVars, TypeInv, Room, ResultDue, KilledOnlyIfBroken
<1>6. CASE UNCHANGED vars
  BY <1>6 DEF vars, pipeVars, execVars, TypeInv, TypeOK, Room, ResultDue, KilledOnlyIfBroken
<1> QED
  BY <1>1, <1>2, <1>3, <1>4, <1>5, <1>6 DEF Next

(* For files of any lines the variables keep their types: instructions are *)
(* numbered below the number of lines, and data are those of instructions. *)
THEOREM TypeCorrect == Spec => []TypeOK
<1>1. TypeInv => TypeOK
  BY DEF TypeInv
<1> QED
  BY <1>1, InitTypeInv, NextTypeInv, PTL DEF Spec

(* The process is killed by a late result only if the input broke: for a   *)
(* file without an error, each result finds its instruction executing.     *)
THEOREM KilledByBroken == Spec => []KilledOnlyIfBroken
<1>1. TypeInv => KilledOnlyIfBroken
  BY DEF TypeInv
<1> QED
  BY <1>1, InitTypeInv, NextTypeInv, PTL DEF Spec

-----------------------------------------------------------------------------
(* What the parts of the pipeline agree on while there is an engine.       *)

Executed == Len(output) + IF executing THEN 1 ELSE 0
Before == IF output = <<>> THEN 0 ELSE output[Len(output)].post
DatumOf(addr) == [pre |-> Before, addr |-> addr, post |-> accum]

(* The queue continues the numbers of what was executed; the accumulator   *)
(* is what the last datum says, or what the pending result will say.       *)
InStep ==
  engine =>
    /\ \A j \in DOMAIN queue : queue[j].addr = Executed + j - 1
    /\ pc = Executed + Len(queue)
    /\ executing =>
         \/ result.data = <<>> /\ ~result.ok
         \/ result.data = <<[pre |-> Before]>> /\ ~result.ok
         \/ result.data = <<DatumOf(Len(output))>> /\ result.ok
    /\ ~executing => accum = Before

(* The data of executed instructions are numbered from 0 with no gap, and  *)
(* each begins with the accumulator that the one before has left.          *)
OutputChained ==
  \A i \in DOMAIN output :
    "post" \in DOMAIN output[i] =>
      /\ output[i].addr = i - 1
      /\ output[i].pre = IF i = 1 THEN 0 ELSE output[i - 1].post

ChainInv == TypeInv /\ InStep /\ OutputChained

LEMMA InitChainInv == Init => ChainInv
<1> SUFFICES ASSUME Init PROVE ChainInv
  OBVIOUS
<1>1. Len(<<>>) = 0 /\ DOMAIN <<>> = {}
  OBVIOUS
<1>2. InStep
  BY <1>1 DEF Init, InStep, Executed, Before
<1>3. OutputChained
  BY <1>1 DEF Init, OutputChained
<1> QED
  BY <1>2, <1>3, InitTypeInv DEF ChainInv

(* An instruction that comes in gets the number after all those before it. *)
LEMMA TransformInStep ==
  ASSUME ChainInv, Transform
  PROVE  InStep' /\ OutputChained'
<1> DEFINE new == [insn |-> Object(js_accum \o Head(unread)), addr |-> pc]
<1>1. /\ UNCHANGED <<result, accum, output>>
      /\ \/ engine' = FALSE
         \/ UNCHANGED <<queue, pc, engine, executing>>
         \/ queue' = Append(queue, new) /\ pc' = pc + 1 /\ UNCHANGED <<engine, executing>>
  BY DEF Transform, Push, Numbered, Break
<1>2. OutputChained'
  BY <1>1 DEF ChainInv, OutputChained
<1>3. CASE engine' = FALSE
  BY <1>2, <1>3 DEF InStep
<1>4. CASE UNCHANGED <<queue, pc, engine, executing>>
  BY <1>1, <1>2, <1>4 DEF ChainInv, InStep, Executed, Before, DatumOf
<1>5. CASE queue' = Append(queue, new) /\ pc' = pc + 1 /\ UNCHANGED <<engine, executing>>
  <2> SUFFICES ASSUME engine PROVE InStep'
    BY <1>2, <1>5 DEF InStep
  <2>1. UNCHANGED <<Executed, Before>> /\ DatumOf(Len(output))' = DatumOf(Len(output))
    BY <1>1, <1>5 DEF Executed, Before, DatumOf
  <2>2. /\ queue \in Seq(Instruction) /\ pc \in Nat /\ Len(queue) \in Nat /\ Len(output) \in Nat
        /\ pc = Executed + Len(queue) /\ Executed \in Nat
    BY BoundAssumption DEF ChainInv, TypeInv, TypeOK, InStep, Executed
  <2>3. new.addr = pc /\ Len(queue') = Len(queue) + 1
    BY <1>5, <2>2
  <2> HIDE DEF new
  <2>4. \A j \in DOMAIN queue' : queue'[j] = IF j = Len(queue) + 1 THEN new ELSE queue[j]
    BY <1>5, <2>2
  <2>5. \A j \in DOMAIN queue : queue[j].addr = Executed + j - 1
    BY DEF ChainInv, InStep
  <2>6. \A j \in DOMAIN queue' : queue'[j].addr = Executed' + j - 1
    BY <1>5, <2>1, <2>2, <2>3, <2>4, <2>5
  <2> QED
    BY <1>1, <1>5, <2>1, <2>2, <2>3, <2>6 DEF ChainInv, InStep
<1> QED
  BY <1>1, <1>2, <1>3, <1>4, <1>5

(* The next instruction is executed: its datum will say what it found.     *)
LEMMA ExecInStep ==
  ASSUME ChainInv, Exec
  PROVE  InStep' /\ OutputChained'
<1>1. OutputChained'
  BY DEF Exec, ChainInv, OutputChained
<1>2. /\ queue \in Seq(Instruction) /\ Head(queue) \in Instruction /\ Head(queue) = queue[1]
      /\ queue # <<>> /\ accum \in Int /\ pc \in Nat
      /\ Len(queue) \in Nat /\ Len(queue) # 0 /\ Len(output) \in Nat
  BY BoundAssumption DEF Exec, ChainInv, TypeInv, TypeOK
<1>3. /\ Executed = Len(output) /\ Executed' = Len(output) + 1
      /\ accum = Before /\ Before' = Before /\ pc = Len(output) + Len(queue)
      /\ \A j \in DOMAIN queue : queue[j].addr = Len(output) + j - 1
  BY <1>2 DEF Exec, ChainInv, InStep, Executed, Before
<1>4. Head(queue).addr = Len(output)
  BY <1>2, <1>3
<1>5. Len(queue') = Len(queue) - 1 /\ \A j \in DOMAIN queue' : queue'[j] = queue[j + 1] /\ j + 1 \in DOMAIN queue
  BY <1>2 DEF Exec
<1>6. \A j \in DOMAIN queue' : queue'[j].addr = Executed' + j - 1
  <2> SUFFICES ASSUME NEW j \in DOMAIN queue' PROVE queue'[j].addr = Executed' + j - 1
    OBVIOUS
  <2>1. j \in Int
    BY <1>2 DEF Exec
  <2>2. queue[j + 1].addr = Len(output) + (j + 1) - 1
    BY <1>3, <1>5
  <2>3. Len(output) + (j + 1) - 1 = Executed' + j - 1
    <3>1. Len(output) \in Nat /\ Executed' = Len(output) + 1
      BY <1>2, <1>3
    <3> QED
      BY ONLY <2>1, <3>1
  <2> QED
    BY <1>5, <2>2, <2>3
<1>7. \/ result'.data = <<>> /\ ~result'.ok
      \/ result'.data = <<[pre |-> Before']>> /\ ~result'.ok
      \/ result'.data = <<DatumOf(Len(output))'>> /\ result'.ok
  BY <1>2, <1>3, <1>4, ResultType DEF Exec, DatumOf
<1>8. pc' = Executed' + Len(queue')
  BY <1>2, <1>3, <1>5 DEF Exec
<1> QED
  BY <1>1, <1>6, <1>7, <1>8 DEF Exec, InStep

(* Its data are put out behind those of the instruction before.            *)
LEMMA ReportInStep ==
  ASSUME ChainInv, Report
  PROVE  InStep' /\ OutputChained'
<1>1. CASE ~executing
  <2>1. UNCHANGED <<executing, output, engine, queue, pc, accum>>
    BY <1>1 DEF Report, pipeVars
  <2> QED
    BY <1>1, <2>1 DEF ChainInv, InStep, OutputChained, Executed, Before, DatumOf
<1>2. CASE executing
  <2>1. /\ output' = output \o result.data /\ ~executing'
        /\ engine' = (result.ok /\ ~done)
        /\ UNCHANGED <<queue, pc, accum>>
        /\ engine /\ InStep
    BY <1>2 DEF Report, pipeVars, ChainInv, TypeInv, ResultDue
  <2>2. output \in Seq(Datum) /\ Len(output) \in Nat
    BY DEF ChainInv, TypeInv, TypeOK
  <2>3. CASE result.data = <<>> /\ ~result.ok
    <3>1. output' = output
      <4>1. output \o <<>> = output
        BY <2>2
      <4> QED
        BY <2>1, <2>3, <4>1
    <3>2. ~engine'
      BY <2>1, <2>3
    <3> QED
      BY <3>1, <3>2 DEF ChainInv, InStep, OutputChained
  <2>4. CASE result.data = <<[pre |-> Before]>> /\ ~result.ok
    <3> DEFINE last == [pre |-> Before]
    <3>1. ~engine' /\ "post" \notin DOMAIN last /\ output' = output \o <<last>>
      BY <2>1, <2>4
    <3> HIDE DEF last
    <3>2. /\ DOMAIN output' = 1 .. Len(output) + 1 /\ output'[Len(output) + 1] = last
          /\ \A i \in DOMAIN output : output'[i] = output[i]
      BY <2>2, <3>1
    <3>3. OutputChained'
      <4> SUFFICES ASSUME NEW i \in DOMAIN output', "post" \in DOMAIN output'[i]
                   PROVE  /\ output'[i].addr = i - 1
                          /\ output'[i].pre = IF i = 1 THEN 0 ELSE output'[i - 1].post
        BY DEF OutputChained
      <4>1. i \in DOMAIN output /\ (i # 1 => i - 1 \in DOMAIN output)
        BY <2>2, <3>1, <3>2
      <4> QED
        BY <3>2, <4>1 DEF ChainInv, OutputChained
    <3> QED
      BY <3>1, <3>3 DEF InStep
  <2>5. CASE result.data = <<DatumOf(Len(output))>> /\ result.ok
    <3> DEFINE last == DatumOf(Len(output))
    <3>1. /\ last.addr = Len(output) /\ last.pre = Before /\ last.post = accum
          /\ output' = output \o <<last>>
      BY <2>1, <2>5 DEF DatumOf
    <3> HIDE DEF last
    <3>2. /\ DOMAIN output' = 1 .. Len(output) + 1 /\ Len(output') = Len(output) + 1
          /\ output'[Len(output) + 1] = last /\ output' # <<>>
          /\ \A i \in DOMAIN output : output'[i] = output[i]
      BY <2>2, <3>1
    <3>3. OutputChained'
      <4> SUFFICES ASSUME NEW i \in DOMAIN output', "post" \in DOMAIN output'[i]
                   PROVE  /\ output'[i].addr = i - 1
                          /\ output'[i].pre = IF i = 1 THEN 0 ELSE output'[i - 1].post
        BY DEF OutputChained
      <4>1. CASE i \in DOMAIN output
        <5>1. i # 1 => i - 1 \in DOMAIN output
          BY <2>2, <4>1
        <5> QED
          BY <3>2, <4>1, <5>1 DEF ChainInv, OutputChained
      <4>2. CASE i = Len(output) + 1
        <5>1. CASE output = <<>>
          BY <2>2, <3>1, <3>2, <4>2, <5>1 DEF Before
        <5>2. CASE output # <<>>
          <6>1. i # 1 /\ i - 1 = Len(output) /\ i - 1 \in DOMAIN output
            BY <2>2, <4>2, <5>2
          <6>2. output'[i - 1] = output[Len(output)]
            BY <3>2, <6>1
          <6> QED
            BY <2>2, <3>1, <3>2, <4>2, <5>2, <6>1, <6>2 DEF Before
        <5> QED
          BY <5>1, <5>2
      <4> QED
        BY <2>2, <3>2, <4>1, <4>2
    <3>4. Executed' = Executed /\ Before' = accum
      BY <1>2, <2>1, <2>2, <3>1, <3>2 DEF Executed, Before
    <3> QED
      BY <2>1, <3>3, <3>4 DEF InStep
  <2> QED
    BY <1>2, <2>1, <2>3, <2>4, <2>5 DEF InStep
<1> QED
  BY <1>1, <1>2

LEMMA NextChainInv == ChainInv /\ [Next]_vars => ChainInv'
<1> SUFFICES ASSUME ChainInv, [Next]_vars PROVE InStep' /\ OutputChained'
  BY NextTypeInv DEF ChainInv
<1>1. CASE Transform
  BY <1>1, TransformInStep
<1>2. CASE Flush
  <2>1. UNCHANGED <<queue, pc, result, accum, output>>
    BY <1>2 DEF Flush
  <2>2. engine' = FALSE \/ UNCHANGED <<engine, executing>>
    BY <1>2 DEF Flush, FlushRest, Break
  <2> QED
    BY <2>1, <2>2 DEF ChainInv, InStep, OutputChained, Executed, Before, DatumOf
<1>3. CASE End
  <2>1. UNCHANGED <<queue, pc, result, accum, output, engine, executing>>
    BY <1>3 DEF End, pipeVars, execVars
  <2> QED
    BY <2>1 DEF ChainInv, InStep, OutputChained, Executed, Before, DatumOf
<1>4. CASE Exec
  BY <1>4, ExecInStep
<1>5. CASE Report
  BY <1>5, ReportInStep
<1>6. CASE UNCHANGED vars
  BY <1>6 DEF vars, pipeVars, execVars, ChainInv, InStep, OutputChained, Executed, Before, DatumOf
<1> QED
  BY <1>1, <1>2, <1>3, <1>4, <1>5, <1>6 DEF Next

(* Whatever the file and however far the pipeline reads ahead, the output  *)
(* is one chain: no instruction is lost, executed twice or out of order,   *)
(* and none sees an accumulator other than the one before it has left.     *)
THEOREM OutputIsChained == Spec => []OutputChained
<1>1. ChainInv => OutputChained
  BY DEF ChainInv
<1> QED
  BY <1>1, InitChainInv, NextChainInv, PTL DEF Spec
-----------------------------------------------------------------------------
(* What the file says: its pieces, line by line, and its value, object by  *)
(* object.                                                                 *)

ApplyTo(p, acc, insn) == Apply(acc, insn)
Facts == INSTANCE FoldFacts WITH Op <- ApplyTo

(* The value after one more object.                                        *)
LEMMA ValueStep ==
  /\ Value(0) = 0
  /\ \A i \in Nat : Value(i + 1) = Apply(Value(i), Nth(i + 1))
<1>1. ASSUME NEW s PROVE FoldLeft(Apply, 0, s) = Facts!Fold(0, 0, s)
  BY DEF FoldLeft, MapThenFoldSet, Max, Facts!Fold, Facts!FoldLeft,
         Facts!MapThenFoldSet, Facts!Max, ApplyTo
<1>2. Value(0) = 0
  <2> DEFINE s == [j \in 1 .. 0 |-> Nth(j)]
  <2>1. DOMAIN s = {}
    OBVIOUS
  <2> HIDE DEF s
  <2>2. Facts!Fold(0, 0, s) = 0
    BY <2>1, Facts!FoldEmpty
  <2> QED
    BY <1>1, <2>2 DEF Value, s
<1>3. ASSUME NEW i \in Nat PROVE Value(i + 1) = Apply(Value(i), Nth(i + 1))
  <2> DEFINE s == [j \in 1 .. (i + 1) |-> Nth(j)]
             t == [j \in 1 .. i |-> Nth(j)]
  <2>1. /\ DOMAIN s = 1 .. (i + 1) /\ DOMAIN t = 1 .. i
        /\ \A j \in 1 .. i : t[j] = s[j]
        /\ s[i + 1] = Nth(i + 1)
    OBVIOUS
  <2> HIDE DEF s, t
  <2>2. Facts!Fold(0, 0, s) = ApplyTo(0, Facts!Fold(0, 0, t), s[i + 1])
    BY <2>1, Facts!FoldStep
  <2> QED
    BY <1>1, <2>1, <2>2 DEF Value, s, t, ApplyTo
<1> QED
  BY <1>2, <1>3

(* The text of the first k lines.                                          *)
Text(k) == FlattenSeq(SubSeq(file, 1, k))

LEMMA TextSteps ==
  ASSUME file \in Seq(Lines)
  PROVE  /\ \A k \in 0 .. Len(file) : Text(k) \in Seq(Piece)
         /\ \A k \in 0 .. (Len(file) - 1) : Text(k + 1) = Text(k) \o file[k + 1]
         /\ Text(0) = <<>> /\ Text(Len(file)) = Pieces
<1>1. \A s : FlattenSeq(s) = Facts!FlattenSeq(s)
  BY DEF FlattenSeq, Facts!FlattenSeq
<1>2. file \in Seq(Seq(Piece))
  BY LineAssumption
<1>3. ASSUME NEW k \in 0 .. Len(file) PROVE Text(k) \in Seq(Piece)
  <2>1. SubSeq(file, 1, k) \in Seq(Seq(Piece))
    BY <1>2
  <2> QED
    BY <1>1, <2>1, Facts!FlattenType DEF Text
<1>4. ASSUME NEW k \in 0 .. (Len(file) - 1) PROVE Text(k + 1) = Text(k) \o file[k + 1]
  <2> DEFINE s == SubSeq(file, 1, k + 1)
             t == SubSeq(file, 1, k)
  <2>1. /\ s \in Seq(Seq(Piece)) /\ t \in Seq(Seq(Piece))
        /\ Len(s) = Len(t) + 1 /\ \A i \in 1 .. Len(t) : t[i] = s[i]
        /\ s[Len(s)] = file[k + 1]
    BY <1>2
  <2> HIDE DEF s, t
  <2>2. Facts!FlattenSeq(s) = Facts!FlattenSeq(t) \o s[Len(s)]
    BY <2>1, Facts!FlattenStep
  <2> QED
    BY <1>1, <2>1, <2>2 DEF Text, s, t
<1>5. Text(0) = <<>>
  <2>1. SubSeq(file, 1, 0) = <<>>
    BY <1>2
  <2>2. FlattenSeq(<<>>) = <<>>
    BY DEF FlattenSeq
  <2> QED
    BY <2>1, <2>2 DEF Text
<1>6. Text(Len(file)) = Pieces
  <2>1. SubSeq(file, 1, Len(file)) = file
    BY <1>2
  <2> QED
    BY <2>1 DEF Text, Pieces
<1> QED
  BY <1>3, <1>4, <1>5, <1>6

LEMMA PrefixOfConcat ==
  ASSUME NEW a \in Seq(Piece), NEW b \in Seq(Piece), NEW c \in Seq(Piece),
         Len(a) <= Len(b), \A i \in 1 .. Len(a) : b[i] = a[i]
  PROVE  Len(a) <= Len(b \o c) /\ \A i \in 1 .. Len(a) : (b \o c)[i] = a[i]
  OBVIOUS

(* What has been read of the file stays as it is when more is read.        *)
LEMMA TextPrefix ==
  ASSUME file \in Seq(Lines), NEW k \in 0 .. Len(file)
  PROVE  /\ Pieces \in Seq(Piece) /\ Len(Text(k)) <= Len(Pieces)
         /\ \A i \in 1 .. Len(Text(k)) : Pieces[i] = Text(k)[i]
<1> DEFINE Prefix(m) == /\ Len(Text(k)) <= Len(Text(m))
                        /\ \A i \in 1 .. Len(Text(k)) : Text(m)[i] = Text(k)[i]
           S == {d \in Nat : k + d <= Len(file) => Prefix(k + d)}
<1>1. k \in Nat /\ Len(file) \in Nat /\ \A m \in 0 .. Len(file) : Text(m) \in Seq(Piece)
  BY TextSteps
<1>2. 0 \in S
  BY <1>1
<1>3. ASSUME NEW d \in Nat, d \in S PROVE d + 1 \in S
  <2> SUFFICES ASSUME k + (d + 1) <= Len(file) PROVE Prefix(k + (d + 1))
    OBVIOUS
  <2>1. k + d \in 0 .. (Len(file) - 1) /\ k + (d + 1) = (k + d) + 1
    BY <1>1
  <2>2. Text((k + d) + 1) = Text(k + d) \o file[(k + d) + 1]
    BY <2>1, TextSteps
  <2>3. /\ Text(k + d) \in Seq(Piece) /\ Text(k) \in Seq(Piece)
        /\ file[(k + d) + 1] \in Seq(Piece)
    BY <1>1, <2>1, LineAssumption
  <2>4. Prefix(k + d)
    BY <1>1, <1>3, <2>1
  <2>5. Prefix((k + d) + 1)
    <3> DEFINE a == Text(k)
               b == Text(k + d)
               c == file[(k + d) + 1]
    <3>1. a \in Seq(Piece) /\ b \in Seq(Piece) /\ c \in Seq(Piece)
      BY <2>3
    <3>2. Len(a) <= Len(b) /\ \A i \in 1 .. Len(a) : b[i] = a[i]
      BY <2>4
    <3> HIDE DEF a, b, c
    <3>3. Len(a) <= Len(b \o c) /\ \A i \in 1 .. Len(a) : (b \o c)[i] = a[i]
      BY <3>1, <3>2, PrefixOfConcat
    <3> QED
      BY <2>2, <3>3 DEF a, b, c
  <2> QED
    BY <2>1, <2>5
<1> HIDE DEF S
<1>4. Nat \subseteq S
  BY <1>2, <1>3, Facts!NatSetInduction
<1>5. Prefix(Len(file))
  <2>1. Len(file) - k \in Nat /\ k + (Len(file) - k) = Len(file) /\ Len(file) <= Len(file)
    BY <1>1
  <2>2. Prefix(k + (Len(file) - k))
    BY <1>4, <2>1 DEF S
  <2> QED
    BY <2>1, <2>2
<1> QED
  BY <1>1, <1>5, TextSteps

-----------------------------------------------------------------------------
(* How far the file has been read, and what of it is under way.            *)

Consumed == Len(file) - Len(unread)

(* What has not parsed yet is the end of the text that was read, and what  *)
(* has is a pair of pieces for each instruction.                           *)
InText(i) == Text(Consumed)[2 * pc + i]
ReadSoFar ==
  ~eof /\ ~broken =>
    /\ Len(Text(Consumed)) = 2 * pc + Len(js_accum)
    /\ \A i \in DOMAIN js_accum : InText(i) = js_accum[i]

QueueRead == \A j \in DOMAIN queue : queue[j].insn = Nth(queue[j].addr + 1)

ReadInv ==
  /\ file \in Seq(Lines) /\ Consumed \in 0 .. Len(file)
  /\ \A i \in DOMAIN unread : unread[i] = file[Consumed + i]
  /\ ReadSoFar
  /\ QueueRead

(* The accumulator has the value of the objects executed so far, and the   *)
(* last datum that of those that were put out.                             *)
ValueInv ==
  engine => accum = Value(Executed) /\ Before = Value(Len(output))

FollowInv == ChainInv /\ ReadInv /\ ValueInv /\ OutputFollowsFile

(* The n-th pair of pieces.                                                *)
Pair(n) == SubSeq(Pieces, 2 * n - 1, 2 * n)

LEMMA TwoOf ==
  ASSUME NEW s \in Seq(Piece), NEW m \in Nat, 1 <= m, m + 1 <= Len(s)
  PROVE  /\ SubSeq(s, m, m + 1) \in Seq(Piece) /\ Len(SubSeq(s, m, m + 1)) = 2
         /\ SubSeq(s, m, m + 1)[1] = s[m] /\ SubSeq(s, m, m + 1)[2] = s[m + 1]
<1>1. SubSeq(s, m, m + 1) \in Seq(Piece)
  OBVIOUS
<1>2. Len(SubSeq(s, m, m + 1)) = 2
  OBVIOUS
<1>3. SubSeq(s, m, m + 1)[1] = s[m]
  OBVIOUS
<1>4. SubSeq(s, m, m + 1)[2] = s[m + 1]
  OBVIOUS
<1> QED
  BY <1>1, <1>2, <1>3, <1>4

LEMMA PairIs ==
  ASSUME Pieces \in Seq(Piece), NEW n \in Nat, 2 * n + 2 <= Len(Pieces)
  PROVE  /\ Pair(n + 1) \in Seq(Piece) /\ Len(Pair(n + 1)) = 2
         /\ Pair(n + 1)[1] = Pieces[2 * n + 1] /\ Pair(n + 1)[2] = Pieces[2 * n + 2]
<1> DEFINE m == 2 * n + 1
<1>1. /\ m \in Nat /\ 1 <= m /\ m + 1 <= Len(Pieces)
      /\ 2 * (n + 1) - 1 = m /\ 2 * (n + 1) = m + 1 /\ 2 * n + 2 = m + 1
  OBVIOUS
<1> HIDE DEF m
<1>2. Pair(n + 1) = SubSeq(Pieces, m, m + 1)
  BY <1>1 DEF Pair
<1>3. /\ SubSeq(Pieces, m, m + 1) \in Seq(Piece) /\ Len(SubSeq(Pieces, m, m + 1)) = 2
      /\ SubSeq(Pieces, m, m + 1)[1] = Pieces[m]
      /\ SubSeq(Pieces, m, m + 1)[2] = Pieces[m + 1]
  BY <1>1, TwoOf
<1> QED
  BY <1>1, <1>2, <1>3 DEF m

(* The next line continues the text: with what has not parsed before, it   *)
(* is the pieces of the file after those of the instructions so far.       *)
LEMMA ReadNext ==
  ASSUME ReadInv, TypeInv, unread # <<>>, ~eof, ~broken,
         NEW line, line = Head(unread), NEW newl, newl = js_accum \o line
  PROVE  /\ line = file[Consumed + 1] /\ line \in Seq(Piece)
         /\ Consumed \in Nat /\ Consumed + 1 \in 0 .. Len(file)
         /\ newl \in Seq(Piece) /\ Len(newl) = Len(js_accum) + Len(line)
         /\ Len(Text(Consumed + 1)) = 2 * pc + Len(newl)
         /\ \A i \in 1 .. Len(newl) : Text(Consumed + 1)[2 * pc + i] = newl[i]
         /\ Pieces \in Seq(Piece) /\ 2 * pc + Len(newl) <= Len(Pieces)
         /\ \A i \in 1 .. Len(newl) : Pieces[2 * pc + i] = newl[i]
<1> DEFINE k == Consumed
           text == Text(k)
           more == Text(k + 1)
<1>1. /\ file \in Seq(Lines) /\ Len(file) \in Nat /\ k \in 0 .. Len(file)
      /\ unread \in Seq(Lines) /\ Len(unread) \in Nat /\ Len(unread) # 0
      /\ js_accum \in Seq(Piece) /\ pc \in Nat
  BY BoundAssumption DEF ReadInv, TypeInv, TypeOK, Room
<1>2. k = Len(file) - Len(unread)
  BY DEF Consumed
<1>3. line = file[k + 1] /\ line \in Seq(Piece)
  <2>1. line = unread[1] /\ 1 \in DOMAIN unread /\ line \in Lines
    BY <1>1
  <2> QED
    BY <2>1, LineAssumption DEF ReadInv
<1> HIDE DEF k
<1>4. k \in Nat /\ k \in 0 .. (Len(file) - 1) /\ k + 1 \in 0 .. Len(file)
  BY <1>1, <1>2
<1>5. more = text \o line /\ text \in Seq(Piece)
  BY <1>1, <1>3, <1>4, TextSteps
<1>6. /\ Len(text) = 2 * pc + Len(js_accum)
      /\ \A i \in DOMAIN js_accum : text[2 * pc + i] = js_accum[i]
  BY DEF ReadInv, ReadSoFar, InText, k
<1>7. /\ Pieces \in Seq(Piece) /\ Len(more) <= Len(Pieces)
      /\ \A i \in 1 .. Len(more) : Pieces[i] = more[i]
  BY <1>1, <1>4, TextPrefix
<1> HIDE DEF text, more
<1>8. newl \in Seq(Piece) /\ Len(newl) = Len(js_accum) + Len(line)
  BY <1>1, <1>3
<1> DEFINE base == 2 * pc
<1>13. base \in Nat
  BY <1>1
<1>14. Len(text) = base + Len(js_accum) /\ \A i \in DOMAIN js_accum : text[base + i] = js_accum[i]
  BY <1>6
<1>15. Len(js_accum) \in Nat /\ Len(line) \in Nat /\ Len(newl) \in Nat /\ Len(text) \in Nat
  BY <1>1, <1>3, <1>5, <1>8
<1>16. Len(more) = Len(text) + Len(line)
  <2>1. Len(text \o line) = Len(text) + Len(line)
    BY ONLY <1>3, <1>5
  <2> QED
    BY <1>5, <2>1
<1> HIDE DEF base
<1>12. /\ base \in Nat /\ Len(js_accum) \in Nat /\ Len(line) \in Nat /\ Len(newl) \in Nat
       /\ Len(text) \in Nat /\ Len(text) = base + Len(js_accum)
       /\ Len(more) = Len(text) + Len(line)
       /\ \A i \in DOMAIN js_accum : text[base + i] = js_accum[i]
  BY <1>13, <1>14, <1>15, <1>16
<1>9. Len(more) = base + Len(newl)
  <2>1. Len(more) = (base + Len(js_accum)) + Len(line)
    BY <1>12
  <2>2. Len(newl) = Len(js_accum) + Len(line)
    BY <1>8
  <2> QED
    BY ONLY <1>12, <2>1, <2>2
<1>10. ASSUME NEW i \in 1 .. Len(newl) PROVE more[base + i] = newl[i]
  <2>1. CASE i \in DOMAIN js_accum
    <3>1. newl[i] = js_accum[i] /\ base + i \in DOMAIN text
      BY <1>1, <1>3, <1>5, <1>12, <2>1
    <3>2. more[base + i] = text[base + i]
      BY <1>3, <1>5, <3>1
    <3> QED
      BY <1>12, <2>1, <3>1, <3>2
  <2>2. CASE i \notin DOMAIN js_accum
    <3> DEFINE j == i - Len(js_accum)
    <3>1. newl[i] = line[j] /\ j \in 1 .. Len(line)
      BY <1>1, <1>3, <1>8, <2>2
    <3>2. base + i = Len(text) + j
      BY <1>12
    <3> HIDE DEF j
    <3>3. more[Len(text) + j] = line[j]
      BY <1>3, <1>5, <3>1
    <3> QED
      BY <3>1, <3>2, <3>3
  <2> QED
    BY <2>1, <2>2
<1>11. ASSUME NEW i \in 1 .. Len(newl) PROVE Pieces[base + i] = newl[i]
  <2>1. base + i \in 1 .. Len(more)
    BY <1>9, <1>12
  <2> QED
    BY <1>7, <1>10, <2>1
<1> QED
  BY <1>3, <1>4, <1>7, <1>8, <1>9, <1>10, <1>11 DEF k, more, base

(* What the file says depends on the file only.                            *)
LEMMA SameFile ==
  ASSUME file' = file
  PROVE  /\ Pieces' = Pieces
         /\ \A k : Text(k)' = Text(k)
         /\ \A i : Nth(i)' = Nth(i)
         /\ \A i : Value(i)' = Value(i)
<1>1. Pieces' = Pieces
  BY DEF Pieces
<1>2. \A k : Text(k)' = Text(k)
  BY DEF Text
<1>3. \A i : Nth(i)' = Nth(i)
  BY <1>1 DEF Nth
<1>4. \A i : Value(i)' = Value(i)
  BY <1>3 DEF Value
<1> QED
  BY <1>1, <1>2, <1>3, <1>4

(* What a line does: nothing if it is empty; else what has accumulated is  *)
(* an object or a null, or it is kept.                                     *)
LEMMA TransformCases ==
  ASSUME Transform, NEW line, line = Head(unread), NEW newl, newl = js_accum \o line
  PROVE  \/ line = <<>> /\ UNCHANGED <<js_accum, eof, broken, queue, pc, engine, executing>>
         \/ newl = <<Null>> /\ line # <<>> /\ js_accum' = <<>> /\ eof'
            /\ UNCHANGED <<broken, queue, pc, engine, executing>>
         \/ /\ IsObject(newl) /\ ~eof /\ line # <<>> /\ js_accum' = <<>>
            /\ queue' = Append(queue, [insn |-> Object(newl), addr |-> pc]) /\ pc' = pc + 1
            /\ UNCHANGED <<eof, broken, engine, executing>>
         \/ eof /\ broken' /\ engine' = FALSE /\ UNCHANGED <<eof, queue, pc>>
         \/ ~Parses(newl) /\ line # <<>> /\ js_accum' = newl
            /\ UNCHANGED <<eof, broken, queue, pc, engine, executing>>
  BY DEF Transform, Push, Rest, Numbered, Break, Parses

(* The object that comes out is the one after those of the instructions so *)
(* far, and what is kept is again the end of the text.                     *)
LEMMA TransformReadInv ==
  ASSUME TypeInv, ReadInv, Transform
  PROVE  ReadInv'
<1> DEFINE line == Head(unread)
           newl == js_accum \o line
<1>1. /\ ~broken /\ unread # <<>> /\ unread' = Tail(unread) /\ file' = file
      /\ unread \in Seq(Lines) /\ Len(unread) \in Nat /\ pc \in Nat
      /\ file \in Seq(Lines) /\ Len(file) \in Nat /\ js_accum \in Seq(Piece)
      /\ queue \in Seq(Instruction)
  BY BoundAssumption DEF Transform, TypeInv, TypeOK, Room, ReadInv
<1>2. /\ Pieces' = Pieces /\ (\A k : Text(k)' = Text(k)) /\ (\A i : Nth(i)' = Nth(i))
  BY <1>1, SameFile
<1>3. /\ Consumed' = Consumed + 1 /\ Consumed \in Nat /\ Consumed' \in 0 .. Len(file)
      /\ Len(unread') = Len(unread) - 1
  BY <1>1 DEF Consumed, ReadInv
<1>4. \A i \in DOMAIN unread' : unread'[i] = file[Consumed' + i]
  <2> SUFFICES ASSUME NEW i \in DOMAIN unread' PROVE unread'[i] = file[Consumed' + i]
    OBVIOUS
  <2>1. i + 1 \in DOMAIN unread /\ unread'[i] = unread[i + 1] /\ i \in Int
    BY <1>1
  <2>2. Consumed + (i + 1) = Consumed' + i
    BY <1>3, <2>1
  <2> QED
    BY <2>1, <2>2 DEF ReadInv
<1> HIDE DEF line, newl
<1>5. /\ line = Head(unread) /\ newl = js_accum \o line
      /\ Text(Consumed)' = Text(Consumed + 1)
  BY <1>1, <1>3 DEF Text, line, newl
<1>6. ASSUME ~eof
      PROVE  /\ line \in Seq(Piece) /\ newl \in Seq(Piece)
             /\ Len(Text(Consumed)') = 2 * pc + Len(newl)
             /\ \A i \in 1 .. Len(newl) : Text(Consumed)'[2 * pc + i] = newl[i]
             /\ Pieces \in Seq(Piece) /\ 2 * pc + Len(newl) <= Len(Pieces)
             /\ \A i \in 1 .. Len(newl) : Pieces[2 * pc + i] = newl[i]
  <2>1. unread # <<>> /\ ~broken /\ line = Head(unread) /\ newl = js_accum \o line
    BY <1>1, <1>5
  <2>2. /\ line \in Seq(Piece) /\ newl \in Seq(Piece)
        /\ Len(Text(Consumed + 1)) = 2 * pc + Len(newl)
        /\ \A i \in 1 .. Len(newl) : Text(Consumed + 1)[2 * pc + i] = newl[i]
        /\ Pieces \in Seq(Piece) /\ 2 * pc + Len(newl) <= Len(Pieces)
        /\ \A i \in 1 .. Len(newl) : Pieces[2 * pc + i] = newl[i]
    BY <1>6, <2>1, ReadNext
  <2>3. Text(Consumed)' = Text(Consumed + 1)
    BY <1>5
  <2> QED
    BY <2>2, <2>3
<1>7. \/ line = <<>> /\ UNCHANGED <<js_accum, eof, broken, queue, pc>>
      \/ eof' /\ UNCHANGED <<broken, queue, pc>>
      \/ /\ IsObject(newl) /\ ~eof /\ js_accum' = <<>>
         /\ queue' = Append(queue, [insn |-> Object(newl), addr |-> pc]) /\ pc' = pc + 1
      \/ broken' /\ UNCHANGED <<queue, pc>>
      \/ js_accum' = newl /\ UNCHANGED <<eof, broken, queue, pc>>
  BY <1>5, TransformCases
<1>8. ReadSoFar'
  <2> SUFFICES ASSUME ~eof', ~broken'
               PROVE  /\ Len(Text(Consumed)') = 2 * pc' + Len(js_accum')
                      /\ \A i \in DOMAIN js_accum' : Text(Consumed)'[2 * pc' + i] = js_accum'[i]
    BY DEF ReadSoFar, InText
  <2>1. CASE line = <<>> /\ UNCHANGED <<js_accum, eof, broken, queue, pc>>
    <3>1. newl = js_accum /\ DOMAIN js_accum = 1 .. Len(js_accum)
      BY <1>1, <1>5, <2>1
    <3>2. ~eof /\ js_accum' = newl /\ pc' = pc /\ DOMAIN newl = 1 .. Len(newl)
      BY <2>1, <3>1
    <3> QED
      BY <1>6, <3>2
  <2>2. CASE IsObject(newl) /\ ~eof /\ js_accum' = <<>> /\ pc' = pc + 1
    <3>1. Len(newl) = 2 /\ Len(js_accum') = 0 /\ DOMAIN js_accum' = {}
      BY <2>2 DEF IsObject
    <3>2. 2 * pc' + 0 = 2 * pc + 2
      BY <1>1, <2>2
    <3>3. Len(Text(Consumed)') = 2 * pc + Len(newl)
      BY <1>6, <2>2
    <3> QED
      BY <3>1, <3>2, <3>3
  <2>3. CASE js_accum' = newl /\ UNCHANGED <<eof, broken, queue, pc>>
    <3>1. ~eof /\ pc' = pc /\ newl \in Seq(Piece)
      BY <1>6, <2>3
    <3>2. DOMAIN newl = 1 .. Len(newl)
      BY <3>1
    <3> QED
      BY <1>6, <2>3, <3>1, <3>2
  <2> QED
    BY <1>7, <2>1, <2>2, <2>3
<1>9. ASSUME NEW j \in DOMAIN queue' PROVE queue'[j].insn = Nth(queue'[j].addr + 1)
  <2>1. CASE UNCHANGED queue
    BY <1>9, <2>1 DEF ReadInv, QueueRead
  <2>2. CASE IsObject(newl) /\ ~eof /\ queue' = Append(queue, [insn |-> Object(newl), addr |-> pc])
    <3>1. CASE j \in DOMAIN queue
      <4>1. queue'[j] = queue[j]
        BY <1>1, <2>2, <3>1
      <4> QED
        BY <3>1, <4>1 DEF ReadInv, QueueRead
    <3>2. CASE j \notin DOMAIN queue
      <4>1. queue'[j] = [insn |-> Object(newl), addr |-> pc]
        BY <1>1, <1>9, <2>2, <3>2
      <4>2. Pair(pc + 1)[1] = newl[1] /\ Pair(pc + 1)[2] = newl[2]
        <5>1. Len(newl) = 2 /\ 1 \in 1 .. Len(newl) /\ 2 \in 1 .. Len(newl)
          BY <2>2 DEF IsObject
        <5>2. /\ Pieces \in Seq(Piece) /\ 2 * pc + 2 <= Len(Pieces)
              /\ Pieces[2 * pc + 1] = newl[1] /\ Pieces[2 * pc + 2] = newl[2]
          BY <1>6, <2>2, <5>1
        <5> QED
          BY <1>1, <5>2, PairIs
      <4>3. Nth(pc + 1) = Object(newl)
        BY <4>2 DEF Nth, Pair, Object
      <4> QED
        BY <4>1, <4>3
    <3> QED
      BY <3>1, <3>2
  <2> QED
    BY <1>7, <2>1, <2>2
<1>10. QueueRead'
  BY <1>2, <1>9 DEF QueueRead, Nth
<1>11. (\A i \in DOMAIN unread : unread[i] = file[Consumed + i])'
  BY <1>1, <1>4
<1> QED
  BY <1>1, <1>3, <1>8, <1>10, <1>11 DEF ReadInv

(* A step that does not read changes what is under way only by taking the  *)
(* head of the queue.                                                      *)
LEMMA OtherReadInv ==
  ASSUME TypeInv, ReadInv, UNCHANGED <<file, unread, js_accum, pc>>,
         UNCHANGED queue \/ (queue # <<>> /\ queue' = Tail(queue)),
         ~eof' => ~eof, ~broken' => ~broken
  PROVE  ReadInv'
<1>1. /\ Pieces' = Pieces /\ (\A k : Text(k)' = Text(k)) /\ (\A i : Nth(i)' = Nth(i))
  BY SameFile
<1>2. Consumed' = Consumed /\ Text(Consumed)' = Text(Consumed)
  BY DEF Consumed, Text
<1>3. ReadSoFar'
  BY <1>2 DEF ReadInv, ReadSoFar, InText
<1>4. \A j \in DOMAIN queue' : queue'[j].insn = Nth(queue'[j].addr + 1)
  <2>1. CASE UNCHANGED queue
    BY <2>1 DEF ReadInv, QueueRead
  <2>2. CASE queue # <<>> /\ queue' = Tail(queue)
    <3>1. queue \in Seq(Instruction)
      BY DEF TypeInv, TypeOK
    <3>2. \A j \in DOMAIN queue' : j + 1 \in DOMAIN queue /\ queue'[j] = queue[j + 1]
      BY <2>2, <3>1
    <3> QED
      BY <3>2 DEF ReadInv, QueueRead
  <2> QED
    BY <2>1, <2>2
<1>5. QueueRead'
  BY <1>4 DEF QueueRead, Nth, Pieces
<1> QED
  BY <1>2, <1>3, <1>5 DEF ReadInv

(* Neither reading, nor the end of the input, changes a value.             *)
LEMMA QuietValueInv ==
  ASSUME ValueInv, OutputFollowsFile, UNCHANGED <<file, accum, output>>,
         engine' => engine, engine' => UNCHANGED executing
  PROVE  ValueInv' /\ OutputFollowsFile'
<1>1. \A i : Value(i)' = Value(i)
  BY SameFile
<1>2. OutputFollowsFile'
  BY <1>1 DEF OutputFollowsFile, Value, Nth, Pieces
<1>3. Before' = Before /\ (engine' => Executed' = Executed)
  BY DEF Before, Executed
<1>4. ASSUME engine' PROVE accum' = Value(Executed)' /\ Before' = Value(Len(output))'
  <2>1. accum = Value(Executed) /\ Before = Value(Len(output))
    BY <1>4 DEF ValueInv
  <2>2. Value(Executed)' = Value(Executed) /\ Value(Len(output))' = Value(Len(output))
    BY <1>3, <1>4 DEF Value, Nth, Pieces
  <2> QED
    BY <1>3, <2>1, <2>2
<1> QED
  BY <1>2, <1>4 DEF ValueInv

(* The instruction that is executed is the next object of the file, so the *)
(* accumulator has the value of one object more.                           *)
LEMMA ExecValueInv ==
  ASSUME FollowInv, Exec
  PROVE  ValueInv' /\ OutputFollowsFile'
<1>1. /\ file' = file /\ output' = output /\ engine /\ ~executing /\ executing' /\ queue # <<>>
      /\ accum' = Apply(accum, Head(queue).insn)
  BY DEF Exec
<1>2. OutputFollowsFile'
  BY <1>1 DEF FollowInv, OutputFollowsFile, Value, Nth, Pieces
<1>3. queue \in Seq(Instruction) /\ output \in Seq(Datum)
  BY DEF FollowInv, ChainInv, TypeInv, TypeOK
<1>4. Len(output) \in Nat /\ 1 \in DOMAIN queue /\ Head(queue) = queue[1]
  BY <1>1, <1>3
<1>5. Executed = Len(output) /\ Executed' = Len(output) + 1 /\ Before' = Before
  BY <1>1, <1>4 DEF Executed, Before
<1>6. Head(queue).addr = Len(output)
  <2>1. queue[1].addr = Executed + 1 - 1
    BY <1>1, <1>4 DEF FollowInv, ChainInv, InStep
  <2> QED
    BY <1>4, <1>5, <2>1
<1>7. Head(queue).insn = Nth(Len(output) + 1)
  BY <1>4, <1>6 DEF FollowInv, ReadInv, QueueRead
<1>8. accum = Value(Len(output)) /\ Before = Value(Len(output))
  BY <1>1, <1>5 DEF FollowInv, ValueInv
<1>9. accum' = Value(Len(output) + 1)
  BY <1>1, <1>4, <1>7, <1>8, ValueStep
<1>10. Value(Executed)' = Value(Len(output) + 1) /\ Value(Len(output))' = Value(Len(output))
  BY <1>1, <1>5 DEF Value, Nth, Pieces
<1> QED
  BY <1>2, <1>5, <1>8, <1>9, <1>10 DEF ValueInv

(* Its datum says what the file says.                                      *)
LEMMA ReportValueInv ==
  ASSUME FollowInv, Report
  PROVE  ValueInv' /\ OutputFollowsFile'
<1>1. /\ file' = file /\ accum' = accum
      /\ \A i : Value(i)' = Value(i)
  BY SameFile DEF Report
<1>2. CASE ~executing
  <2>1. UNCHANGED <<file, accum, output, engine, executing>>
    BY <1>1, <1>2 DEF Report
  <2> QED
    BY <2>1, QuietValueInv DEF FollowInv
<1>3. CASE executing
  <2>1. /\ output' = output \o result.data /\ ~executing' /\ engine' = (result.ok /\ ~done)
        /\ engine
    BY <1>3 DEF Report, FollowInv, ChainInv, TypeInv, ResultDue
  <2>2. output \in Seq(Datum) /\ Len(output) \in Nat /\ result.ok \in BOOLEAN
    BY DEF FollowInv, ChainInv, TypeInv, TypeOK, Report
  <2>3. /\ Executed = Len(output) + 1 /\ accum = Value(Len(output) + 1)
        /\ Before = Value(Len(output))
    BY <1>3, <2>1 DEF FollowInv, ValueInv, Executed
  <2>4. ASSUME NEW i \in DOMAIN output, "post" \in DOMAIN output[i]
        PROVE  output[i] = [pre |-> Value(i - 1), addr |-> i - 1, post |-> Value(i)]
    BY <2>4 DEF FollowInv, OutputFollowsFile
  <2>5. CASE result.data = <<>> /\ ~result.ok
    <3>1. output \o <<>> = output
      BY <2>2
    <3>2. output' = output /\ ~engine'
      BY <2>1, <2>5, <3>1
    <3> QED
      BY <1>1, <3>2, QuietValueInv DEF FollowInv
  <2>6. CASE result.data = <<[pre |-> Before]>> /\ ~result.ok
    <3> DEFINE last == [pre |-> Before]
    <3>1. ~engine' /\ "post" \notin DOMAIN last /\ output' = output \o <<last>>
      BY <2>1, <2>6
    <3> HIDE DEF last
    <3>2. /\ DOMAIN output' = 1 .. Len(output) + 1 /\ output'[Len(output) + 1] = last
          /\ \A i \in DOMAIN output : output'[i] = output[i]
          /\ DOMAIN output = 1 .. Len(output)
      BY <2>2, <3>1
    <3>3. ASSUME NEW i \in DOMAIN output', "post" \in DOMAIN output'[i]
          PROVE  output'[i] = [pre |-> Value(i - 1), addr |-> i - 1, post |-> Value(i)]
      <4>1. i \in DOMAIN output
        BY <2>2, <3>1, <3>2, <3>3
      <4> QED
        BY <2>4, <3>2, <3>3, <4>1
    <3>4. OutputFollowsFile'
      BY <1>1, <3>3 DEF OutputFollowsFile, Value, Nth, Pieces
    <3> QED
      BY <3>1, <3>4 DEF ValueInv
  <2>7. CASE result.data = <<DatumOf(Len(output))>> /\ result.ok
    <3> DEFINE last == DatumOf(Len(output))
    <3>1. /\ last = [pre |-> Value(Len(output)), addr |-> Len(output), post |-> Value(Len(output) + 1)]
          /\ last.post = Value(Len(output) + 1)
          /\ output' = output \o <<last>>
      BY <2>1, <2>3, <2>7 DEF DatumOf
    <3> HIDE DEF last
    <3>2. /\ DOMAIN output' = 1 .. Len(output) + 1 /\ Len(output') = Len(output) + 1
          /\ output'[Len(output) + 1] = last /\ output' # <<>>
          /\ \A i \in DOMAIN output : output'[i] = output[i]
          /\ DOMAIN output = 1 .. Len(output)
      BY <2>2, <3>1
    <3>3. ASSUME NEW i \in DOMAIN output', "post" \in DOMAIN output'[i]
          PROVE  output'[i] = [pre |-> Value(i - 1), addr |-> i - 1, post |-> Value(i)]
      <4>1. CASE i \in DOMAIN output
        BY <2>4, <3>2, <3>3, <4>1
      <4>2. CASE i = Len(output) + 1
        <5>1. i - 1 = Len(output)
          BY <2>2, <4>2
        <5> QED
          BY <3>1, <3>2, <4>2, <5>1
      <4> QED
        BY <2>2, <3>2, <3>3, <4>1, <4>2
    <3>4. OutputFollowsFile'
      BY <1>1, <3>3 DEF OutputFollowsFile, Value, Nth, Pieces
    <3>5. Executed' = Len(output') /\ Before' = Value(Len(output) + 1) /\ accum' = Value(Len(output) + 1)
      BY <1>1, <2>1, <2>2, <2>3, <3>1, <3>2 DEF Executed, Before
    <3>6. Value(Executed)' = Value(Len(output) + 1) /\ Value(Len(output))' = Value(Len(output) + 1)
      BY <1>1, <3>2, <3>5 DEF Value, Nth, Pieces
    <3> QED
      BY <3>4, <3>5, <3>6 DEF ValueInv
  <2> QED
    BY <1>3, <2>1, <2>5, <2>6, <2>7 DEF FollowInv, ChainInv, InStep
<1> QED
  BY <1>2, <1>3

LEMMA InitFollowInv == Init => FollowInv
<1> SUFFICES ASSUME Init PROVE FollowInv
  OBVIOUS
<1>1. file \in Seq(Lines) /\ unread = file /\ js_accum = <<>> /\ queue = <<>> /\ output = <<>>
  BY BoundAssumption DEF Init, SeqOf
<1>2. Consumed = 0 /\ Len(file) \in Nat
  BY <1>1 DEF Consumed
<1>3. Text(Consumed) = <<>> /\ DOMAIN js_accum = {} /\ Len(<<>>) = 0 /\ pc = 0
  BY <1>1, <1>2, TextSteps DEF Init
<1>4. \A i \in DOMAIN unread : unread[i] = file[Consumed + i]
  <2>1. \A i \in DOMAIN file : 0 + i = i
    BY <1>1
  <2> QED
    BY <1>1, <1>2, <2>1
<1>5. ReadSoFar
  <2>1. Len(js_accum) = 0 /\ 2 * pc + Len(js_accum) = 0
    BY <1>1, <1>3
  <2> QED
    BY <1>3, <2>1 DEF ReadSoFar
<1>6. QueueRead
  BY <1>1 DEF QueueRead
<1>7. ReadInv
  BY <1>1, <1>2, <1>4, <1>5, <1>6 DEF ReadInv
<1>8. ValueInv
  <2>1. Executed = 0 /\ Before = 0 /\ Len(output) = 0 /\ accum = 0
    BY <1>1 DEF Init, Executed, Before
  <2> QED
    BY <2>1, ValueStep DEF ValueInv
<1>9. OutputFollowsFile
  BY <1>1 DEF OutputFollowsFile
<1> QED
  BY <1>7, <1>8, <1>9, InitChainInv DEF FollowInv

LEMMA NextFollowInv == FollowInv /\ [Next]_vars => FollowInv'
<1> SUFFICES ASSUME FollowInv, [Next]_vars PROVE ReadInv' /\ ValueInv' /\ OutputFollowsFile'
  BY NextChainInv DEF FollowInv
<1>1. TypeInv /\ ReadInv /\ ValueInv /\ OutputFollowsFile
  BY DEF FollowInv, ChainInv
<1>2. CASE Transform
  <2>1. UNCHANGED <<file, accum, output>>
    BY <1>2 DEF Transform
  <2>2. engine' = FALSE \/ UNCHANGED <<engine, executing>>
    BY <1>2 DEF Transform, Push, Break
  <2> QED
    BY <1>1, <1>2, <2>1, <2>2, TransformReadInv, QuietValueInv
<1>3. CASE Flush
  <2>1. UNCHANGED <<file, unread, js_accum, queue, pc, accum, output>>
    BY <1>3 DEF Flush
  <2>2. /\ engine' = FALSE \/ UNCHANGED <<engine, executing>>
        /\ eof => eof'
        /\ broken => broken'
    BY <1>3 DEF Flush, FlushRest, Break
  <2>3. ReadInv'
    <3>1. UNCHANGED <<file, unread, js_accum, pc>> /\ UNCHANGED queue
      BY <2>1
    <3>2. (~eof' => ~eof) /\ (~broken' => ~broken)
      BY <2>2
    <3> QED
      BY <1>1, <3>1, <3>2, OtherReadInv
  <2>4. ValueInv' /\ OutputFollowsFile'
    BY <1>1, <2>1, <2>2, QuietValueInv
  <2> QED
    BY <2>3, <2>4
<1>4. CASE End
  <2>1. UNCHANGED <<file, unread, js_accum, queue, pc, accum, output, eof, broken, engine, executing>>
    BY <1>4 DEF End, pipeVars, execVars
  <2>2. ReadInv'
    BY <1>1, <2>1, OtherReadInv
  <2>3. ValueInv' /\ OutputFollowsFile'
    BY <1>1, <2>1, QuietValueInv
  <2> QED
    BY <2>2, <2>3
<1>5. CASE Exec
  <2>1. /\ UNCHANGED <<file, unread, js_accum, pc, eof, broken>>
        /\ queue # <<>> /\ queue' = Tail(queue)
    BY <1>5 DEF Exec
  <2>2. ReadInv'
    BY <1>1, <2>1, OtherReadInv
  <2> QED
    BY <1>5, <2>2, ExecValueInv
<1>6. CASE Report
  <2>1. UNCHANGED <<file, unread, js_accum, pc, eof, broken, queue>>
    BY <1>6 DEF Report, pipeVars
  <2>2. ReadInv'
    BY <1>1, <2>1, OtherReadInv
  <2> QED
    BY <1>6, <2>2, ReportValueInv
<1>7. CASE UNCHANGED vars
  <2>1. UNCHANGED <<file, unread, js_accum, queue, pc, accum, output, eof, broken, engine, executing>>
    BY <1>7 DEF vars, pipeVars, execVars
  <2>2. ReadInv'
    BY <1>1, <2>1, OtherReadInv
  <2>3. ValueInv' /\ OutputFollowsFile'
    BY <1>1, <2>1, QuietValueInv
  <2> QED
    BY <2>2, <2>3
<1> QED
  BY <1>2, <1>3, <1>4, <1>5, <1>6, <1>7 DEF Next

(* Whatever the file, however its objects are spread over lines and        *)
(* whatever breaks it, each datum of an executed instruction is that of    *)
(* the object with its number in the file: the fold of all the objects     *)
(* before it, before and after it.                                         *)
THEOREM OutputIsFiles == Spec => []OutputFollowsFile
<1>1. FollowInv => OutputFollowsFile
  BY DEF FollowInv
<1> QED
  BY <1>1, InitFollowInv, NextFollowInv, PTL DEF Spec

-----------------------------------------------------------------------------
(* Which files break.  Without a null nothing ends the stream before the   *)
(* file does, so what has accumulated then decides.                        *)

ClosesLast(l) == \A i \in DOMAIN file[l] : file[l][i][1] = "close" => i = Len(file[l])

(* So far the file is well formed: objects, and at most an open one.       *)
SoFarGood ==
  /\ js_accum = <<>> \/ (Len(js_accum) = 1 /\ js_accum[1][1] = "open")
  /\ \A n \in 1 .. pc : IsObject(Pair(n))
  /\ \A l \in 1 .. Consumed : ClosesLast(l)

(* It is not, and whatever comes, what has accumulated will not parse.     *)
SoFarBad ==
  /\ ~WellFormed
  /\ Len(js_accum) >= 2 \/ (Len(js_accum) = 1 /\ js_accum[1][1] # "open")

BreakInv ==
  ~HasNull =>
    /\ ~flushed => ~eof /\ ~broken
    /\ flushed => unread = <<>> /\ (broken <=> js_accum # <<>>)
    /\ Len(Text(Consumed)) = 2 * pc + Len(js_accum)
    /\ SoFarGood \/ SoFarBad

MalformedInv == TypeInv /\ ReadInv /\ BreakInv

(* In a well-formed file an object follows every whole number of objects.  *)
LEMMA WellFormedPair ==
  ASSUME WellFormed, Pieces \in Seq(Piece), NEW n \in Nat, 2 * n + 1 <= Len(Pieces)
  PROVE  /\ 2 * n + 2 <= Len(Pieces)
         /\ IsObject(Pair(n + 1))
         /\ Pieces[2 * n + 1][1] = "open" /\ Pieces[2 * n + 2][1] = "close"
<1>1. Len(Pieces) \in Nat /\ Len(Pieces) % 2 = 0 /\ Objects = Len(Pieces) \div 2
  <2>1. Len(Pieces) \in Nat
    OBVIOUS
  <2>2. Len(Pieces) % 2 = 0
    BY ONLY WellFormed, Zenon DEF WellFormed
  <2> QED
    BY <2>1, <2>2 DEF Objects
<1>2. 2 * n + 2 <= Len(Pieces) /\ n + 1 \in 1 .. Objects
  <2> DEFINE len == Len(Pieces)
             half == Objects
  <2>1. len \in Nat /\ len % 2 = 0 /\ half = len \div 2 /\ n \in Nat /\ 2 * n + 1 <= len
    BY <1>1
  <2> HIDE DEF len, half
  <2>2. 2 * n + 2 <= len /\ n + 1 \in 1 .. half
    BY ONLY <2>1
  <2> QED
    BY <2>2 DEF len, half
<1>3. IsObject(Pair(n + 1))
  BY <1>2 DEF WellFormed, Pair
<1> QED
  BY <1>2, <1>3, PairIs DEF IsObject

(* It has no null.                                                         *)
LEMMA WellFormedHasNoNull ==
  ASSUME WellFormed, Pieces \in Seq(Piece)
  PROVE  ~HasNull
<1> SUFFICES ASSUME NEW i \in DOMAIN Pieces, Pieces[i] = Null PROVE FALSE
  BY DEF HasNull
<1>1. Len(Pieces) \in Nat /\ i \in Nat /\ 1 <= i /\ i <= Len(Pieces)
  OBVIOUS
<1>2. Null[1] = "null"
  BY DEF Null
<1>3. PICK n \in Nat : i = 2 * n + 1 \/ i = 2 * n + 2
  <2> DEFINE n == (i - 1) \div 2
  <2>1. n \in Nat /\ (i = 2 * n + 1 \/ i = 2 * n + 2)
    BY <1>1
  <2> QED
    BY <2>1
<1>4. 2 * n + 1 <= Len(Pieces)
  BY <1>1, <1>3
<1>5. Pieces[2 * n + 1][1] = "open" /\ Pieces[2 * n + 2][1] = "close"
  BY <1>4, WellFormedPair
<1> QED
  BY <1>2, <1>3, <1>5

LEMMA SameBreak ==
  ASSUME UNCHANGED <<file, unread, js_accum, pc>>
  PROVE  /\ HasNull' = HasNull /\ WellFormed' = WellFormed
         /\ Len(Text(Consumed))' = Len(Text(Consumed))
         /\ SoFarGood' = SoFarGood /\ SoFarBad' = SoFarBad
<1>1. Pieces' = Pieces /\ Consumed' = Consumed /\ Objects' = Objects
  BY DEF Pieces, Consumed, Objects
<1>2. HasNull' = HasNull
  BY <1>1 DEF HasNull
<1>3. WellFormed' = WellFormed
  BY <1>1 DEF WellFormed
<1>4. Len(Text(Consumed))' = Len(Text(Consumed))
  BY <1>1 DEF Text
<1>5. SoFarGood' = SoFarGood
  BY <1>1 DEF SoFarGood, Pair, ClosesLast
<1>6. SoFarBad' = SoFarBad
  BY <1>3 DEF SoFarBad
<1> QED
  BY <1>2, <1>3, <1>4, <1>5, <1>6

(* What a line without a null makes of the text before it.                 *)
LEMMA JudgeLine ==
  ASSUME MalformedInv, ~HasNull, ~flushed, unread # <<>>,
         NEW line, line = Head(unread), NEW newl, newl = js_accum \o line, line # <<>>
  PROVE  /\ newl # <<Null>>
         /\ IsObject(newl) =>
              /\ SoFarGood
              /\ IsObject(Pair(pc + 1)) /\ ClosesLast(Consumed + 1)
         /\ ~IsObject(newl) =>
              \/ /\ Len(newl) = 1 /\ newl[1][1] = "open"
                 /\ SoFarGood /\ ClosesLast(Consumed + 1)
              \/ /\ ~WellFormed
                 /\ Len(newl) >= 2 \/ (Len(newl) = 1 /\ newl[1][1] # "open")
<1>1. /\ TypeInv /\ ReadInv /\ ~eof /\ ~broken
      /\ SoFarGood \/ SoFarBad
      /\ js_accum \in Seq(Piece) /\ pc \in Nat
  BY BoundAssumption DEF MalformedInv, BreakInv, TypeInv, TypeOK
<1>2. /\ line = file[Consumed + 1] /\ line \in Seq(Piece)
      /\ Consumed \in Nat /\ Consumed + 1 \in 0 .. Len(file)
      /\ newl \in Seq(Piece) /\ Len(newl) = Len(js_accum) + Len(line)
      /\ Pieces \in Seq(Piece) /\ 2 * pc + Len(newl) <= Len(Pieces)
      /\ \A i \in 1 .. Len(newl) : Pieces[2 * pc + i] = newl[i]
  BY <1>1, ReadNext
<1>3. /\ Len(js_accum) \in Nat /\ Len(line) \in Nat /\ Len(line) >= 1 /\ Len(newl) \in Nat
      /\ Len(newl) >= 1 /\ DOMAIN line = 1 .. Len(line) /\ DOMAIN Pieces = 1 .. Len(Pieces)
      /\ Len(Pieces) \in Nat
  <2>1. Len(line) \in Nat /\ Len(line) >= 1 /\ DOMAIN line = 1 .. Len(line)
    BY <1>2
  <2>2. Len(Pieces) \in Nat /\ DOMAIN Pieces = 1 .. Len(Pieces)
    BY <1>2
  <2>3. Len(js_accum) \in Nat
    BY <1>1
  <2>4. Len(newl) = Len(js_accum) + Len(line)
    BY <1>2
  <2> QED
    BY ONLY <2>1, <2>2, <2>3, <2>4
<1>4. /\ newl[1] = Pieces[2 * pc + 1] /\ 2 * pc + 1 <= Len(Pieces) /\ 2 * pc + 1 \in DOMAIN Pieces
      /\ Len(newl) >= 2 => newl[2] = Pieces[2 * pc + 2] /\ 2 * pc + 2 <= Len(Pieces)
  <2> DEFINE base == 2 * pc
  <2>1. /\ base \in Nat /\ base + Len(newl) <= Len(Pieces)
        /\ \A i \in 1 .. Len(newl) : Pieces[base + i] = newl[i]
    <3>1. base \in Nat
      BY ONLY <1>1
    <3> QED
      BY <1>2, <3>1
  <2> HIDE DEF base
  <2>2. /\ newl[1] = Pieces[base + 1] /\ base + 1 <= Len(Pieces) /\ base + 1 \in DOMAIN Pieces
        /\ Len(newl) >= 2 => newl[2] = Pieces[base + 2] /\ base + 2 <= Len(Pieces)
    BY <1>3, <2>1
  <2> QED
    BY <2>2 DEF base
<1>5. \A i \in 1 .. Len(line) : newl[Len(js_accum) + i] = line[i]
  BY <1>1, <1>2, <1>3
<1>6. newl # <<Null>>
  <2>1. newl[1] # Null
    BY <1>4 DEF HasNull
  <2>2. <<Null>>[1] = Null
    OBVIOUS
  <2> QED
    BY <2>1, <2>2
<1>7. ASSUME IsObject(newl)
      PROVE  SoFarGood /\ IsObject(Pair(pc + 1)) /\ ClosesLast(Consumed + 1)
  <2>1. Len(newl) = 2 /\ newl[1][1] = "open" /\ newl[2][1] = "close"
    BY <1>7 DEF IsObject
  <2>2. SoFarGood
    <3> SUFFICES ASSUME SoFarBad PROVE FALSE
      BY <1>1
    <3>1. Len(js_accum) = 1 /\ js_accum[1][1] # "open"
      BY <1>2, <1>3, <2>1 DEF SoFarBad
    <3>2. newl[1] = js_accum[1]
      BY <1>1, <1>2, <3>1
    <3> QED
      BY <2>1, <3>1, <3>2
  <2>3. IsObject(Pair(pc + 1))
    <3>1. 2 * pc + 2 <= Len(Pieces) /\ Pieces[2 * pc + 1] = newl[1] /\ Pieces[2 * pc + 2] = newl[2]
      BY <1>4, <2>1
    <3>2. Len(Pair(pc + 1)) = 2 /\ Pair(pc + 1)[1] = newl[1] /\ Pair(pc + 1)[2] = newl[2]
      BY <1>1, <1>2, <3>1, PairIs
    <3> QED
      BY <2>1, <3>2 DEF IsObject
  <2>4. ClosesLast(Consumed + 1)
    <3> SUFFICES ASSUME NEW i \in 1 .. Len(line), line[i][1] = "close" PROVE i = Len(line)
      BY <1>2, <1>3 DEF ClosesLast
    <3>1. newl[Len(js_accum) + i][1] = "close"
      BY <1>5
    <3>2. Len(js_accum) + i # 1
      BY <2>1, <3>1
    <3>3. Len(js_accum) + Len(line) = 2
      BY <1>2, <2>1
    <3> QED
      BY <1>3, <3>2, <3>3
  <2> QED
    BY <2>2, <2>3, <2>4
<1>8. ASSUME ~IsObject(newl)
      PROVE  \/ /\ Len(newl) = 1 /\ newl[1][1] = "open"
                /\ SoFarGood /\ ClosesLast(Consumed + 1)
             \/ /\ ~WellFormed
                /\ Len(newl) >= 2 \/ (Len(newl) = 1 /\ newl[1][1] # "open")
  <2>1. CASE Len(newl) = 1 /\ newl[1][1] = "open"
    <3>1. Len(js_accum) = 0 /\ Len(line) = 1
      <4>1. Len(js_accum) + Len(line) = 1
        BY <1>2, <2>1
      <4> QED
        BY ONLY <1>3, <4>1
    <3>2. SoFarGood
      BY <1>1, <3>1 DEF SoFarBad
    <3>3. ClosesLast(Consumed + 1)
      BY <1>2, <1>3, <3>1 DEF ClosesLast
    <3> QED
      BY <2>1, <3>2, <3>3
  <2>2. CASE Len(newl) = 1 /\ newl[1][1] # "open"
    <3>1. ~WellFormed
      BY <1>1, <1>2, <1>4, <2>2, WellFormedPair
    <3> QED
      BY <2>2, <3>1
  <2>3. CASE Len(newl) >= 2
    <3> SUFFICES ASSUME WellFormed PROVE FALSE
      BY <2>3
    <3>1. newl[1][1] = "open" /\ newl[2][1] = "close"
      BY <1>1, <1>2, <1>4, <2>3, WellFormedPair
    <3>2. Len(newl) # 2
      BY <1>8, <3>1 DEF IsObject
    <3>3. SoFarGood
      BY <1>1 DEF SoFarBad
    <3>4. Len(js_accum) \in {0, 1}
      BY <3>3 DEF SoFarGood
    <3> DEFINE i == 2 - Len(js_accum)
    <3>5. i \in 1 .. Len(line) /\ Len(js_accum) + i = 2 /\ i # Len(line)
      BY <1>2, <1>3, <2>3, <3>2, <3>4
    <3> HIDE DEF i
    <3>6. line[i][1] = "close"
      BY <1>5, <3>1, <3>5
    <3>7. Consumed + 1 \in DOMAIN file
      BY <1>1, <1>2 DEF ReadInv
    <3> QED
      BY <1>2, <1>3, <3>5, <3>6, <3>7 DEF WellFormed
  <2> QED
    BY <1>3, <2>1, <2>2, <2>3
<1> QED
  BY <1>6, <1>7, <1>8

(* A line keeps the judgement: it may spoil the file, and nothing mends it.*)
LEMMA TransformBreakInv ==
  ASSUME MalformedInv, Transform
  PROVE  BreakInv'
<1> DEFINE line == Head(unread)
           newl == js_accum \o line
<1>1. /\ ~broken /\ unread # <<>> /\ unread' = Tail(unread) /\ UNCHANGED <<file, flushed>>
      /\ TypeInv /\ ReadInv /\ BreakInv
      /\ pc \in Nat /\ js_accum \in Seq(Piece) /\ Consumed \in Nat
  BY BoundAssumption DEF Transform, MalformedInv, TypeInv, TypeOK, ReadInv
<1>2. Consumed' = Consumed + 1
  BY <1>1 DEF Consumed, TypeInv, Room
<1>3. HasNull' = HasNull /\ WellFormed' = WellFormed /\ Pieces' = Pieces
  BY <1>1 DEF HasNull, WellFormed, Objects, Pieces
<1> SUFFICES ASSUME ~HasNull
             PROVE  /\ ~flushed' => ~eof' /\ ~broken'
                    /\ flushed' => unread' = <<>> /\ (broken' <=> js_accum' # <<>>)
                    /\ Len(Text(Consumed + 1)) = 2 * pc' + Len(js_accum')
                    /\ SoFarGood' \/ SoFarBad'
  <2>1. Len(Text(Consumed))' = Len(Text(Consumed + 1))
    BY <1>1, <1>2 DEF Text
  <2> QED
    BY <1>3, <2>1 DEF BreakInv
<1> HIDE DEF line, newl
<1>4. line = Head(unread) /\ newl = js_accum \o line
  BY DEF line, newl
<1>5. ~flushed /\ ~eof /\ ~broken /\ (SoFarGood \/ SoFarBad)
  BY <1>1 DEF BreakInv
<1>6. /\ line \in Seq(Piece) /\ newl \in Seq(Piece) /\ line = file[Consumed + 1]
      /\ Len(newl) = Len(js_accum) + Len(line)
      /\ Len(Text(Consumed + 1)) = 2 * pc + Len(newl)
  BY <1>1, <1>4, <1>5, ReadNext
<1>7. \A n : Pair(n)' = Pair(n) /\ ClosesLast(n)' = ClosesLast(n)
  BY <1>1, <1>3 DEF Pair, ClosesLast
<1>8. CASE line = <<>>
  <2>1. UNCHANGED <<js_accum, eof, broken, pc>> /\ newl = js_accum
    <3>1. newl = js_accum
      BY <1>1, <1>4, <1>8
    <3>2. UNCHANGED <<js_accum, eof, broken, pc>>
      BY <1>4, <1>5, <1>8, TransformCases
    <3> QED
      BY <3>1, <3>2
  <2>2. ClosesLast(Consumed + 1)
    BY <1>6, <1>8 DEF ClosesLast
  <2>3. SoFarGood' \/ SoFarBad'
    <3>1. CASE SoFarGood
      <4>1. \A l \in 1 .. (Consumed + 1) : ClosesLast(l)
        BY <1>1, <2>2, <3>1 DEF SoFarGood
      <4> QED
        BY <1>2, <1>7, <2>1, <3>1, <4>1 DEF SoFarGood
    <3>2. CASE SoFarBad
      BY <1>3, <2>1, <3>2 DEF SoFarBad
    <3> QED
      BY <1>5, <3>1, <3>2
  <2> QED
    BY <1>1, <1>5, <1>6, <2>1, <2>3
<1>9. CASE line # <<>>
  <2>1. /\ newl # <<Null>>
        /\ IsObject(newl) => SoFarGood /\ IsObject(Pair(pc + 1)) /\ ClosesLast(Consumed + 1)
        /\ ~IsObject(newl) =>
             \/ /\ Len(newl) = 1 /\ newl[1][1] = "open"
                /\ SoFarGood /\ ClosesLast(Consumed + 1)
             \/ /\ ~WellFormed
                /\ Len(newl) >= 2 \/ (Len(newl) = 1 /\ newl[1][1] # "open")
    BY <1>4, <1>5, <1>9, <1>1, JudgeLine
  <2>2. CASE IsObject(newl)
    <3>1. js_accum' = <<>> /\ pc' = pc + 1 /\ UNCHANGED <<eof, broken>>
      BY <1>4, <1>5, <1>9, <2>1, <2>2, TransformCases DEF Parses
    <3>2. /\ \A n \in 1 .. (pc + 1) : IsObject(Pair(n))
          /\ \A l \in 1 .. (Consumed + 1) : ClosesLast(l)
      BY <1>1, <2>1, <2>2 DEF SoFarGood
    <3>3. SoFarGood'
      BY <1>2, <1>7, <3>1, <3>2 DEF SoFarGood
    <3>4. Len(Text(Consumed + 1)) = 2 * pc' + Len(js_accum')
      <4>1. Len(newl) = 2 /\ Len(js_accum') = 0
        BY <2>2, <3>1 DEF IsObject
      <4>2. 2 * pc' + 0 = 2 * pc + 2
        BY <1>1, <3>1
      <4> QED
        BY <1>6, <4>1, <4>2
    <3> QED
      BY <1>1, <1>5, <3>1, <3>3, <3>4
  <2>3. CASE ~IsObject(newl)
    <3>1. js_accum' = newl /\ UNCHANGED <<eof, broken, pc>>
      BY <1>4, <1>5, <1>9, <2>1, <2>3, TransformCases
    <3>2. CASE /\ Len(newl) = 1 /\ newl[1][1] = "open"
               /\ SoFarGood /\ ClosesLast(Consumed + 1)
      <4>1. \A l \in 1 .. (Consumed + 1) : ClosesLast(l)
        BY <1>1, <3>2 DEF SoFarGood
      <4>2. SoFarGood'
        BY <1>2, <1>7, <3>1, <3>2, <4>1 DEF SoFarGood
      <4> QED
        BY <1>1, <1>5, <1>6, <3>1, <4>2
    <3>3. CASE /\ ~WellFormed
               /\ Len(newl) >= 2 \/ (Len(newl) = 1 /\ newl[1][1] # "open")
      <4>1. SoFarBad'
        BY <1>3, <3>1, <3>3 DEF SoFarBad
      <4> QED
        BY <1>1, <1>5, <1>6, <3>1, <4>1
    <3> QED
      BY <2>1, <2>3, <3>2, <3>3
  <2> QED
    BY <2>2, <2>3
<1> QED
  BY <1>8, <1>9

(* The end of the file breaks the pipeline if something has accumulated.   *)
LEMMA FlushBreakInv ==
  ASSUME MalformedInv, Flush
  PROVE  BreakInv'
<1>1. /\ UNCHANGED <<file, unread, js_accum, pc>> /\ flushed' /\ ~flushed /\ unread = <<>>
      /\ \/ js_accum = <<>> /\ UNCHANGED broken
         \/ js_accum # <<>> /\ broken' = TRUE
  BY DEF Flush, FlushRest, Break
<1>2. BreakInv
  BY DEF MalformedInv
<1>3. HasNull' = HasNull /\ Len(Text(Consumed))' = Len(Text(Consumed))
      /\ SoFarGood' = SoFarGood /\ SoFarBad' = SoFarBad
  BY <1>1, SameBreak
<1> QED
  BY <1>1, <1>2, <1>3 DEF BreakInv

LEMMA InitMalformedInv == Init => MalformedInv
<1> SUFFICES ASSUME Init PROVE BreakInv
  BY InitTypeInv, InitFollowInv DEF MalformedInv, FollowInv
<1>1. /\ file \in Seq(Lines) /\ unread = file /\ js_accum = <<>> /\ pc = 0
      /\ ~flushed /\ ~eof /\ ~broken
  BY BoundAssumption DEF Init, SeqOf
<1>2. Consumed = 0 /\ Len(Text(Consumed)) = 0 /\ Len(js_accum) = 0
  BY <1>1, TextSteps DEF Consumed
<1>3. 2 * pc + Len(js_accum) = 0
  BY <1>1, <1>2
<1>4. SoFarGood
  BY <1>1, <1>2 DEF SoFarGood
<1> QED
  BY <1>1, <1>2, <1>3, <1>4 DEF BreakInv

LEMMA NextBreakInv == MalformedInv /\ [Next]_vars => BreakInv'
<1> SUFFICES ASSUME MalformedInv, [Next]_vars PROVE BreakInv'
  OBVIOUS
<1>1. CASE Transform
  BY <1>1, TransformBreakInv
<1>2. CASE Flush
  BY <1>2, FlushBreakInv
<1>3. CASE UNCHANGED <<file, unread, js_accum, pc, flushed, eof, broken>>
  <2>1. BreakInv
    BY DEF MalformedInv
  <2>2. HasNull' = HasNull /\ Len(Text(Consumed))' = Len(Text(Consumed))
        /\ SoFarGood' = SoFarGood /\ SoFarBad' = SoFarBad
    BY <1>3, SameBreak
  <2> QED
    BY <1>3, <2>1, <2>2 DEF BreakInv
<1> QED
  BY <1>1, <1>2, <1>3 DEF Next, End, Exec, Report, vars, pipeVars

(* At the end of the file the judgement is about all of it.                *)
LEMMA JudgedAtEnd ==
  ASSUME MalformedInv
  PROVE  MalformedReported
<1>1. file \in Seq(Lines) /\ Len(file) \in Nat /\ Pieces \in Seq(Piece) /\ pc \in Nat
      /\ js_accum \in Seq(Piece) /\ Text(Len(file)) = Pieces
  BY TextSteps, BoundAssumption DEF MalformedInv, ReadInv, TypeInv, TypeOK
<1>2. ASSUME flushed, ~HasNull PROVE broken <=> ~WellFormed
  <2>1. /\ unread = <<>> /\ (broken <=> js_accum # <<>>)
        /\ Len(Text(Consumed)) = 2 * pc + Len(js_accum)
        /\ SoFarGood \/ SoFarBad
    BY <1>2 DEF MalformedInv, BreakInv
  <2>2. Consumed = Len(file) /\ Len(Pieces) = 2 * pc + Len(js_accum)
    <3>1. Consumed = Len(file)
      BY <1>1, <2>1 DEF Consumed
    <3> QED
      BY <1>1, <2>1, <3>1
  <2>3. CASE js_accum = <<>>
    <3>1. SoFarGood
      BY <2>1, <2>3 DEF SoFarBad
    <3>2. Len(Pieces) = 2 * pc
      <4>1. Len(js_accum) = 0
        BY <2>3
      <4> QED
        BY ONLY <1>1, <2>2, <4>1
    <3>3. Len(Pieces) % 2 = 0 /\ Len(Pieces) \div 2 = pc
      BY ONLY <1>1, <3>2
    <3>4. WellFormed
      <4>1. \A i \in 1 .. Objects : IsObject(SubSeq(Pieces, 2 * i - 1, 2 * i))
        BY <3>1, <3>3 DEF SoFarGood, Objects, Pair
      <4>2. \A l \in DOMAIN file : ClosesLast(l)
        BY <1>1, <2>2, <3>1 DEF SoFarGood
      <4> QED
        BY <3>3, <4>1, <4>2 DEF WellFormed, ClosesLast
    <3> QED
      BY <2>1, <2>3, <3>4
  <2>4. CASE js_accum # <<>>
    <3>1. ~WellFormed
      <4>1. CASE SoFarGood
        <5>1. Len(js_accum) = 1
          BY <2>4, <4>1 DEF SoFarGood
        <5>2. Len(Pieces) = 2 * pc + 1
          BY <2>2, <5>1
        <5>3. Len(Pieces) % 2 # 0
          BY ONLY <1>1, <5>2
        <5> QED
          BY <5>3 DEF WellFormed
      <4>2. CASE SoFarBad
        BY <4>2 DEF SoFarBad
      <4> QED
        BY <2>1, <4>1, <4>2
    <3> QED
      BY <2>1, <2>4, <3>1
  <2> QED
    BY <2>3, <2>4
<1>3. ASSUME WellFormed PROVE ~broken
  <2>1. ~HasNull
    BY <1>1, <1>3, WellFormedHasNoNull
  <2>2. CASE flushed
    BY <1>2, <1>3, <2>1, <2>2
  <2>3. CASE ~flushed
    BY <2>1, <2>3 DEF MalformedInv, BreakInv
  <2> QED
    BY <2>2, <2>3
<1>4. KilledOnlyIfBroken
  BY DEF MalformedInv, TypeInv
<1> QED
  BY <1>2, <1>3, <1>4 DEF MalformedReported

(* A file without a null, of any lines, that has been read to its end is   *)
(* reported as broken if and only if it is not well formed.  Whatever the  *)
(* file, a well-formed one never breaks, and only a broken one can kill    *)
(* the process.  Nothing is said of what a null leaves unreported.         *)
THEOREM MalformedIsReported == Spec => []MalformedReported
<1> DEFINE Inv == FollowInv /\ BreakInv
<1>1. Init => Inv
  BY InitFollowInv, InitMalformedInv DEF MalformedInv
<1>2. Inv /\ [Next]_vars => Inv'
  BY NextFollowInv, NextBreakInv DEF MalformedInv, FollowInv, ChainInv
<1>3. Inv => MalformedReported
  BY JudgedAtEnd DEF MalformedInv, FollowInv, ChainInv
<1> QED
  BY <1>1, <1>2, <1>3, PTL DEF Spec

-----------------------------------------------------------------------------
(* Why FileExecuted holds, as far as it is a matter of safety: every step  *)
(* brings the run nearer to its end, and a run that cannot go on has       *)
(* executed the whole file.                                                *)

One(condition) == IF condition THEN 1 ELSE 0

(* What is left to do: lines to read, instructions to execute and report,  *)
(* and the two ends.                                                       *)
Left ==
  4 * Len(unread) + 2 * Len(queue) + One(result # NoResult) + One(~flushed) + One(~done)

LeftDecreases == [][Left' < Left /\ Left' \in Nat]_vars

(* The file was read, and all that came of it was executed and reported.   *)
AtRest == flushed /\ unread = <<>> /\ queue = <<>> /\ result = NoResult

ExecutedAtRest ==
  WellFormed /\ Executable /\ AtRest => Len(output) = Objects /\ accum = Value(Objects)

(* While the file lasts nothing but its end takes the engine away.         *)
EngineInv ==
  WellFormed /\ Executable =>
    /\ done => flushed /\ queue = <<>>
    /\ ~engine => /\ done /\ ~executing
                  /\ Len(output) = pc /\ accum = Value(Len(output))
    /\ executing => result.ok

LEMMA LeftSteps ==
  ASSUME TypeInv, Next
  PROVE  Left' < Left /\ Left' \in Nat
<1>1. /\ Len(unread) \in Nat /\ Len(queue) \in Nat
      /\ unread \in Seq(Lines) /\ queue \in Seq(Instruction)
  BY DEF TypeInv, TypeOK, Room
<1>2. \A b : One(b) \in {0, 1}
  BY DEF One
<1>3. One(TRUE) = 1 /\ One(FALSE) = 0
  BY DEF One
<1>4. CASE Transform
  <2>1. Len(unread') = Len(unread) - 1 /\ Len(unread) # 0
    BY <1>1, <1>4 DEF Transform
  <2>2. Len(queue') = Len(queue) \/ Len(queue') = Len(queue) + 1
    BY <1>1, <1>4 DEF Transform, Push, Numbered
  <2>3. /\ One(result' # NoResult) = One(result # NoResult)
        /\ One(~flushed') = One(~flushed) /\ One(~done') = One(~done)
    BY <1>4 DEF Transform
  <2> QED
    BY <1>1, <1>2, <2>1, <2>2, <2>3 DEF Left
<1>5. CASE Flush
  <2>1. /\ Len(unread') = Len(unread) /\ Len(queue') = Len(queue)
        /\ One(result' # NoResult) = One(result # NoResult) /\ One(~done') = One(~done)
    BY <1>5 DEF Flush
  <2>2. One(~flushed') = 0 /\ One(~flushed) = 1
    BY <1>5 DEF Flush, One
  <2> QED
    BY <1>1, <1>2, <2>1, <2>2 DEF Left
<1>6. CASE End
  <2>1. /\ Len(unread') = Len(unread) /\ Len(queue') = Len(queue)
        /\ One(result' # NoResult) = One(result # NoResult) /\ One(~flushed') = One(~flushed)
    BY <1>6 DEF End, pipeVars, execVars
  <2>2. One(~done') = 0 /\ One(~done) = 1
    BY <1>6 DEF End, One
  <2> QED
    BY <1>1, <1>2, <2>1, <2>2 DEF Left
<1>7. CASE Exec
  <2>1. Len(queue') = Len(queue) - 1 /\ Len(queue) # 0
    BY <1>1, <1>7 DEF Exec
  <2>2. /\ Len(unread') = Len(unread)
        /\ One(~flushed') = One(~flushed) /\ One(~done') = One(~done)
    BY <1>7 DEF Exec
  <2> QED
    BY <1>1, <1>2, <2>1, <2>2 DEF Left
<1>8. CASE Report
  <2>1. /\ Len(unread') = Len(unread) /\ Len(queue') = Len(queue)
        /\ One(~flushed') = One(~flushed) /\ One(~done') = One(~done)
    BY <1>8 DEF Report, pipeVars
  <2>2. One(result' # NoResult) = 0 /\ One(result # NoResult) = 1
    BY <1>8 DEF Report, One
  <2> QED
    BY <1>1, <1>2, <2>1, <2>2 DEF Left
<1> QED
  BY <1>4, <1>5, <1>6, <1>7, <1>8 DEF Next

(* Executing may add one to what is left to report, but takes two for the  *)
(* instruction: a run over any file, broken or not, comes to an end after  *)
(* at most 4 * Len(file) + 2 steps.                                        *)
THEOREM PipelineEnds == Spec => LeftDecreases
<1>1. TypeInv /\ [Next]_vars => [Left' < Left /\ Left' \in Nat]_vars
  BY LeftSteps
<1> QED
  BY <1>1, InitTypeInv, NextTypeInv, PTL DEF Spec, LeftDecreases

(* The objects of a well-formed file outnumber the instructions so far.    *)
LEMMA ObjectsAhead ==
  ASSUME MalformedInv, WellFormed
  PROVE  /\ pc \in Nat /\ Objects \in Nat /\ pc <= Objects
         /\ ~HasNull /\ ~broken
         /\ ~flushed => ~eof
         /\ flushed => unread = <<>>
         /\ flushed => Objects = pc
<1>1. /\ file \in Seq(Lines) /\ Len(file) \in Nat /\ Pieces \in Seq(Piece) /\ pc \in Nat
      /\ js_accum \in Seq(Piece) /\ Text(Len(file)) = Pieces
      /\ Consumed \in 0 .. Len(file)
  BY TextSteps, BoundAssumption DEF MalformedInv, ReadInv, TypeInv, TypeOK
<1>2. ~HasNull
  BY <1>1, WellFormedHasNoNull
<1>3. /\ ~flushed => ~eof /\ ~broken
      /\ flushed => unread = <<>> /\ (broken <=> js_accum # <<>>)
      /\ Len(Text(Consumed)) = 2 * pc + Len(js_accum)
  BY <1>2 DEF MalformedInv, BreakInv
<1>4. ~broken
  BY JudgedAtEnd DEF MalformedReported
<1>5. Len(Text(Consumed)) <= Len(Pieces)
  BY <1>1, TextPrefix
<1>6. Len(Pieces) \in Nat /\ Len(js_accum) \in Nat /\ Objects = Len(Pieces) \div 2
  BY <1>1 DEF Objects
<1>7. Objects \in Nat /\ pc <= Objects
  <2>1. 2 * pc <= Len(Pieces)
    BY <1>1, <1>3, <1>5, <1>6
  <2> QED
    BY ONLY <1>1, <1>6, <2>1
<1>8. ASSUME flushed PROVE Objects = pc
  <2>1. Consumed = Len(file) /\ js_accum = <<>>
    BY <1>1, <1>3, <1>4, <1>8 DEF Consumed
  <2>2. Len(Pieces) = 2 * pc
    <3>1. Len(js_accum) = 0
      BY <2>1
    <3>2. Len(Pieces) = 2 * pc + Len(js_accum)
      BY <1>1, <1>3, <2>1
    <3> QED
      BY ONLY <1>1, <3>1, <3>2
  <2> QED
    BY ONLY <1>1, <1>6, <2>2
<1> QED
  BY <1>1, <1>2, <1>3, <1>4, <1>7, <1>8

RestInv == FollowInv /\ BreakInv /\ EngineInv

LEMMA RestIsMalformed == FollowInv /\ BreakInv => MalformedInv
  BY DEF MalformedInv, FollowInv, ChainInv

LEMMA InitEngineInv == Init => EngineInv
  BY DEF Init, EngineInv

(* An instruction of such a file is executed, and reported as executed.    *)
LEMMA NextEngineInv == RestInv /\ MalformedReported' /\ [Next]_vars => EngineInv'
<1> SUFFICES ASSUME RestInv, MalformedReported', [Next]_vars, WellFormed', Executable'
             PROVE  /\ done' => flushed' /\ queue' = <<>>
                    /\ ~engine' => /\ done' /\ ~executing'
                                   /\ Len(output') = pc' /\ accum' = Value(Len(output))'
                    /\ executing' => result'.ok
  BY DEF EngineInv
<1>1. MalformedInv /\ FollowInv /\ ChainInv
  BY RestIsMalformed DEF RestInv, FollowInv
<1>2. UNCHANGED file
  BY DEF Next, Transform, Flush, End, Exec, Report, vars
<1>3. WellFormed /\ Executable
  BY <1>2 DEF WellFormed, Executable, Objects, Pieces, Nth
<1>4. /\ done => flushed /\ queue = <<>>
      /\ ~engine => done /\ ~executing /\ Len(output) = pc /\ accum = Value(Len(output))
      /\ executing => result.ok
  BY <1>3 DEF RestInv, EngineInv
<1>5. /\ pc \in Nat /\ Objects \in Nat /\ pc <= Objects /\ ~broken
      /\ ~flushed => ~eof
      /\ flushed => unread = <<>>
  BY <1>1, <1>3, ObjectsAhead
<1>6. ~broken'
  BY DEF MalformedReported
<1>7. CASE Transform
  <2>1. ~flushed /\ ~done /\ ~eof /\ engine
    BY <1>4, <1>5, <1>7 DEF Transform
  <2>2. UNCHANGED <<engine, executing, result, done>>
    BY <1>6, <1>7, <2>1 DEF Transform, Push, Break
  <2> QED
    BY <1>4, <2>1, <2>2
<1>8. CASE Flush
  <2>1. ~done /\ engine /\ UNCHANGED <<result, done>>
    BY <1>4, <1>8 DEF Flush
  <2>2. UNCHANGED <<engine, executing>>
    BY <1>6, <1>8 DEF Flush, FlushRest, Break
  <2> QED
    BY <1>4, <2>1, <2>2
<1>9. CASE End
  <2>1. /\ engine /\ eof /\ queue = <<>> /\ done'
        /\ UNCHANGED <<engine, executing, result, queue, flushed>>
    BY <1>9 DEF End, pipeVars, execVars
  <2>2. flushed
    BY <1>5, <2>1
  <2> QED
    BY <1>4, <2>1, <2>2
<1>10. CASE Exec
  <2>1. /\ engine /\ ~executing /\ queue # <<>> /\ UNCHANGED <<engine, done>>
        /\ result' = ResultOf(Head(queue))
    BY <1>10 DEF Exec
  <2>2. ~done
    BY <1>4, <2>1
  <2>3. queue \in Seq(Instruction) /\ output \in Seq(Datum)
    BY <1>1 DEF ChainInv, TypeInv, TypeOK
  <2>4. 1 \in DOMAIN queue /\ Head(queue) = queue[1] /\ Len(queue) \in Nat /\ Len(queue) # 0
        /\ Len(output) \in Nat
    BY <2>1, <2>3
  <2>5. queue[1].addr = Executed + 1 - 1 /\ pc = Executed + Len(queue) /\ Executed = Len(output)
    BY <1>1, <2>1, <2>4 DEF ChainInv, InStep, Executed
  <2>6. queue[1].addr + 1 \in 1 .. Objects
    BY <1>5, <2>4, <2>5
  <2>7. Head(queue).insn.op \notin {"pow", "none"}
    <3>1. queue[1].insn = Nth(queue[1].addr + 1)
      BY <1>1, <2>4 DEF FollowInv, ReadInv, QueueRead
    <3> QED
      BY <1>3, <2>4, <2>6, <3>1 DEF Executable
  <2>8. result'.ok
    BY <2>1, <2>7 DEF ResultOf
  <2> QED
    BY <2>1, <2>2, <2>8
<1>11. CASE Report
  <2>1. executing /\ engine
    BY <1>1, <1>5, <1>11 DEF Report, ChainInv, TypeInv, ResultDue
  <2>2. /\ output' = output \o result.data /\ ~executing' /\ engine' = (result.ok /\ ~done)
        /\ UNCHANGED <<done, queue, flushed, pc, accum, file>>
    BY <1>11, <2>1 DEF Report, pipeVars
  <2>3. result.ok /\ result.data = <<DatumOf(Len(output))>>
    BY <1>1, <1>4, <2>1 DEF ChainInv, InStep
  <2>4. output \in Seq(Datum) /\ Len(output) \in Nat
    BY <1>1 DEF ChainInv, TypeInv, TypeOK
  <2>5. Len(output') = Len(output) + 1
    <3> DEFINE last == DatumOf(Len(output))
    <3>1. output' = output \o <<last>>
      BY <2>2, <2>3
    <3> HIDE DEF last
    <3> QED
      BY <2>4, <3>1
  <2>6. ASSUME done PROVE Len(output') = pc /\ accum = Value(Len(output'))
    <3>1. pc = Executed + Len(queue) /\ Executed = Len(output) + 1 /\ Len(queue) = 0
      BY <1>1, <1>4, <2>1, <2>6 DEF ChainInv, InStep, Executed
    <3>2. accum = Value(Executed)
      BY <1>1, <2>1 DEF FollowInv, ValueInv
    <3> QED
      BY <1>5, <2>4, <2>5, <3>1, <3>2
  <2>7. Value(Len(output))' = Value(Len(output'))
    BY <2>2 DEF Value, Nth, Pieces
  <2> QED
    BY <1>4, <2>2, <2>3, <2>6, <2>7
<1>12. CASE UNCHANGED vars
  <2>1. UNCHANGED <<done, flushed, queue, engine, executing, output, pc, accum, result, file>>
    BY <1>12 DEF vars, pipeVars, execVars
  <2>2. Value(Len(output))' = Value(Len(output))
    BY <2>1 DEF Value, Nth, Pieces
  <2> QED
    BY <1>4, <2>1, <2>2
<1> QED
  BY <1>7, <1>8, <1>9, <1>10, <1>11, <1>12 DEF Next

(* A well-formed file of executable objects has been executed entirely     *)
(* when the run comes to rest, and the accumulator has the file's value.   *)
THEOREM FileExecutedAtRest == Spec => []ExecutedAtRest
<1>1. Init => RestInv
  BY InitFollowInv, InitMalformedInv, InitEngineInv DEF RestInv, MalformedInv
<1>2. RestInv /\ MalformedReported' /\ [Next]_vars => RestInv'
  BY NextFollowInv, NextBreakInv, NextEngineInv, RestIsMalformed DEF RestInv
<1>3. RestInv => ExecutedAtRest
  <2> SUFFICES ASSUME RestInv, WellFormed, Executable, AtRest
               PROVE  Len(output) = Objects /\ accum = Value(Objects)
    BY DEF ExecutedAtRest
  <2>1. FollowInv /\ ChainInv /\ TypeInv /\ MalformedInv
    BY RestIsMalformed DEF RestInv, FollowInv, ChainInv
  <2>2. Objects = pc /\ pc \in Nat
    BY <2>1, ObjectsAhead DEF AtRest
  <2>3. ~executing /\ Len(queue) = 0 /\ Len(output) \in Nat
    BY <2>1 DEF AtRest, TypeInv, TypeOK, ResultDue
  <2>4. CASE engine
    <3>1. pc = Executed + Len(queue) /\ Executed = Len(output) /\ accum = Value(Executed)
      BY <2>1, <2>3, <2>4 DEF ChainInv, InStep, FollowInv, ValueInv, Executed
    <3> QED
      BY <2>2, <2>3, <3>1
  <2>5. CASE ~engine
    BY <2>2, <2>5 DEF RestInv, EngineInv
  <2> QED
    BY <2>4, <2>5
<1> QED
  BY <1>1, <1>2, <1>3, MalformedIsReported, PTL DEF Spec
=============================================================================

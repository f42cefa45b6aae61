--------------------------- MODULE KeyFileProofs ---------------------------
(***************************************************************************)
(* Theorems about KeyFile, for any number of starts and of writes.         *)
(***************************************************************************)
EXTENDS KeyFile, TLAPS

-----------------------------------------------------------------------------
(* Types *)

\* How far a start is with its writes.
Progress(n) ==
    /\ stage[n] \in {"off", "Stat", "OpenFile"} => written[n] = 0
    /\ stage[n] = "Encode" => written[n] < Chunks

Typed == TypeOK /\ \A n \in Starts : Progress(n)

\* The encoded key of a writer is a row of chunks, and a key.
LEMMA EncodedTyped ==
    ASSUME NEW w
    PROVE  /\ w \in Writers \union {NoStart} => Encoded(w) \in Row
           /\ w \in Writers => Encoded(w) \in Keys
  BY DEF Encoded, Row, Keys

\* The types hold before the first start, with and without a file.
LEMMA TypedInit == Init => Typed
<1> SUFFICES ASSUME Init PROVE Typed
  OBVIOUS
<1>1. env.first \in Writers \union {NoStart}
  BY DEF Init, Surroundings, Writers
<1>2. file \in Row
  BY <1>1, EncodedTyped DEF Init
<1> QED
  BY <1>2, ChunkAssumption DEF Init, Typed, TypeOK, Progress

\* Every system call keeps the types and the count of writes.
LEMMA TypedStep == Typed /\ [Next]_vars => Typed'
<1> SUFFICES ASSUME Typed, [Next]_vars PROVE Typed'
  OBVIOUS
<1> USE DEF Typed, TypeOK, Progress, Goto, Calls
<1>1. CASE UNCHANGED vars
  BY <1>1 DEF vars
<1>2. ASSUME NEW n \in Starts, Come(n) PROVE Typed'
  BY <1>2 DEF Come
<1>3. ASSUME NEW n \in Starts, Stat(n) PROVE Typed'
  BY <1>3 DEF Stat, AfterStat
<1>4. ASSUME NEW n \in Starts, ReadFile(n) PROVE Typed'
  <2>1. Complete => file \in Keys
    BY DEF Complete, Row, Keys
  <2> QED
    BY <1>4, <2>1 DEF ReadFile
<1>5. ASSUME NEW n \in Starts, OpenFile(n) PROVE Typed'
  BY <1>5, EncodedTyped, ChunkAssumption DEF OpenFile
<1>6. ASSUME NEW n \in Starts, Encode(n) PROVE Typed'
  <2>1. written[n] \in 0..Chunks /\ written[n] < Chunks
    BY <1>6 DEF Encode
  <2>2. written'[n] = written[n] + 1
    BY <1>6 DEF Encode
  <2>3. written' \in [Starts -> 0..Chunks]
    BY <1>6, <2>1, ChunkAssumption DEF Encode
  <2>4. file' \in Row
    BY <1>6, <2>1 DEF Encode, Row, Writers
  <2>5. stage' = [stage EXCEPT ![n] = IF written'[n] = Chunks THEN "Close" ELSE "Encode"]
    BY <1>6 DEF Encode, EncodedAll
  <2>6. \A m \in Starts \ {n} : written'[m] = written[m]
    BY <1>6 DEF Encode
  <2> QED
    BY <1>6, <2>1, <2>2, <2>3, <2>4, <2>5, <2>6, ChunkAssumption DEF Encode
<1>7. ASSUME NEW n \in Starts, Close(n) PROVE Typed'
  BY <1>7, EncodedTyped DEF Close, Writers
<1>8. ASSUME NEW n \in Starts, CallError(n) \/ Kill(n) PROVE Typed'
  BY <1>8 DEF CallError, Kill
<1> QED
  BY <1>1, <1>2, <1>3, <1>4, <1>5, <1>6, <1>7, <1>8 DEF Next, Run, vars

\* Every variable keeps its type: no start writes more chunks than a key has.
THEOREM TypeCorrect == Spec => []TypeOK
<1>1. Typed => TypeOK
  BY DEF Typed
<1> QED
  BY <1>1, TypedInit, TypedStep, PTL DEF Spec

-----------------------------------------------------------------------------
(* One key *)

\* Starts that do not overlap are never active together.
Single == ~env.overlap => \A n, m \in Active : n = m

\* Starts that come one after another stay alone.
LEMMA SingleStep ==
    ASSUME Typed, Single, [Next]_vars
    PROVE  Single'
<1> SUFFICES ASSUME ~env'.overlap, NEW n \in Active', NEW m \in Active'
             PROVE  n = m
  BY DEF Single
<1>1. UNCHANGED env
  BY DEF Next, Come, Run, Stat, ReadFile, OpenFile, Encode, Close, CallError, Kill, vars
<1>2. \/ Active' \subseteq Active
      \/ Active = {} /\ \E k \in Starts : Active' = {k}
  <2>1. CASE \E k \in Starts : Come(k)
    BY <1>1, <2>1 DEF Come, Active, Goto, Typed, TypeOK, Calls
  <2>2. CASE \E k \in Starts : Run(k) \/ Kill(k)
    BY <2>2 DEF Run, Stat, AfterStat, ReadFile, OpenFile, Encode, Close, CallError, Kill, Active, Goto,
                Typed, TypeOK, Calls
  <2>3. CASE UNCHANGED vars
    BY <2>3 DEF vars, Active
  <2> QED
    BY <2>1, <2>2, <2>3 DEF Next
<1> QED
  BY <1>1, <1>2 DEF Single

\* The circumstances of SameKey.
Calm == ~env.faults /\ (env.overlap => env.first # NoStart)

Writing == {n \in Starts : stage[n] \in {"OpenFile", "Encode", "Close"}}

\* In those, a key is made only while there is none, by a start that is alone,
\* and whoever is up has the key that is in the file.
OneKey ==
    Calm =>
        /\ env.first # NoStart => exists
        /\ \A n \in Starts : stage[n] = "OpenFile" => ~exists
        /\ \A n \in Starts : stage[n] \in {"ReadFile", "Encode", "Close"} => exists
        /\ \A n \in Starts : stage[n] = "Encode" => \A i \in 1..written[n] : file[i] = n
        /\ \A n \in Starts : stage[n] = "Close" => file = Encoded(n)
        /\ Writing # {} => ~env.overlap /\ Up = {}
        /\ ~exists => Up = {}
        /\ \A n \in Up : key[n] = file

\* With a key before the starts, or none, there is one key at most.
LEMMA OneKeyInit == Init => OneKey /\ Single
  BY DEF Init, OneKey, Single, Active, Calls, Writing, Up

\* Every system call keeps the one key.
LEMMA OneKeyStep ==
    ASSUME Typed, Single, OneKey, [Next]_vars
    PROVE  OneKey'
<1>1. UNCHANGED env
  BY DEF Next, Come, Run, Stat, ReadFile, OpenFile, Encode, Close, CallError, Kill, vars
<1> SUFFICES ASSUME Calm
             PROVE  OneKey'
  BY <1>1 DEF OneKey, Calm
<1> USE DEF Typed, TypeOK, OneKey, Goto, Calls, Writing, Up
<1>2. CASE UNCHANGED vars
  BY <1>2 DEF vars, Calm
<1>3. ASSUME NEW n \in Starts, Come(n) PROVE OneKey'
  BY <1>3 DEF Come, Calm
<1>4. ASSUME NEW n \in Starts, Stat(n) PROVE OneKey'
  BY <1>4 DEF Stat, AfterStat, Calm
<1>5. ASSUME NEW n \in Starts, ReadFile(n) PROVE OneKey'
  <2>1. n \in Active /\ exists
    BY <1>5 DEF ReadFile, Active, Calm
  <2>2. Writing = {}
    BY <1>5, <2>1 DEF Single, Active, ReadFile
  <2> QED
    BY <1>5, <2>1, <2>2 DEF ReadFile, Calm
<1>6. ASSUME NEW n \in Starts, OpenFile(n) PROVE OneKey'
  <2>1. \A m \in Starts \ {n} : stage[m] \notin Calls
    BY <1>6 DEF OpenFile, Single, Active, Calm
  <2>2. Up = {} /\ written[n] = 0
    BY <1>6 DEF OpenFile, Calm, Progress
  <2>3. exists' /\ stage' = [stage EXCEPT ![n] = "Encode"] /\ UNCHANGED written
    BY <1>6 DEF OpenFile
  <2> QED
    BY <1>6, <2>1, <2>2, <2>3 DEF OpenFile, Calm
<1>7. ASSUME NEW n \in Starts, Encode(n) PROVE OneKey'
  <2>1. \A m \in Starts \ {n} : stage[m] \notin Calls
    BY <1>7 DEF Encode, Single, Active, Calm
  <2>2. Up = {} /\ exists /\ ~env.overlap
    BY <1>7 DEF Encode, Calm
  <2>3. written[n] \in 0..Chunks /\ written[n] < Chunks /\ written'[n] = written[n] + 1
    BY <1>7 DEF Encode, Progress
  <2>4. \A i \in 1..written'[n] : file'[i] = n
    <3> SUFFICES ASSUME NEW i \in 1..(written[n] + 1)
                 PROVE  file'[i] = n
      BY <2>3
    <3>1. i \in 1..Chunks /\ (i \in 1..written[n] \/ i = written[n] + 1)
      BY <2>3, ChunkAssumption
    <3>2. file' = [file EXCEPT ![written[n] + 1] = n] /\ file \in Row
      BY <1>7 DEF Encode
    <3>3. \A j \in 1..written[n] : file[j] = n
      BY <1>7 DEF Encode, Calm
    <3> QED
      BY <3>1, <3>2, <3>3 DEF Row
  <2>5. stage' = [stage EXCEPT ![n] = IF written'[n] = Chunks THEN "Close" ELSE "Encode"]
    BY <1>7 DEF Encode, EncodedAll
  <2>6. written'[n] = Chunks => file' = Encoded(n)
    <3>1. file' \in Row
      BY <1>7, TypedStep
    <3> QED
      BY <2>4, <3>1 DEF Row, Encoded
  <2> QED
    BY <1>7, <2>1, <2>2, <2>3, <2>4, <2>5, <2>6 DEF Encode, Calm
<1>8. ASSUME NEW n \in Starts, Close(n) PROVE OneKey'
  <2>1. \A m \in Starts \ {n} : stage[m] \notin Calls
    BY <1>8 DEF Close, Single, Active, Calm
  <2> QED
    BY <1>8, <2>1 DEF Close, Calm
<1>9. ASSUME NEW n \in Starts, CallError(n) \/ Kill(n) PROVE OneKey'
  BY <1>9 DEF CallError, Kill, Calm, Active
<1> QED
  BY <1>2, <1>3, <1>4, <1>5, <1>6, <1>7, <1>8, <1>9 DEF Next, Run

\* Starts that come one after another, or find a key, sign with one key, however
\* many there are and however many are killed half-way.
THEOREM SameKeyAlways == Spec => []SameKey
<1>1. OneKey => SameKey
  BY DEF OneKey, SameKey, Calm
<1> QED
  BY <1>1, TypedInit, TypedStep, OneKeyInit, OneKeyStep, SingleStep, PTL DEF Spec

-----------------------------------------------------------------------------
(* The unreadable file *)

\* The file is a key, and not the work of several starts.
Whole == \E w \in Writers : file = Encoded(w)

\* A start that ended in the middle of its writes.
Broken(m) == stage[m] \in {"killed", "failed"} /\ written[m] < Chunks

\* Without overlap the file in parts is somebody's work, going on or broken off.
Traces ==
    ~env.overlap =>
        /\ \A n \in Starts : stage[n] = "ReadFile" => exists
        /\ \A n \in Starts : stage[n] = "Encode" =>
              file = [i \in 1..Chunks |-> IF i <= written[n] THEN n ELSE NoStart]
        /\ \A n \in Starts : stage[n] = "Close" => file = Encoded(n)
        /\ exists /\ ~Whole => \E m \in Starts : Broken(m) \/ stage[m] = "Encode"
        /\ \A n \in Starts : stage[n] = "unreadable" => \E m \in Starts : Broken(m)

\* Before the starts the file is whole or missing.
LEMMA TracesInit == Init => Traces
<1> SUFFICES ASSUME Init PROVE Traces
  OBVIOUS
<1>1. exists => Whole
  BY DEF Init, Whole, Surroundings, Writers
<1> QED
  BY <1>1 DEF Init, Traces

\* A file one writer has finished is complete and not mixed.
LEMMA WholeComplete ==
    ASSUME Whole
    PROVE  Complete /\ ~Mixed
<1>1. PICK w \in Writers : file = Encoded(w)
  BY DEF Whole
<1>2. w # NoStart
  BY StartAssumption
<1>3. \A i \in 1..Chunks : file[i] = w
  BY <1>1 DEF Encoded
<1> QED
  BY <1>2, <1>3 DEF Complete, Mixed

\* Every system call keeps the trace of who left the file unfinished.
LEMMA TracesStep ==
    ASSUME Typed, Single, Traces, [Next]_vars
    PROVE  Traces'
<1>1. UNCHANGED env
  BY DEF Next, Come, Run, Stat, ReadFile, OpenFile, Encode, Close, CallError, Kill, vars
<1> SUFFICES ASSUME ~env.overlap
             PROVE  Traces'
  BY <1>1 DEF Traces
<1> USE DEF Typed, TypeOK, Traces, Goto, Calls, Broken
<1>2. CASE UNCHANGED vars
  BY <1>2 DEF vars, Whole
<1>3. ASSUME NEW n \in Starts, Come(n) PROVE Traces'
  BY <1>3 DEF Come, Whole
<1>4. ASSUME NEW n \in Starts, Stat(n) PROVE Traces'
  BY <1>4 DEF Stat, AfterStat, Whole
<1>5. ASSUME NEW n \in Starts, ReadFile(n) PROVE Traces'
  <2>1. exists /\ \A m \in Starts \ {n} : stage[m] \notin Calls
    BY <1>5 DEF ReadFile, Single, Active
  <2>2. UNCHANGED <<exists, file, written>>
    BY <1>5 DEF ReadFile
  <2>3. CASE Whole
    <3>1. stage' = [stage EXCEPT ![n] = "up"]
      BY <1>5, <2>3, WholeComplete DEF ReadFile
    <3>2. \A m \in Starts \ {n} : stage'[m] = stage[m]
      BY <3>1
    <3>3. \A m \in Starts : Broken(m) => Broken(m)'
      BY <1>5, <2>2, <3>2 DEF ReadFile
    <3>4. Whole' /\ stage'[n] = "up"
      BY <2>2, <2>3, <3>1 DEF Whole
    <3> QED
      BY <2>1, <2>2, <3>2, <3>3, <3>4
  <2>4. CASE ~Whole
    <3>1. PICK m \in Starts : Broken(m)
      BY <1>5, <2>1, <2>4 DEF ReadFile
    <3>2. m # n
      BY <1>5, <3>1 DEF ReadFile
    <3>3. \A k \in Starts \ {n} : stage'[k] = stage[k]
      BY <1>5 DEF ReadFile
    <3>4. stage'[n] \in {"up", "unreadable"}
      BY <1>5 DEF ReadFile
    <3>5. Broken(m)'
      BY <2>2, <3>1, <3>2, <3>3
    <3> QED
      BY <2>1, <2>2, <3>3, <3>4, <3>5
  <2> QED
    BY <2>3, <2>4
<1>6. ASSUME NEW n \in Starts, OpenFile(n) PROVE Traces'
  <2>1. \A m \in Starts \ {n} : stage[m] \notin Calls
    BY <1>6 DEF OpenFile, Single, Active
  <2>2. stage' = [stage EXCEPT ![n] = "Encode"] /\ UNCHANGED written /\ file' = Encoded(NoStart)
    BY <1>6 DEF OpenFile
  <2>3. written[n] = 0
    BY <1>6 DEF OpenFile, Progress
  <2>4. file' = [i \in 1..Chunks |-> IF i <= written[n] THEN n ELSE NoStart]
    BY <2>2, <2>3, ChunkAssumption DEF Encoded
  <2> QED
    BY <2>1, <2>2, <2>4, <1>6 DEF OpenFile
<1>7. ASSUME NEW n \in Starts, Encode(n) PROVE Traces'
  <2>1. \A m \in Starts \ {n} : stage[m] \notin Calls
    BY <1>7 DEF Encode, Single, Active
  <2>2. written[n] \in 0..Chunks /\ written[n] < Chunks /\ written'[n] = written[n] + 1
    BY <1>7 DEF Encode, Progress
  <2>3. file' = [i \in 1..Chunks |-> IF i <= written'[n] THEN n ELSE NoStart]
    <3>1. /\ file = [i \in 1..Chunks |-> IF i <= written[n] THEN n ELSE NoStart]
          /\ file' = [file EXCEPT ![written[n] + 1] = n]
      BY <1>7 DEF Encode
    <3>2. PICK k \in 0..Chunks : k = written[n] /\ k < Chunks /\ written'[n] = k + 1
      BY <2>2
    <3>3. \A i \in 1..Chunks : i <= k + 1 <=> i <= k \/ i = k + 1
      BY <3>2, ChunkAssumption
    <3>4. [[i \in 1..Chunks |-> IF i <= k THEN n ELSE NoStart] EXCEPT ![k + 1] = n]
              = [i \in 1..Chunks |-> IF i <= k + 1 THEN n ELSE NoStart]
      BY <3>3
    <3> QED
      BY <3>1, <3>2, <3>4
  <2>4. stage' = [stage EXCEPT ![n] = IF written'[n] = Chunks THEN "Close" ELSE "Encode"]
    BY <1>7 DEF Encode, EncodedAll
  <2>5. written'[n] = Chunks => file' = Encoded(n) /\ Whole'
    BY <2>3, ChunkAssumption DEF Encoded, Whole, Writers
  <2>6. \A m \in Starts \ {n} : written'[m] = written[m] /\ stage'[m] = stage[m]
    BY <1>7, <2>4 DEF Encode
  <2>7. \A m \in Starts : Broken(m) => Broken(m)'
    BY <1>7, <2>6 DEF Encode
  <2> QED
    BY <1>7, <2>1, <2>3, <2>4, <2>5, <2>6, <2>7 DEF Encode
<1>8. ASSUME NEW n \in Starts, Close(n) PROVE Traces'
  <2>1. Whole
    BY <1>8 DEF Close, Whole, Writers
  <2> QED
    BY <1>8, <2>1 DEF Close, Whole
<1>9. ASSUME NEW n \in Starts, CallError(n) \/ Kill(n) PROVE Traces'
  <2>1. /\ n \in Active /\ UNCHANGED <<exists, file, written>>
        /\ \A m \in Starts \ {n} : stage'[m] = stage[m]
        /\ stage'[n] \in {"failed", "killed"}
    BY <1>9 DEF CallError, Kill, Active
  <2>2. \A m \in Starts : Broken(m) => Broken(m)'
    BY <2>1
  <2>3. stage[n] = "Encode" => Broken(n)'
    BY <2>1 DEF Progress
  <2> QED
    BY <2>1, <2>2, <2>3 DEF Whole
<1> QED
  BY <1>2, <1>3, <1>4, <1>5, <1>6, <1>7, <1>8, <1>9 DEF Next, Run

\* Without overlap the file stays readable unless a start was killed or failed
\* while it wrote it, with system calls failing or not.
THEOREM UnreadableAfterCrashAlways == Spec => []UnreadableAfterCrash
<1>1. Traces => UnreadableAfterCrash
  BY DEF Traces, UnreadableAfterCrash, Broken
<1>2. Init => Single
  BY OneKeyInit
<1> QED
  BY <1>1, <1>2, TypedInit, TypedStep, TracesInit, TracesStep, SingleStep, PTL DEF Spec
=============================================================================

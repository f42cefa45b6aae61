------------------------------ MODULE KeyFile ------------------------------
(***************************************************************************)
(* loadOrCreateKey (app/keys.go): every start of the program loads the key *)
(* it signs tokens with from a file, or makes one and writes the file.  An *)
(* action is one system call on the file: Stat, ReadFile, OpenFile with    *)
(* O_TRUNC, a write of pem.Encode, Close.  A start may be killed between   *)
(* any two of them, and starts may overlap.                                *)
(*                                                                         *)
(* The key of start n, encoded, is a row of chunks that all say n.  As     *)
(* encoded keys have one length and every writer its own file offset, the  *)
(* file is a row of the same length, a chunk being of the writer that      *)
(* wrote it last or missing.                                               *)
(***************************************************************************)
EXTENDS Naturals, FiniteSets

CONSTANTS
    Starts,         \* the runs of the program that find the file as it is
    Chunks,         \* the number of writes of pem.Encode
    Before,         \* who may have written a key before these starts
    NoStart, NoKey

Writers == Starts \union Before
Row == [1..Chunks -> Writers \union {NoStart}]
Keys == [1..Chunks -> Writers]
Encoded(n) == [i \in 1..Chunks |-> n]

ASSUME ChunkAssumption == Chunks \in Nat \ {0}
ASSUME StartAssumption == NoStart \notin Writers /\ NoKey \notin Row

\* What surrounds the starts: whether they may overlap, whether system calls may
\* fail, and who wrote the key that is there already (NoStart if there is no file).
Surroundings == [overlap : BOOLEAN, faults : BOOLEAN, first : Before \union {NoStart}]

VARIABLES
    env,            \* the surroundings, which stay as they are
    exists,         \* whether the file exists
    file,           \* its chunks
    stage,          \* the next system call of each start, or how it ended
    written,        \* chunks written by each start
    key             \* the key each start has imported

vars == <<env, exists, file, stage, written, key>>

Calls == {"Stat", "ReadFile", "OpenFile", "Encode", "Close"}

TypeOK ==
    /\ env \in Surroundings
    /\ exists \in BOOLEAN
    /\ file \in Row
    /\ stage \in [Starts -> Calls \union {"off", "up", "unreadable", "failed", "killed"}]
    /\ written \in [Starts -> 0..Chunks]
    /\ key \in [Starts -> Keys \union {NoKey}]

Init ==
    /\ env \in Surroundings
    /\ exists = (env.first # NoStart)
    /\ file = Encoded(env.first)
    /\ stage = [n \in Starts |-> "off"]
    /\ written = [n \in Starts |-> 0]
    /\ key = [n \in Starts |-> NoKey]

-----------------------------------------------------------------------------

Active == {n \in Starts : stage[n] \in Calls}

Goto(n, call) == stage' = [stage EXCEPT ![n] = call]

Come(n) == /\ stage[n] = "off"
           /\ env.overlap \/ Active = {}
           /\ Goto(n, "Stat")
           /\ UNCHANGED <<env, exists, file, written, key>>

\* (variant: a key is always made)
AfterStatCreate == "OpenFile"

AfterStat == IF exists THEN "ReadFile" ELSE "OpenFile"

\* Any error of Stat counts as a file that is not there.
Stat(n) ==
    /\ stage[n] = "Stat"
    /\ Goto(n, AfterStat) \/ (env.faults /\ Goto(n, "OpenFile"))
    /\ UNCHANGED <<env, exists, file, written, key>>

\* All the file is there, as far as pem.Decode can tell.
Complete == \A i \in 1..Chunks : file[i] # NoStart

\* What two writers made of it together may or may not parse as a key.
Mixed == \E i, j \in 1..Chunks : file[i] # file[j]

ReadFile(n) ==
    /\ stage[n] = "ReadFile"
    /\ \/ Complete /\ key' = [key EXCEPT ![n] = file] /\ Goto(n, "up")
       \/ (~Complete \/ Mixed) /\ UNCHANGED key /\ Goto(n, "unreadable")
    /\ UNCHANGED <<env, exists, file, written>>

OpenFile(n) ==
    /\ stage[n] = "OpenFile"
    /\ exists' = TRUE
    /\ file' = Encoded(NoStart)
    /\ Goto(n, "Encode")
    /\ UNCHANGED <<env, written, key>>

\* (variants: the last write is left out; one write too many)
EncodedAllShort(n) == written'[n] >= Chunks - 1
EncodedAllLate(n) == written[n] = Chunks

EncodedAll(n) == written'[n] = Chunks

Encode(n) ==
    /\ stage[n] = "Encode"
    /\ written' = [written EXCEPT ![n] = @ + 1]
    /\ file' = [file EXCEPT ![written[n] + 1] = n]
    /\ Goto(n, IF EncodedAll(n) THEN "Close" ELSE "Encode")
    /\ UNCHANGED <<env, exists, key>>

\* The key is imported from memory, not from the file.
Close(n) ==
    /\ stage[n] = "Close"
    /\ key' = [key EXCEPT ![n] = Encoded(n)]
    /\ Goto(n, "up")
    /\ UNCHANGED <<env, exists, file, written>>

\* (variant: a call that fails is repeated without limit)
CallErrorRetried(n) ==
    /\ env.faults
    /\ stage[n] = "OpenFile"
    /\ Goto(n, "Stat")
    /\ UNCHANGED <<env, exists, file, written, key>>

\* A system call returns an error: the start fails, and the file stays as it is.
CallError(n) ==
    /\ env.faults
    /\ n \in Active /\ stage[n] # "Stat"
    /\ Goto(n, "failed")
    /\ UNCHANGED <<env, exists, file, written, key>>

Kill(n) == n \in Active /\ Goto(n, "killed") /\ UNCHANGED <<env, exists, file, written, key>>

Run(n) == Stat(n) \/ ReadFile(n) \/ OpenFile(n) \/ Encode(n) \/ Close(n) \/ CallError(n)

AllEnded == \A n \in Starts : stage[n] \notin Calls \union {"off"}

Next == (\E n \in Starts : Come(n) \/ Run(n) \/ Kill(n)) \/ (AllEnded /\ UNCHANGED vars)

Spec == Init /\ [][Next]_vars

\* System calls return.
FairSpec == Spec /\ \A n \in Starts : WF_vars(Run(n))

-----------------------------------------------------------------------------
(* Properties *)

Up == {n \in Starts : stage[n] = "up"}

\* Where starts do not overlap, or a complete key is there before them, and no
\* system call fails, all of them sign with the same key and it is the one in the
\* file: tokens outlive a restart, however many starts are killed half-way.
\* (Starts that overlap in an empty directory may each keep a key of their own,
\* and an error of Stat replaces the key.)
SameKey ==
    ~env.faults /\ (env.overlap => env.first # NoStart) =>
        \A n \in Up : key[n] = file /\ \A m \in Up : key[m] = key[n]

\* Without overlap a start finds the file unreadable only if an earlier one was
\* killed, or failed, while it wrote it.
UnreadableAfterCrash ==
    ~env.overlap => \A n \in Starts : stage[n] = "unreadable" =>
        \E m \in Starts : stage[m] \in {"killed", "failed"} /\ written[m] < Chunks

\* Every start ends up with a key or ends.
StartEnds == \A n \in Starts : stage[n] = "Stat" ~> stage[n] \notin Calls
=============================================================================

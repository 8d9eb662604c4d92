--------------------------- MODULE EvaluationRun ---------------------------
(***************************************************************************)
(* The evaluation of a data set over several runs of one command           *)
(* (taskutils/memory_eval/ruler_general.py, its siblings ruler_hqa.py and  *)
(* ruler_hqa_over1m.py, load_existing_ids of utils/__init__.py, async_main *)
(* of utils/aio.py).  A run reads which questions the result file already  *)
(* answers, asks all others at once, at most n_proc at a time, waits for   *)
(* every one, and only then writes the answers behind each other through a *)
(* buffered file.  A run may be killed at any moment.                      *)
(*                                                                         *)
(* A question ends with an answer or without one (ParallelBoxed: every     *)
(* request may fail, but a record comes back).  The file is the sequence   *)
(* of the questions whose records are complete, and torn says that part of *)
(* a further record follows.                                               *)
(*                                                                         *)
(* An operator introduced by "Slip:" is not part of the model: it is the   *)
(* definition that follows it with a plausible mistake.                    *)
(***************************************************************************)
EXTENDS Integers, Sequences, FiniteSets

CONSTANTS
    NQuestions,  \* data set size; a question is its _id, 0 .. NQuestions - 1
    NProc,       \* args.n_proc
    MaxRuns      \* bound: how often the command is started

NQuestionsAssumption == NQuestions \in Nat \ {0}
NProcAssumption      == NProc \in Nat \ {0}
MaxRunsAssumption    == MaxRuns \in Nat

VARIABLES
    runs,      \* how often the command was started
    force,     \* --force of the current run
    pc,        \* "idle", "querying", "writing", "failed"
    data,      \* the questions of this run, in the order of their ids
    asked,     \* questions whose coroutine holds the semaphore
    outcome,   \* what the coroutines that are through returned
    written,   \* how many of data the loop behind the queries has passed
    buffer,    \* records written but not yet flushed
    file,      \* complete records on disk
    torn       \* whether a part of another record follows them

vars == <<runs, force, pc, data, asked, outcome, written, buffer, file, torn>>

Questions == 0 .. NQuestions - 1
Elems(s)  == {s[i] : i \in DOMAIN s}

(* The members of S in ascending order. *)
Ascending(S) == CHOOSE s \in [1 .. Cardinality(S) -> S] :
                    \A i, j \in DOMAIN s : i < j => s[i] < s[j]

Init ==
    /\ runs = 0
    /\ force = FALSE
    /\ pc = "idle"
    /\ data = << >> /\ asked = {} /\ outcome = << >>
    /\ written = 0 /\ buffer = << >>
    /\ file = << >> /\ torn = FALSE

(* load_existing_ids: raw_decode raises where a record is cut off. *)
LoadExistingIds == Elems(file)

(* Slip: every question is asked again, forced or not. *)
TodoAll(forced) == Questions
(* --force asks all again, otherwise those without a record. *)
Todo(forced) == IF forced THEN Questions ELSE Questions \ LoadExistingIds

StartRun ==
    /\ pc = "idle" /\ runs < MaxRuns
    /\ runs' = runs + 1
    /\ force' \in BOOLEAN
    /\ IF torn
       THEN pc' = "failed" /\ data' = << >>
       ELSE pc' = "querying" /\ data' = Ascending(Todo(force'))
    /\ asked' = {} /\ outcome' = << >> /\ written' = 0
    /\ UNCHANGED <<buffer, file, torn>>

(* async_main: a coroutine enters the semaphore, and asks. *)
Ask(q) ==
    /\ pc = "querying"
    /\ q \in Elems(data) \ (asked \cup DOMAIN outcome)
    /\ Cardinality(asked) < NProc
    /\ asked' = asked \cup {q}
    /\ UNCHANGED <<runs, force, pc, data, outcome, written, buffer, file, torn>>

(* Slip: the semaphore is kept when a question has no answer. *)
ReturnKeepsPlace(q) ==
    /\ pc = "querying" /\ q \in asked \ DOMAIN outcome
    /\ \E answered \in BOOLEAN :
          /\ outcome' = [x \in DOMAIN outcome \cup {q} |->
                            IF x = q THEN answered ELSE outcome[x]]
          /\ asked' = IF answered THEN asked \ {q} ELSE asked
    /\ UNCHANGED <<runs, force, pc, data, written, buffer, file, torn>>
(* It returns, with a response or with an empty one. *)
Return(q) ==
    /\ pc = "querying" /\ q \in asked
    /\ \E answered \in BOOLEAN :
          outcome' = [x \in DOMAIN outcome \cup {q} |->
                         IF x = q THEN answered ELSE outcome[x]]
    /\ asked' = asked \ {q}
    /\ UNCHANGED <<runs, force, pc, data, written, buffer, file, torn>>

(* Slip: the file is opened for writing by every run. *)
OpenFileAfresh ==
    /\ pc = "querying" /\ DOMAIN outcome = Elems(data)
    /\ pc' = "writing"
    /\ file' = << >>
    /\ UNCHANGED <<runs, force, data, asked, outcome, written, buffer, torn>>
(* gather is through: the file is opened, and emptied by --force. *)
OpenFile ==
    /\ pc = "querying" /\ DOMAIN outcome = Elems(data)
    /\ pc' = "writing"
    /\ file' = IF force THEN << >> ELSE file
    /\ UNCHANGED <<runs, force, data, asked, outcome, written, buffer, torn>>

(* Slip: a question without an answer is recorded too. *)
WriteOneEmptyToo ==
    /\ pc = "writing" /\ written < Len(data)
    /\ written' = written + 1
    /\ buffer' = Append(buffer, data[written + 1])
    /\ UNCHANGED <<runs, force, pc, data, asked, outcome, file, torn>>
(* A question without an answer gets no record. *)
WriteOne ==
    /\ pc = "writing" /\ written < Len(data)
    /\ written' = written + 1
    /\ buffer' = IF outcome[data[written + 1]]
                 THEN Append(buffer, data[written + 1]) ELSE buffer
    /\ UNCHANGED <<runs, force, pc, data, asked, outcome, file, torn>>

(* The buffer may reach the disk at any time, in part. *)
Flush ==
    /\ pc = "writing" /\ buffer # << >> /\ torn' \in BOOLEAN
    /\ \E n \in 0 .. Len(buffer) :
          /\ n > 0 \/ (torn' /\ ~torn)
          /\ torn' => n < Len(buffer)
          /\ file' = file \o SubSeq(buffer, 1, n)
          /\ buffer' = SubSeq(buffer, n + 1, Len(buffer))
    /\ UNCHANGED <<runs, force, pc, data, asked, outcome, written>>

(* The process ends and the interpreter flushes the file. *)
Finish ==
    /\ pc = "writing" /\ written = Len(data)
    /\ pc' = "idle"
    /\ file' = file \o buffer /\ buffer' = << >> /\ torn' = FALSE
    /\ UNCHANGED <<runs, force, data, asked, outcome, written>>

(* The process is killed; the buffer is lost, what was flushed stays. *)
Kill ==
    /\ pc \in {"querying", "writing"}
    /\ pc' = "idle"
    /\ buffer' = << >> /\ asked' = {}
    /\ UNCHANGED <<runs, force, data, outcome, written, file, torn>>

(* The run that failed to read the file has ended with the exception. *)
GiveUp ==
    /\ pc = "failed"
    /\ pc' = "idle"
    /\ UNCHANGED <<runs, force, data, asked, outcome, written, buffer, file, torn>>

Work == \/ OpenFile \/ WriteOne \/ Finish \/ GiveUp
        \/ \E q \in Questions : Ask(q) \/ Return(q)
Next == StartRun \/ Work \/ Flush \/ Kill

(* The event loop runs every coroutine that can go on and each question     *)
(* ends (ParallelBoxed!AlwaysReturns); nothing is assumed of the command    *)
(* being started again, of when buffers are flushed, or of kills.           *)
Spec == Init /\ [][Next]_vars /\ WF_vars(Work)

-----------------------------------------------------------------------------
(* Type correctness. *)
TypeOK ==
    /\ runs \in 0 .. MaxRuns
    /\ force \in BOOLEAN /\ torn \in BOOLEAN
    /\ pc \in {"idle", "querying", "writing", "failed"}
    /\ data \in Seq(Questions) /\ buffer \in Seq(Questions) /\ file \in Seq(Questions)
    /\ asked \in SUBSET Questions /\ Cardinality(asked) <= NProc
    /\ DOMAIN outcome \in SUBSET Questions
    /\ written \in 0 .. NQuestions

(* No question is answered twice in the file, over any number of runs,      *)
(* forced or not, killed or not: append mode and the ids read at the start  *)
(* of a run exclude each other.                                             *)
NoAnswerTwice ==
    LET records == file \o buffer
    IN  Cardinality(Elems(records)) = Len(records)

(* A run that was neither forced nor killed leaves exactly the questions    *)
(* without an answer to the next one, and a forced one too: a failed        *)
(* question is asked again, an answered one never.                          *)
FinishedRunIsRecorded ==
    [][Finish => \A q \in Elems(data) : q \in Elems(file') <=> outcome[q]]_vars

(* What is on disk survives every kill and every later run that is not      *)
(* forced (the file is opened in append mode).                              *)
SavedAnswersStay ==
    [][~force => \A i \in DOMAIN file : i \in DOMAIN file' /\ file'[i] = file[i]]_vars

(* Every started run comes to an end: no coroutine keeps the others out of  *)
(* the semaphore for ever.                                                  *)
RunsEnd == pc # "idle" ~> pc = "idle"
=============================================================================

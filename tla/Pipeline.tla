-------------------------------- MODULE Pipeline -------------------------------
(***************************************************************************)
(* main after the candidates are there: the search, which writes the       *)
(* answer file whenever it matches more outputs than before, verifyResult, *)
(* and main, which writes the file a last time.  Nothing stops the search  *)
(* in time, so whoever runs the program does: every state may be the last. *)
(***************************************************************************)
EXTENDS VerifyResult

CONSTANTS Ins1, Ins2, Outs1, Outs2      \* the ports in the order of their index

ASSUME OrderAssumption ==
    /\ Ins1 \in Seq(C1In) /\ Range(Ins1) = C1In
    /\ Ins2 \in Seq(C2In) /\ Range(Ins2) = C2In
    /\ Outs1 \in Seq(C1Out) /\ Range(Outs1) = C1Out
    /\ Outs2 \in Seq(C2Out) /\ Range(Outs2) = C2Out
    /\ \A ports \in {Ins1, Ins2, Outs1, Outs2} : IsInjective(ports)

VARIABLES
    file, todo, writer,     \* the answer file
    delivered               \* main has written its answer

File == INSTANCE AnswerFile

fileVars == <<file, todo, writer>>
pipeVars == <<vars, verifyVars, fileVars, delivered>>

PInit == VInit /\ File!FileInit /\ delivered = FALSE

Best == [in |-> maxInputMatch, out |-> maxOutputMatch]

\* (variant) the file is left as it is when the last outputs are matched
Improved_NotLast == maxOutputDepth' > maxOutputDepth /\ ~findOutputBest'
Improved == maxOutputDepth' > maxOutputDepth

\* A step of the search; one that records a better answer goes on only after
\* writePartialAns has written it.
SearchOn ==
    /\ writer = "none"
    /\ Search
    /\ IF Improved THEN File!Open("search", Best') ELSE UNCHANGED fileVars
    /\ UNCHANGED delivered

WriteFile ==
    /\ File!WriteLine
    /\ UNCHANGED <<vars, verifyVars, delivered>>

CloseFile ==
    /\ File!CloseFile
    /\ delivered' = (writer = "main")
    /\ UNCHANGED <<vars, verifyVars>>

VerifyOn ==
    /\ writer = "none"
    /\ Verify
    /\ UNCHANGED <<fileVars, delivered>>

\* main translates the answer it reads back, opens the file and writes it.
WriteAgain ==
    /\ at = "reported"
    /\ ~delivered
    /\ File!Open("main", Best)
    /\ UNCHANGED <<vars, verifyVars, delivered>>

Exit == delivered /\ UNCHANGED pipeVars

PNext == SearchOn \/ WriteFile \/ CloseFile \/ VerifyOn \/ WriteAgain \/ Exit
PSpec == PInit /\ [][PNext]_pipeVars /\ WF_pipeVars(PNext)

--------------------------------------------------------------------------------
(* Properties *)

\* What an answer says, without the polarity of a port that is not matched.
Meaning(answer) ==
    LET plain(m) == IF m.c1 = None THEN NoLock ELSE m IN
    [in |-> [i \in C2In |-> plain(answer.in[i])], out |-> [o \in C2Out |-> plain(answer.out[o])]]

\* Whenever nobody is writing the file, reading it gives the best answer of the
\* search: no improvement is lost, none is mixed with an older one, and what
\* main writes in the end says the same as what writePartialAns wrote.
FileIsBest == writer = "none" => File!ReadFile(file) = Meaning(Best)

\* A file cut off while it is written holds a part of the best answer and
\* nothing of an older one.
KilledFile ==
    LET seen == File!ReadFile(file) best == Meaning(Best) IN
    /\ \A i \in C2In : seen.in[i] \in {NoLock, best.in[i]}
    /\ \A o \in C2Out : seen.out[o] \in {NoLock, best.out[o]}

\* main is done, and every pair of outputs in the file is equivalent under the
\* inputs in the file, all of which are there.
Delivered ==
    LET seen == File!ReadFile(file) IN
    /\ delivered
    /\ \A o \in C2Out : seen.out[o].c1 # None =>
          /\ \A i \in Range(Supp2[o]) : seen.in[i].c1 # None
          /\ MiterType(seen.out[o].c1, o, seen.in, SUBSET C1In) = seen.out[o].neg + 1

\* Left alone, the program ends with a file whose matches are right and whole.
AnswerDelivered == <>[]Delivered
================================================================================

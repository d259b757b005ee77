------------------------------- MODULE AnswerFile ------------------------------
(***************************************************************************)
(* The answer file: a writer opens it, which truncates it, and writes one  *)
(* line after the other.  Every line ends with endl, so the lines written  *)
(* so far are what is on disk if the program is killed.                    *)
(***************************************************************************)
EXTENDS Integers, Sequences
Seqs == INSTANCE SequencesExt

CONSTANTS
    Ins1, Ins2, Outs1, Outs2,   \* input1, input2, output1, output2
    None, CONST                 \* -1 and CONST_VAL

VARIABLES
    file,       \* the lines on disk
    todo,       \* the lines not yet written
    writer      \* who has the file open: "none", "search" or "main"

FileInit ==
    /\ file = <<>>
    /\ todo = <<>>
    /\ writer = "none"

--------------------------------------------------------------------------------
(* writeOutput: what an answer looks like in the file.  An answer gives    *)
(* every circuit-2 port (in: input, out: output) its match [c1, neg].      *)

Line(tag, neg, port) == [tag |-> tag, neg |-> neg, port |-> port]
Mark(tag) == Line(tag, 0, None)

\* The circuit-2 ports matched to c1, in the order of their index.
Matched(ports, match, c1) ==
    Seqs!FlattenSeq([k \in DOMAIN ports |-> IF match[ports[k]].c1 = c1 THEN <<ports[k]>> ELSE <<>>])

PortLines(tag, match, ports) == [j \in DOMAIN ports |-> Line(tag, match[ports[j]].neg, ports[j])]

Group(tag, c1, match, ports) ==
    <<Mark(tag), Line("1", 0, c1)>>
        \o PortLines("2", match, Matched(ports, match, c1)) \o <<Mark("END")>>

\* (variant) constants are left out
ConstGroup_None(match) == <<>>
ConstGroup(match) ==
    LET ports == Matched(Ins2, match, CONST) IN
    IF ports = <<>> THEN <<>>
    ELSE <<Mark("CONSTGROUP")>> \o PortLines("const", match, ports) \o <<Mark("END")>>

\* A group for every circuit-1 port, empty or not, and the constants if any;
\* ports that are not matched are in none.
writeOutput(answer) ==
    Seqs!FlattenSeq([i \in DOMAIN Ins1 |-> Group("INGROUP", Ins1[i], answer.in, Ins2)])
    \o Seqs!FlattenSeq([o \in DOMAIN Outs1 |-> Group("OUTGROUP", Outs1[o], answer.out, Outs2)])
    \o ConstGroup(answer.in)

--------------------------------------------------------------------------------
(* writePartialAns and the end of main, line by line.                      *)

\* (variant) the file is opened for appending
Opened_Append == file
\* An ofstream truncates the file it opens.
Opened == <<>>

Open(who, answer) ==
    /\ writer = "none"
    /\ todo' = writeOutput(answer)
    /\ file' = Opened
    /\ writer' = who

WriteLine ==
    /\ todo # <<>>
    /\ file' = Append(file, Head(todo))
    /\ todo' = Tail(todo)
    /\ UNCHANGED writer

CloseFile ==
    /\ writer # "none"
    /\ todo = <<>>
    /\ writer' = "none"
    /\ UNCHANGED <<file, todo>>

--------------------------------------------------------------------------------
(* A reader of the file: the groups and the ports seen so far.             *)

NoMatch == [c1 |-> None, neg |-> 0]
Unmatched == [in |-> [i \in {Ins2[k] : k \in DOMAIN Ins2} |-> NoMatch],
              out |-> [o \in {Outs2[k] : k \in DOMAIN Outs2} |-> NoMatch]]

ReadLine(state, line) ==
    CASE line.tag = "1" -> [state EXCEPT !.c1 = line.port]
      [] line.tag = "2" ->
            LET m == [c1 |-> state.c1, neg |-> line.neg] IN
            IF state.group = "INGROUP" THEN [state EXCEPT !.in[line.port] = m]
                                       ELSE [state EXCEPT !.out[line.port] = m]
      [] line.tag = "const" ->
            [state EXCEPT !.in[line.port] = [c1 |-> CONST, neg |-> line.neg]]
      [] OTHER -> [state EXCEPT !.group = line.tag]

\* The states it goes through, from its first on.
Start == [in |-> Unmatched.in, out |-> Unmatched.out, group |-> "", c1 |-> None]
ReadFile(lines) ==
    LET seen[n \in 0..Len(lines)] == IF n = 0 THEN Start ELSE ReadLine(seen[n - 1], lines[n])
    IN [in |-> seen[Len(lines)].in, out |-> seen[Len(lines)].out]
================================================================================

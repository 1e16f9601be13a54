----------------------------- MODULE MCCommandLine -----------------------------
(* Commands and Inputs on small inputs. They share nothing: a behaviour is of one of
   them, its subject. *)
EXTENDS Commands, Sequences

CONSTANTS Lines, MaxLines, Ignoring, Outputs, MaxSeconds, MinDetect, Headers, Cells, MaxPI \* of Inputs

VARIABLES subject, reader, at, answer, given, text, data, duration, header, rows, numPI, base,
          before, used, comparing

inputs == <<reader, at, answer, given, text, data, duration, header, rows, numPI, base, before, used, comparing>>

Text == INSTANCE Inputs WITH code <- answer, options <- given

ASSUME InputsAssumption ==
  /\ Lines \subseteq Seq(STRING) /\ Outputs \subseteq Seq(STRING) /\ Ignoring \subseteq Nat \cup {-1}
  /\ Cells \subseteq Int /\ MaxPI \in Nat

\* A work amount that cannot change, one that can, and one the wrong way around.
SomeRanges == {<<7, 7>>, <<7, 20>>, <<20, 7>>}
SomeWidths == {-1, 1}
SomeLines == {<<"d">>, <<"d", "d">>, <<"w">>, <<>>, <<"w", ",", "d">>, <<"d", ",", "d", "d">>}
SomeIgnoring == -1 .. 2
\* All short lines, and numbers for a duration too great and a second column.
SomeOutputs == UNION {[1 .. n -> {"d", "w", ",", " "}] : n \in 0 .. 4}
               \cup {<<"d", "d", "d", "d">>, <<"d", "d", ",", " ", "d">>}
SomeHeaders == {<<>>, <<"piid", "readings_num">>, <<"piid", "readings_num", "unit_readings_num">>,
                <<"readings_num">>, <<"piid", "piid">>, <<"piid", "readings_subsession_var">>}
SomeCells == {0, 1}

MCInit == /\ subject \in {"command", "inputs"}
          /\ Init /\ Text!Init
          /\ subject = "command" => reader = "round"

OfCommand(step) == subject = "command" /\ step /\ UNCHANGED <<subject, inputs>>

MCNext == \/ OfCommand(Next)
          \/ subject = "inputs" /\ Text!Next /\ UNCHANGED <<subject, vars>>

MCSpec == /\ MCInit /\ [][MCNext]_<<subject, vars, inputs>>
          /\ WF_vars(OfCommand(Tool)) /\ WF_vars(OfCommand(Runner))

(* split_csv_line, extract_csv_fields and the client's output: the fields of a line
   are those its comment promises, and an accepted round has the numbers asked for. *)
LinesRead == Text!LinesRead

(* No line of a data file is lost or made up, and a baseline file that is accepted
   leaves each PI with what its last row says. *)
FilesRead == Text!FilesRead

(* pilot_load_baseline_file returns, with 0 or ERR_IO. *)
BaselineAnswers == Text!BaselineAnswers
=============================================================================

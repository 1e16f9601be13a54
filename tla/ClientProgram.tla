--------------------------- MODULE ClientProgram ---------------------------
(***************************************************************************)
(* How the command line tool gets one line of output from the client       *)
(* program for each round: workload_func and read_client_output of         *)
(* run_program, and the children they start.                               *)
(*                                                                         *)
(* A child writes its output in chunks as fgets returns them: a piece of a *)
(* line that is longer than the buffer or lacks its newline, the (rest of  *)
(* a) line with its newline, or a newline alone.  Children are numbered as *)
(* they are started, and the number stands for the process id.             *)
(***************************************************************************)
EXTENDS Naturals, SequencesExt

CONSTANTS
  MaxRounds,  \* bound on the number of rounds
  MaxChunks   \* bound on the output of all the children together

ASSUME ClientAssumption == MaxRounds \in Nat /\ MaxChunks \in Nat

VARIABLES
  at,      \* where workload_func is, or how it returned
  round,   \* the number of rounds begun
  tries,   \* loop_time
  pid,     \* g_client_pid, 0 when there is none
  stream,  \* g_client_out_fs, as the child at its other end; 0 for NULL
  buffer,  \* g_prog_stdout
  kids,    \* the children
  lines    \* history: what each round got

vars == <<at, round, tries, pid, stream, buffer, kids, lines>>

MaxTries == 3

Kinds == {"part", "line", "newline"}

Kid(r) == [round |-> r, out |-> <<>>, read |-> 0, open |-> TRUE,
           status |-> "running", reaped |-> FALSE]

Init ==
  /\ at = "away" /\ round = 0 /\ tries = 0
  /\ pid = 0 /\ stream = 0 /\ buffer = <<>>
  /\ kids = <<>> /\ lines = <<>>

\* The session loop calls workload_func, which calls read_client_output.
Begin ==
  /\ at \in {"away", "failed"} /\ round < MaxRounds
  /\ at' = "try" /\ round' = round + 1 /\ tries' = 0
  /\ UNCHANGED <<pid, stream, buffer, kids, lines>>

\* An exception: workload_func returns an error.
Throw == at' = "failed"

GiveUp ==
  /\ at = "try" /\ tries = MaxTries
  /\ Throw
  /\ UNCHANGED <<round, tries, pid, stream, buffer, kids, lines>>

\* popen2, or a failure of pipe or fork.
Launch ==
  /\ at = "try" /\ tries < MaxTries /\ pid = 0
  /\ \/ /\ at' = "scan"
        /\ kids' = Append(kids, Kid(round))
        /\ pid' = Len(kids') /\ stream' = Len(kids')
     \/ Throw /\ UNCHANGED <<kids, pid, stream>>
  /\ UNCHANGED <<round, tries, buffer, lines>>

\* The child of an earlier round goes on.
Keep ==
  /\ at = "try" /\ tries < MaxTries /\ pid # 0
  /\ at' = "scan"
  /\ UNCHANGED <<round, tries, pid, stream, buffer, kids, lines>>

Newlines == {i \in DOMAIN buffer : buffer[i].kind # "part"}

\* Mutant: a line is looked for at the end only, and takes all there is.
TakeLineAndBlank ==
  /\ at = "scan" /\ Newlines # {}
  /\ at' = "parse"
  /\ lines' = Append(lines, buffer) /\ buffer' = <<>>
  /\ UNCHANGED <<round, tries, pid, stream, kids>>

\* Mutant: an empty line is skipped, but not taken out of the buffer.
TakeLineStuck ==
  /\ at = "scan" /\ Newlines # {}
  /\ LET i == Min(Newlines)
     IN IF i = 1 /\ buffer[1].kind = "newline"
          THEN UNCHANGED <<at, lines, buffer>>
          ELSE /\ at' = "parse"
               /\ lines' = Append(lines, SubSeq(buffer, 1, i))
               /\ buffer' = SubSeq(buffer, i + 1, Len(buffer))
  /\ UNCHANGED <<round, tries, pid, stream, kids>>

\* The first line of the buffer, unless it is empty.
TakeLine ==
  /\ at = "scan" /\ Newlines # {}
  /\ LET i == Min(Newlines)
         line == SubSeq(buffer, 1, i)
     IN /\ buffer' = SubSeq(buffer, i + 1, Len(buffer))
        /\ IF i = 1 /\ buffer[1].kind = "newline"
             THEN UNCHANGED <<at, lines>>
             ELSE at' = "parse" /\ lines' = Append(lines, line)
  /\ UNCHANGED <<round, tries, pid, stream, kids>>

Unread(c) == Len(kids[c].out) > kids[c].read

\* fgets, which blocks until there is a chunk or the end of the output.
Read ==
  /\ at = "scan" /\ Newlines = {} /\ Unread(stream)
  /\ LET k == kids[stream].read + 1
     IN /\ buffer' = Append(buffer, [kid |-> stream, n |-> k,
                                     kind |-> kids[stream].out[k]])
        /\ kids' = [kids EXCEPT ![stream].read = k]
  /\ UNCHANGED <<at, round, tries, pid, stream, lines>>

ReachEnd ==
  /\ at = "scan" /\ Newlines = {} /\ ~Unread(stream) /\ ~kids[stream].open
  /\ at' = "reap" /\ stream' = 0
  /\ UNCHANGED <<round, tries, pid, buffer, kids, lines>>

\* Mutant: what was read stays in the buffer.
ReapKeeping ==
  /\ at = "reap" /\ kids[pid].status # "running"
  /\ kids' = [kids EXCEPT ![pid].reaped = TRUE]
  /\ IF kids[pid].status = "invalid"
       THEN Throw /\ UNCHANGED <<pid, tries, buffer, lines>>
       ELSE /\ pid' = 0
            /\ IF buffer # <<>>
                 THEN at' = "parse" /\ lines' = Append(lines, buffer)
                      /\ UNCHANGED <<tries, buffer>>
                 ELSE at' = "try" /\ tries' = tries + 1
                      /\ UNCHANGED <<buffer, lines>>
  /\ UNCHANGED <<round, stream>>

\* pclose2, and what is made of the exit code: one that is not valid throws,
\* before g_client_pid is reset.  A child that was killed has the code 0 here.
\* Output without a newline counts as a line; without any output the
\* program is run again.
Reap ==
  /\ at = "reap" /\ kids[pid].status # "running"
  /\ kids' = [kids EXCEPT ![pid].reaped = TRUE]
  /\ IF kids[pid].status = "invalid"
       THEN Throw /\ UNCHANGED <<pid, tries, buffer, lines>>
       ELSE /\ pid' = 0
            /\ IF buffer # <<>>
                 THEN at' = "parse" /\ lines' = Append(lines, buffer)
                      /\ buffer' = <<>> /\ UNCHANGED tries
                 ELSE at' = "try" /\ tries' = tries + 1
                      /\ UNCHANGED <<buffer, lines>>
  /\ UNCHANGED <<round, stream>>

\* The columns of the line are what workload_func looks for, or not.
Parse ==
  /\ at = "parse"
  /\ at' = "away" \/ Throw
  /\ UNCHANGED <<round, tries, pid, stream, buffer, kids, lines>>

Running(c) == kids[c].status = "running"

\* What a child does: write, close its standard output, and exit with a code
\* that is valid or not.
Write(c) ==
  /\ Running(c) /\ kids[c].open
  /\ SumFunction([d \in DOMAIN kids |-> Len(kids[d].out)]) < MaxChunks
  /\ \E k \in Kinds : kids' = [kids EXCEPT ![c].out = Append(@, k)]
  /\ UNCHANGED <<at, round, tries, pid, stream, buffer, lines>>

Close(c) ==
  /\ Running(c) /\ kids[c].open
  /\ kids' = [kids EXCEPT ![c].open = FALSE]
  /\ UNCHANGED <<at, round, tries, pid, stream, buffer, lines>>

Exit(c) ==
  /\ Running(c)
  /\ \E s \in {"valid", "invalid"} :
       kids' = [kids EXCEPT ![c].open = FALSE, ![c].status = s]
  /\ UNCHANGED <<at, round, tries, pid, stream, buffer, lines>>

Pilot ==
  \/ GiveUp \/ Launch \/ Keep \/ TakeLine \/ Read \/ ReachEnd \/ Reap \/ Parse

Children == \E c \in DOMAIN kids : Write(c) \/ Close(c) \/ Exit(c)

\* workload_func is not called again once it failed.
Next == (at # "failed" /\ Begin) \/ Pilot \/ Children

Spec == Init /\ [][Next]_vars
-----------------------------------------------------------------------------
(* The types of the client runner.                                         *)
TypeOK ==
  /\ at \in {"away", "failed", "try", "scan", "reap", "parse"}
  /\ round \in Nat
  /\ tries \in 0..MaxTries
  /\ {pid, stream} \subseteq 0..Len(kids)
  /\ buffer \in Seq([kid : Nat, n : Nat, kind : Kinds])
  /\ kids \in Seq([round : Nat, out : Seq(Kinds), read : Nat, open : BOOLEAN,
                   status : {"running", "valid", "invalid"},
                   reaped : BOOLEAN])
  /\ lines \in Seq(Seq([kid : Nat, n : Nat, kind : Kinds]))

(* No zombies and no second client: a child that was not waited for is the *)
(* one in g_client_pid.                                                    *)
OneChild == \A c \in DOMAIN kids : ~kids[c].reaped => c = pid

(* Output is read only from the open stream of the child in g_client_pid,  *)
(* and only that child is waited for: never from a NULL stream, though a   *)
(* failed round leaves the pid of its child behind.                        *)
StreamOpen ==
  /\ at = "scan" => pid # 0 /\ stream = pid
  /\ at = "reap" => pid # 0 /\ ~kids[pid].reaped

EmptyLine(c, i) ==
  /\ kids[c].out[i] = "newline"
  /\ i > 1 => kids[c].out[i - 1] # "part"

\* The chunks by line and place in it, the buffer as the start of a line.
Dealt ==
  LET all == Append(lines, buffer)
      places == UNION {{j} \X DOMAIN all[j] : j \in DOMAIN all}
  IN [p \in places |-> all[p[1]][p[2]]]

Earlier(p, q) == p[1] < q[1] \/ (p[1] = q[1] /\ p[2] < q[2])

WasRead(x) ==
  /\ x.kid \in DOMAIN kids /\ x.n \in 1..kids[x.kid].read
  /\ x.kind = kids[x.kid].out[x.n]

NoneInvented ==
  \A p \in DOMAIN Dealt :
    LET x == Dealt[p]
    IN WasRead(x) /\ (p[1] \in DOMAIN lines => ~EmptyLine(x.kid, x.n))

NoneMissing ==
  \A c \in DOMAIN kids : \A i \in 1..kids[c].read :
    EmptyLine(c, i) \/ \E p \in DOMAIN Dealt : Dealt[p].kid = c /\ Dealt[p].n = i

InOrder ==
  \A p, q \in DOMAIN Dealt :
    Earlier(p, q) => LET x == Dealt[p]  y == Dealt[q]
                     IN Earlier(<<x.kid, x.n>>, <<y.kid, y.n>>)

(* Rounds get the output of the children line by line: nothing that was    *)
(* read is lost, used twice or out of order, but for empty lines, which no *)
(* round gets.                                                             *)
NothingLost == NoneInvented /\ NoneMissing /\ InOrder

Whole(l) ==
  /\ l # <<>> /\ l[1].kind # "newline"
  /\ \A i \in 1..(Len(l) - 1) :
       l[i].kind = "part" /\ l[i + 1].kid = l[i].kid /\ l[i + 1].n = l[i].n + 1
  /\ LET e == Last(l)
     IN e.kind = "part" => /\ kids[e.kid].reaped
                           /\ e.n = Len(kids[e.kid].out)

(* What a round gets is one line, not an empty one, of a single child; it  *)
(* may lack its newline only when the child's output ends there.           *)
WholeLines == \A l \in ToSet(lines) : Whole(l)
=============================================================================

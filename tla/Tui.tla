---------------------------------- MODULE Tui ----------------------------------
(* pilot_run_workload_tui: the main thread shows the text user interface and waits
   for keys, while a thread of WorkloadRunner runs the session and has what it logs
   and finds out shown by the same PilotTUI, under its lock. The session is what
   SessionContract promises of it; a round logs a little and shows a summary. *)
EXTENDS Naturals

CONSTANTS
  MaxRounds, \* bound on the rounds of the session
  MaxKeys    \* bound on the keys that are pressed

ASSUME TuiAssumption == MaxRounds \in Nat /\ MaxKeys \in Nat

VARIABLES
  main,      \* where pilot_run_workload_tui is
  thread,    \* where the WorkloadRunner's thread is
  inserts,   \* the insertions it has still to do before it goes on
  lock,      \* who holds lock_
  alive,     \* whether the PilotTUI exists
  key, keys, \* the key that waits to be read, and how many were pressed
  rounds, stop, limited,
  result,    \* of the session
  returned   \* what pilot_run_workload_tui returned

tui == <<main, thread, inserts, lock, alive, key, keys, rounds, stop, limited, result, returned>>

Results == {"OK", "ERR_WL_FAIL", "ERR_STOPPED_BY_REQUEST", "ERR_STOPPED_BY_DURATION_LIMIT"}

\* What a session may end with by now.
Endings == {r \in Results : /\ r = "ERR_STOPPED_BY_REQUEST" => stop
                            /\ r = "ERR_STOPPED_BY_DURATION_LIMIT" => limited}

TuiInit ==
  /\ main = "away" /\ thread = "none" /\ inserts = 0 /\ lock = "free" /\ alive = FALSE
  /\ key = "none" /\ keys = 0 /\ rounds = 0 /\ stop = FALSE /\ limited = FALSE
  /\ result = "none" /\ returned = "none"

\* Without a terminal that does ncurses the session runs in the main thread.
Construct ==
  /\ main = "begin"
  /\ \/ main' = "start" /\ alive' = TRUE
     \/ main' = "plain" /\ UNCHANGED alive
  /\ UNCHANGED <<thread, inserts, lock, key, keys, rounds, stop, limited, result, returned>>

RunPlain ==
  /\ main = "plain" /\ main' = "back"
  /\ result' \in Endings /\ returned' = result'
  /\ UNCHANGED <<thread, inserts, lock, alive, key, keys, rounds, stop, limited>>

\* The thread begins with "Running benchmark ..." and the end of the line.
Start ==
  /\ main = "start" /\ main' = "loop"
  /\ thread = "none" /\ thread' = "session" /\ inserts' = 2
  /\ UNCHANGED <<lock, alive, key, keys, rounds, stop, limited, result, returned>>

\* Mutant: the lock is held while waiting for a key.
AwaitLocked ==
  /\ main = "loop" /\ main' = "select"
  /\ lock = "free" /\ lock' = "main"
  /\ UNCHANGED <<thread, inserts, alive, key, keys, rounds, stop, limited, result, returned>>

\* select(), which a signal only makes it call again.
Await ==
  /\ main = "loop" /\ main' = "select"
  /\ UNCHANGED <<thread, inserts, lock, alive, key, keys, rounds, stop, limited, result, returned>>

\* There is a key, read under the lock, which nobody else needs the main thread to let go of.
GetKey ==
  /\ main = "select" /\ key # "none" /\ lock # "thread"
  /\ main' = IF key = "quit" THEN "join" ELSE "loop"
  /\ key' = "none" /\ lock' = "free"
  /\ UNCHANGED <<thread, inserts, alive, keys, rounds, stop, limited, result, returned>>

\* Mutant: the thread is not waited for.
JoinAnyway ==
  /\ main = "join" /\ main' = "back"
  /\ returned' = result /\ alive' = FALSE
  /\ UNCHANGED <<thread, inserts, lock, key, keys, rounds, stop, limited, result>>

\* join(), and the result the thread has left; then the PilotTUI goes.
Join ==
  /\ main = "join" /\ thread = "gone" /\ main' = "back"
  /\ returned' = result /\ alive' = FALSE
  /\ UNCHANGED <<thread, inserts, lock, key, keys, rounds, stop, limited, result>>

\* An operator<<: the lock is taken for each insertion.
Insert ==
  /\ inserts > 0
  /\ \/ lock = "free" /\ lock' = "thread" /\ UNCHANGED inserts
     \/ lock = "thread" /\ lock' = "free" /\ inserts' = inserts - 1
  /\ UNCHANGED <<main, thread, alive, key, keys, rounds, stop, limited, result, returned>>

\* A round, whose last insertion is the summary.
Round ==
  /\ thread = "session" /\ inserts = 0 /\ rounds < MaxRounds
  /\ rounds' = rounds + 1 /\ inserts' \in {2, 3}
  /\ UNCHANGED <<main, thread, lock, alive, key, keys, stop, limited, result, returned>>

\* The end of the session is told on the screen: two lines, or an error in three parts.
EndSession ==
  /\ thread = "session" /\ inserts = 0
  /\ result' \in Endings /\ thread' = "report" /\ inserts' = 3
  /\ UNCHANGED <<main, lock, alive, key, keys, rounds, stop, limited, returned>>

EndThread ==
  /\ thread = "report" /\ inserts = 0 /\ thread' = "gone"
  /\ UNCHANGED <<main, inserts, lock, alive, key, keys, rounds, stop, limited, result, returned>>

Thread == Insert \/ Round \/ EndSession \/ EndThread

\* Someone at the keyboard.
Press ==
  /\ alive /\ key = "none" /\ keys < MaxKeys
  /\ key' \in {"quit", "other"} /\ keys' = keys + 1
  /\ UNCHANGED <<main, thread, inserts, lock, alive, rounds, stop, limited, result, returned>>

MainSteps == Construct \/ RunPlain \/ Start \/ Await \/ GetKey \/ Join
-----------------------------------------------------------------------------
(* The PilotTUI goes, and pilot_run_workload_tui returns, only when the runner's
   thread has ended: the thread always finds the PilotTUI it writes to, and the
   session has a result to return. *)
JoinedFirst == /\ thread \notin {"none", "gone"} => alive
               /\ main = "back" => returned \in Results /\ returned = result
=============================================================================

------------------------------ MODULE RunProofs ------------------------------
(***************************************************************************)
(* What is proved of the client runner and of the run_program command, for *)
(* any number of rounds and any output of the client.                      *)
(***************************************************************************)
EXTENDS RunProgram, SequenceTheorems, TLAPS

Chunk == [kid : Nat, n : Nat, kind : Kinds]

Child == [round : Nat, out : Seq(Kinds), read : Nat, open : BOOLEAN,
          status : {"running", "valid", "invalid"}, reaped : BOOLEAN]

\* The pid of the runner: unless a round failed it is 0, or that of a child
\* that was not waited for and whose stream is the open one.  Children run
\* only while tries are left.
PidSound ==
  /\ at \in {"away", "try", "scan", "parse"} /\ pid # 0 =>
       stream = pid /\ ~kids[pid].reaped
  /\ at \in {"scan", "reap"} => tries < MaxTries

\* A child that was waited for has ended.
ReapedOver == \A c \in DOMAIN kids : kids[c].reaped => ~Running(c)

\* The buffer holds what was read last from the child of that pid, and only
\* the last chunk of it can have a newline, as fgets stops there.
BufferSound ==
  /\ buffer # <<>> => pid # 0
  /\ \A i \in DOMAIN buffer :
       /\ buffer[i].kid = pid
       /\ buffer[i].n = i + (kids[pid].read - Len(buffer))
       /\ i # Len(buffer) => buffer[i].kind = "part"

\* No more is read than was written, and the end is reached only when all was.
ReadSound ==
  /\ \A c \in DOMAIN kids : kids[c].read <= Len(kids[c].out)
  /\ at = "reap" => /\ Newlines = {} /\ ~kids[pid].open
                    /\ kids[pid].read = Len(kids[pid].out)

ClientInv ==
  /\ TypeOK /\ OneChild /\ StreamOpen /\ PidSound /\ ReapedOver
  /\ BufferSound /\ ReadSound

LEMMA ClientStart == Init => ClientInv
<1> SUFFICES ASSUME Init PROVE ClientInv
  OBVIOUS
<1>1. kids = <<>> /\ buffer = <<>> /\ lines = <<>> /\ DOMAIN kids = {}
  BY DEF Init
<1>2. kids \in Seq(Child) /\ buffer \in Seq(Chunk) /\ lines \in Seq(Seq(Chunk))
  BY <1>1
<1>3. TypeOK
  BY <1>1, <1>2 DEF Init, TypeOK, Chunk, Child, MaxTries
<1> QED
  BY <1>1, <1>3, EmptySeq DEF Init, ClientInv, OneChild, StreamOpen, PidSound, ReapedOver,
              BufferSound, ReadSound

\* A step that changes one child leaves the others and their number alone.
LEMMA ChildChanged ==
  ASSUME kids \in Seq(Child), NEW c \in DOMAIN kids, NEW k \in Child,
         kids' = [kids EXCEPT ![c] = k]
  PROVE  /\ kids' \in Seq(Child) /\ Len(kids') = Len(kids)
         /\ DOMAIN kids' = DOMAIN kids
         /\ kids'[c] = k
         /\ \A d \in DOMAIN kids : d # c => kids'[d] = kids[d]
<1>1. c \in 1..Len(kids)
  OBVIOUS
<1> QED
  BY <1>1, ExceptSeq

\* When the buffer has a newline it is one line, and that is all taken.
LEMMA LineTaken ==
  ASSUME ClientInv, TakeLine
  PROVE  /\ Len(buffer) \in DOMAIN buffer /\ buffer[Len(buffer)].kind # "part"
         /\ buffer' = <<>>
         /\ \/ /\ UNCHANGED <<at, lines>>
               /\ Len(buffer) = 1 /\ buffer[1].kind = "newline"
            \/ /\ at' = "parse" /\ lines' = Append(lines, buffer)
               /\ buffer[1].kind # "newline"
<1>1. buffer \in Seq(Chunk)
  BY DEF ClientInv, TypeOK, Chunk
<1>2. Newlines = {Len(buffer)} /\ Len(buffer) \in DOMAIN buffer
  BY <1>1 DEF ClientInv, BufferSound, TakeLine, Newlines
<1>3. Min(Newlines) = Len(buffer)
  BY <1>1, <1>2 DEF Min
<1>4. SubSeq(buffer, 1, Len(buffer)) = buffer
  BY <1>1, SubSeqFull
<1>5. SubSeq(buffer, Len(buffer) + 1, Len(buffer)) = <<>>
  BY <1>1, SubSeqEmpty
<1>6. buffer[Len(buffer)].kind # "part"
  BY <1>2 DEF Newlines
<1>7. CASE Len(buffer) = 1 /\ buffer[1].kind = "newline"
  BY <1>2, <1>3, <1>5, <1>6, <1>7 DEF TakeLine
<1>8. CASE ~(Len(buffer) = 1 /\ buffer[1].kind = "newline")
  <2>1. buffer[1].kind # "newline"
    <3>1. CASE Len(buffer) = 1
      BY <3>1, <1>8
    <3>2. CASE Len(buffer) # 1
      <4>1. 1 \in DOMAIN buffer /\ 1 # Len(buffer)
        BY <3>2, <1>1, <1>2
      <4> QED BY <4>1 DEF ClientInv, BufferSound
    <3> QED BY <3>1, <3>2
  <2> QED BY <1>2, <1>3, <1>4, <1>5, <1>6, <1>8, <2>1 DEF TakeLine
<1> QED
  BY <1>7, <1>8

Typed ==
  /\ kids \in Seq(Child) /\ buffer \in Seq(Chunk) /\ lines \in Seq(Seq(Chunk))
  /\ at \in {"away", "failed", "try", "scan", "reap", "parse"}
  /\ round \in Nat /\ tries \in 0..MaxTries
  /\ {pid, stream} \subseteq 0..Len(kids)

LEMMA TypedOK == TypeOK <=> Typed
  BY DEF TypeOK, Typed, Chunk, Child

\* What the steps do to the children: one is added, or one of them changed.
LEMMA Launched ==
  ASSUME ClientInv, Launch
  PROVE  \/ at' = "failed" /\ UNCHANGED <<kids, pid, stream>>
         \/ /\ at' = "scan" /\ pid' = Len(kids) + 1 /\ stream' = Len(kids) + 1
            /\ kids' \in Seq(Child) /\ Len(kids') = Len(kids) + 1
            /\ kids'[Len(kids) + 1] = Kid(round)
            /\ \A d \in DOMAIN kids : kids'[d] = kids[d]
<1> DEFINE more == Append(kids, Kid(round))
<1>1. kids \in Seq(Child) /\ round \in Nat
  BY TypedOK DEF ClientInv, Typed
<1>2. Kid(round) \in Child
  BY <1>1, EmptySeq DEF Kid, Child
<1>3. /\ more \in Seq(Child) /\ Len(more) = Len(kids) + 1
      /\ more[Len(kids) + 1] = Kid(round)
      /\ \A d \in 1..Len(kids) : more[d] = kids[d]
  BY <1>1, <1>2, AppendProperties
<1>4. \/ at' = "failed" /\ UNCHANGED <<kids, pid, stream>>
      \/ /\ at' = "scan" /\ kids' = more
         /\ pid' = Len(kids') /\ stream' = Len(kids')
  BY DEF Launch, Throw
<1> HIDE DEF more
<1> QED BY <1>1, <1>3, <1>4

LEMMA OneRead ==
  ASSUME ClientInv, Read
  PROVE  /\ pid \in DOMAIN kids /\ stream = pid
         /\ kids[pid].read < Len(kids[pid].out)
         /\ [kids[pid] EXCEPT !.read = @ + 1] \in Child
         /\ kids' = [kids EXCEPT ![pid] = [kids[pid] EXCEPT !.read = @ + 1]]
         /\ buffer' = Append(buffer, [kid |-> pid, n |-> kids[pid].read + 1,
                                      kind |-> kids[pid].out[kids[pid].read + 1]])
         /\ [kid |-> pid, n |-> kids[pid].read + 1,
             kind |-> kids[pid].out[kids[pid].read + 1]] \in Chunk
<1>1. pid \in DOMAIN kids /\ stream = pid /\ kids[pid] \in Child
  BY TypedOK DEF Read, ClientInv, Typed, StreamOpen
<1>2. kids[pid].read < Len(kids[pid].out)
  BY <1>1 DEF Read, Unread, Child
<1>3. [kids[pid] EXCEPT !.read = @ + 1] \in Child
  BY <1>1 DEF Child
<1>4. kids' = [kids EXCEPT ![pid] = [kids[pid] EXCEPT !.read = @ + 1]]
  BY <1>1 DEF Read
<1> DEFINE kind == kids[pid].out[kids[pid].read + 1]
<1>5. kind \in Kinds /\ kids[pid].read + 1 \in Nat /\ pid \in Nat
  BY <1>1, <1>2 DEF Child
<1>6. buffer' = Append(buffer, [kid |-> pid, n |-> kids[pid].read + 1, kind |-> kind])
  BY <1>1 DEF Read
<1> HIDE DEF kind
<1>7. [kid |-> pid, n |-> kids[pid].read + 1, kind |-> kind] \in Chunk
  BY <1>5 DEF Chunk
<1> QED
  BY <1>1, <1>2, <1>3, <1>4, <1>6, <1>7 DEF kind

LEMMA OneReaped ==
  ASSUME ClientInv, Reap
  PROVE  /\ pid \in DOMAIN kids /\ ~Running(pid)
         /\ [kids[pid] EXCEPT !.reaped = TRUE] \in Child
         /\ kids' = [kids EXCEPT ![pid] = [kids[pid] EXCEPT !.reaped = TRUE]]
<1>1. pid \in DOMAIN kids /\ kids[pid] \in Child
  BY TypedOK DEF Reap, ClientInv, Typed, StreamOpen
<1>2. [kids[pid] EXCEPT !.reaped = TRUE] \in Child
  BY <1>1 DEF Child
<1> QED
  BY <1>1, <1>2 DEF Reap, Running

\* A child only writes to its end, only while its output is open.
LEMMA OneChanged ==
  ASSUME ClientInv, Children
  PROVE  \E c \in DOMAIN kids, k \in Child :
           /\ Running(c) /\ kids' = [kids EXCEPT ![c] = k]
           /\ k.reaped = kids[c].reaped /\ k.read = kids[c].read
           /\ \/ k.out = kids[c].out /\ ~k.open
              \/ k.open /\ kids[c].open /\ Len(k.out) >= Len(kids[c].out)
           /\ \A i \in 1..Len(kids[c].out) : k.out[i] = kids[c].out[i]
           /\ UNCHANGED <<at, round, tries, pid, stream, buffer, lines>>
<1>1. PICK c \in DOMAIN kids : Write(c) \/ Close(c) \/ Exit(c)
  BY DEF Children
<1>2. kids[c] \in Child
  BY <1>1, TypedOK DEF ClientInv, Typed
<1>3. Running(c) /\ UNCHANGED <<at, round, tries, pid, stream, buffer, lines>>
  BY <1>1 DEF Write, Close, Exit
<1>4. CASE Write(c)
  <2>1. PICK kind \in Kinds :
          kids' = [kids EXCEPT ![c] = [kids[c] EXCEPT !.out = Append(@, kind)]]
    BY <1>4 DEF Write
  <2> DEFINE k == [kids[c] EXCEPT !.out = Append(@, kind)]
  <2>2. /\ Append(kids[c].out, kind) \in Seq(Kinds)
        /\ Len(Append(kids[c].out, kind)) >= Len(kids[c].out)
        /\ \A i \in 1..Len(kids[c].out) : Append(kids[c].out, kind)[i] = kids[c].out[i]
    BY <1>2, AppendProperties DEF Child
  <2>3. k \in Child /\ k.reaped = kids[c].reaped /\ k.read = kids[c].read
    BY <1>2, <2>2 DEF Child
  <2>4. /\ k.open /\ kids[c].open /\ Len(k.out) >= Len(kids[c].out)
        /\ \A i \in 1..Len(kids[c].out) : k.out[i] = kids[c].out[i]
    BY <1>2, <1>4, <2>2 DEF Child, Write
  <2> QED BY <1>1, <1>3, <2>1, <2>3, <2>4
<1>5. CASE Close(c)
  <2> DEFINE k == [kids[c] EXCEPT !.open = FALSE]
  <2>1. kids' = [kids EXCEPT ![c] = k]
    BY <1>5 DEF Close
  <2>2. /\ k \in Child /\ k.reaped = kids[c].reaped /\ k.read = kids[c].read
        /\ k.out = kids[c].out /\ ~k.open
    BY <1>2 DEF Child
  <2> QED BY <1>1, <1>3, <2>1, <2>2
<1>6. CASE Exit(c)
  <2>1. PICK s \in {"valid", "invalid"} :
          kids' = [kids EXCEPT ![c] = [kids[c] EXCEPT !.open = FALSE, !.status = s]]
    BY <1>6 DEF Exit
  <2> DEFINE k == [kids[c] EXCEPT !.open = FALSE, !.status = s]
  <2>2. /\ k \in Child /\ k.reaped = kids[c].reaped /\ k.read = kids[c].read
        /\ k.out = kids[c].out /\ ~k.open
    BY <1>2 DEF Child
  <2> QED BY <1>1, <1>3, <2>1, <2>2
<1> QED
  BY <1>1, <1>4, <1>5, <1>6

LEMMA TypeStep == ClientInv /\ [Next]_vars => TypeOK'
<1> SUFFICES ASSUME ClientInv, [Next]_vars PROVE Typed'
  BY TypedOK, PTL
<1>t. Typed
  BY TypedOK DEF ClientInv
<1> USE DEF Typed
<1>1. CASE Begin
  BY <1>1, <1>t DEF Begin, MaxTries
<1>2. CASE GiveUp
  BY <1>2, <1>t DEF GiveUp, Throw
<1>3. CASE Launch
  <2>1. UNCHANGED <<round, tries, buffer, lines>>
    BY <1>3 DEF Launch
  <2> QED BY <1>3, <1>t, <2>1, Launched
<1>4. CASE Keep
  BY <1>4, <1>t DEF Keep
<1>5. CASE TakeLine
  <2>1. Append(lines, buffer) \in Seq(Seq(Chunk))
    BY <1>t, AppendProperties
  <2>2. UNCHANGED <<round, tries, pid, stream, kids>>
    BY <1>5 DEF TakeLine
  <2> QED BY <1>5, <1>t, <2>1, <2>2, LineTaken, EmptySeq
<1>6. CASE Read
  <2>1. kids' \in Seq(Child) /\ Len(kids') = Len(kids)
    BY <1>6, <1>t, OneRead, ChildChanged
  <2>2. PICK x \in Chunk : buffer' = Append(buffer, x)
    BY <1>6, OneRead
  <2>3. buffer' \in Seq(Chunk)
    BY <1>t, <2>2, AppendProperties
  <2> QED BY <1>6, <1>t, <2>1, <2>3 DEF Read
<1>7. CASE ReachEnd
  BY <1>7, <1>t DEF ReachEnd
<1>8. CASE Reap
  <2> DEFINE more == Append(lines, buffer)
  <2>1. kids' \in Seq(Child) /\ Len(kids') = Len(kids)
    BY <1>8, <1>t, OneReaped, ChildChanged
  <2>2. more \in Seq(Seq(Chunk))
    BY <1>t, AppendProperties
  <2>3. tries + 1 \in 0..MaxTries
    BY <1>8, <1>t DEF Reap, ClientInv, PidSound, MaxTries
  <2>4. /\ UNCHANGED <<round, stream>>
        /\ pid' \in {pid, 0} /\ tries' \in {tries, tries + 1}
        /\ buffer' \in {buffer, <<>>} /\ lines' \in {lines, more}
        /\ at' \in {"failed", "parse", "try"}
    BY <1>8 DEF Reap, Throw
  <2> HIDE DEF more
  <2>5. buffer' \in Seq(Chunk) /\ lines' \in Seq(Seq(Chunk))
    BY <1>t, <2>2, <2>4, EmptySeq
  <2>6. round' \in Nat /\ tries' \in 0..MaxTries
    BY <1>t, <2>3, <2>4
  <2>7. {pid', stream'} \subseteq 0..Len(kids')
    BY <1>t, <2>1, <2>4
  <2> QED BY <2>1, <2>4, <2>5, <2>6, <2>7
<1>9. CASE Parse
  BY <1>9, <1>t DEF Parse, Throw
<1>10. CASE Children
  BY <1>10, <1>t, OneChanged, ChildChanged
<1>11. CASE UNCHANGED vars
  BY <1>11, <1>t DEF vars
<1> QED
  BY <1>1, <1>2, <1>3, <1>4, <1>5, <1>6, <1>7, <1>8, <1>9, <1>10, <1>11
     DEF Next, Pilot

\* No step leaves two children, or the pid of one that is gone, behind.
LEMMA PidStep ==
  ClientInv /\ [Next]_vars => OneChild' /\ StreamOpen' /\ PidSound' /\ ReapedOver'
<1> SUFFICES ASSUME ClientInv, [Next]_vars
             PROVE  OneChild' /\ StreamOpen' /\ PidSound' /\ ReapedOver'
  OBVIOUS
<1>t. Typed /\ OneChild /\ StreamOpen /\ PidSound /\ ReapedOver
  BY TypedOK DEF ClientInv
<1> USE DEF Typed, OneChild, StreamOpen, PidSound, ReapedOver, Running
<1>1. CASE at # "failed" /\ Begin
  BY <1>1, <1>t DEF Begin, MaxTries
<1>2. CASE GiveUp
  BY <1>2, <1>t DEF GiveUp, Throw
<1>3. CASE Launch
  <2>1. pid = 0 /\ tries < MaxTries /\ tries' = tries
    BY <1>3 DEF Launch
  <2>2. CASE at' = "failed" /\ UNCHANGED <<kids, pid, stream>>
    BY <1>t, <2>2
  <2>3. CASE ~(at' = "failed" /\ UNCHANGED <<kids, pid, stream>>)
    <3>1. ~Kid(round).reaped
      BY DEF Kid
    <3>a. /\ at' = "scan" /\ pid' = Len(kids) + 1 /\ stream' = pid'
          /\ kids' \in Seq(Child) /\ Len(kids') = Len(kids) + 1
          /\ kids'[pid'] = Kid(round)
          /\ \A d \in DOMAIN kids : kids'[d] = kids[d]
      BY <1>3, <2>3, Launched
    <3>b. DOMAIN kids = 1..Len(kids) /\ DOMAIN kids' = 1..Len(kids') /\ Len(kids) \in Nat
      BY <1>t, <3>a
    <3>2. /\ at' = "scan" /\ pid' = Len(kids) + 1 /\ stream' = pid'
          /\ DOMAIN kids' = DOMAIN kids \cup {pid'} /\ kids'[pid'] = Kid(round)
          /\ \A d \in DOMAIN kids : kids'[d] = kids[d]
          /\ pid' # 0 /\ pid' \notin DOMAIN kids
      BY <3>a, <3>b
    <3>3. \A d \in DOMAIN kids : kids[d].reaped /\ ~Running(d)
      BY <1>t, <2>1
    <3>4. OneChild'
      BY <3>2, <3>3
    <3>5. ReapedOver'
      BY <3>1, <3>2, <3>3
    <3> QED BY <2>1, <3>1, <3>2, <3>4, <3>5
  <2> QED BY <2>2, <2>3
<1>4. CASE Keep
  BY <1>4, <1>t DEF Keep
<1>5. CASE TakeLine
  BY <1>5, <1>t DEF TakeLine
<1>6. CASE Read
  <2> DEFINE k == [kids[pid] EXCEPT !.read = @ + 1]
  <2>1. k.reaped = kids[pid].reaped /\ k.status = kids[pid].status
    BY <1>6, <1>t, OneRead DEF Child
  <2> HIDE DEF k
  <2>2. /\ DOMAIN kids' = DOMAIN kids /\ kids'[pid] = k
        /\ \A d \in DOMAIN kids : d # pid => kids'[d] = kids[d]
    BY <1>6, <1>t, OneRead, ChildChanged DEF k
  <2> QED BY <1>6, <1>t, <2>1, <2>2 DEF Read
<1>7. CASE ReachEnd
  BY <1>7, <1>t DEF ReachEnd
<1>8. CASE Reap
  <2> DEFINE k == [kids[pid] EXCEPT !.reaped = TRUE]
  <2>1. k.reaped /\ k.status = kids[pid].status
    BY <1>8, <1>t, OneReaped DEF Child
  <2> HIDE DEF k
  <2>2. /\ DOMAIN kids' = DOMAIN kids /\ kids'[pid] = k
        /\ \A d \in DOMAIN kids : d # pid => kids'[d] = kids[d]
    BY <1>8, <1>t, OneReaped, ChildChanged DEF k
  <2>3. \/ at' = "failed" /\ pid' = pid
        \/ at' \in {"parse", "try"} /\ pid' = 0
    BY <1>8 DEF Reap, Throw
  <2> QED BY <1>8, <1>t, <2>1, <2>2, <2>3, OneReaped
<1>9. CASE Parse
  BY <1>9, <1>t DEF Parse, Throw
<1>10. CASE Children
  <2>1. PICK c \in DOMAIN kids, k \in Child :
          /\ Running(c) /\ kids' = [kids EXCEPT ![c] = k]
          /\ k.reaped = kids[c].reaped
          /\ UNCHANGED <<at, round, tries, pid, stream, buffer, lines>>
    BY <1>10, OneChanged
  <2>2. /\ DOMAIN kids' = DOMAIN kids /\ kids'[c] = k
        /\ \A d \in DOMAIN kids : d # c => kids'[d] = kids[d]
    BY <1>t, <2>1, ChildChanged
  <2> QED BY <1>t, <2>1, <2>2
<1>11. CASE UNCHANGED vars
  BY <1>11, <1>t DEF vars
<1> QED
  BY <1>1, <1>2, <1>3, <1>4, <1>5, <1>6, <1>7, <1>8, <1>9, <1>10, <1>11
     DEF Next, Pilot

\* The buffer goes on where the child's output was read up to.
LEMMA BufferStep == ClientInv /\ [Next]_vars => BufferSound' /\ ReadSound'
<1> SUFFICES ASSUME ClientInv, [Next]_vars PROVE BufferSound' /\ ReadSound'
  OBVIOUS
<1>t. Typed /\ BufferSound /\ ReadSound
  BY TypedOK DEF ClientInv
<1>p. \A d \in DOMAIN kids : kids[d] \in Child
  BY <1>t DEF Typed
<1> USE DEF BufferSound, ReadSound, Newlines
<1>1. CASE Begin
  BY <1>1, <1>t DEF Begin
<1>2. CASE GiveUp
  BY <1>2, <1>t DEF GiveUp, Throw
<1>3. CASE Launch
  <2>1. buffer = <<>> /\ buffer' = buffer
    BY <1>3, <1>t DEF Launch
  <2>2. CASE at' = "failed" /\ UNCHANGED <<kids, pid, stream>>
    BY <1>t, <2>1, <2>2
  <2>3. CASE ~(at' = "failed" /\ UNCHANGED <<kids, pid, stream>>)
    <3>1. Kid(round).read = 0 /\ Len(Kid(round).out) = 0
      BY DEF Kid
    <3>2. /\ at' = "scan" /\ kids' \in Seq(Child) /\ Len(kids') = Len(kids) + 1
          /\ kids'[Len(kids) + 1] = Kid(round)
          /\ \A d \in DOMAIN kids : kids'[d] = kids[d]
      BY <1>3, <2>3, Launched
    <3>3. \A d \in DOMAIN kids' : d \in DOMAIN kids \/ d = Len(kids) + 1
      BY <1>t, <3>2 DEF Typed
    <3>4. \A d \in DOMAIN kids' : kids'[d].read <= Len(kids'[d].out)
      BY <1>t, <3>1, <3>2, <3>3
    <3> QED BY <2>1, <3>2, <3>4
  <2> QED BY <2>2, <2>3
<1>4. CASE Keep
  BY <1>4, <1>t DEF Keep
<1>5. CASE TakeLine
  <2>1. UNCHANGED kids /\ at = "scan"
    BY <1>5 DEF TakeLine
  <2> QED BY <1>5, <1>t, <2>1, LineTaken
<1>6. CASE Read
  <2> DEFINE k == [kids[pid] EXCEPT !.read = @ + 1]
  <2>1. k.read = kids[pid].read + 1 /\ k.out = kids[pid].out /\ kids[pid].read \in Nat
    BY <1>6, <1>p, OneRead DEF Child
  <2> HIDE DEF k
  <2>2. /\ DOMAIN kids' = DOMAIN kids /\ kids'[pid] = k
        /\ \A d \in DOMAIN kids : d # pid => kids'[d] = kids[d]
    BY <1>6, <1>t, OneRead, ChildChanged DEF k, Typed
  <2>3. PICK x \in Chunk : /\ buffer' = Append(buffer, x)
                           /\ x.kid = pid /\ x.n = k.read
    BY <1>6, <2>1, OneRead DEF k
  <2>4. /\ buffer' \in Seq(Chunk) /\ Len(buffer') = Len(buffer) + 1
        /\ \A i \in 1..Len(buffer) : buffer'[i] = buffer[i]
        /\ buffer'[Len(buffer) + 1] = x
    BY <1>t, <2>3, AppendProperties DEF Typed
  <2>5. Newlines = {} /\ pid # 0 /\ pid' = pid /\ at' = "scan"
    BY <1>6, OneRead, <1>t DEF Read, Typed
  <2>6. BufferSound'
    <3>1. ASSUME NEW i \in DOMAIN buffer'
          PROVE  /\ buffer'[i].kid = pid'
                 /\ buffer'[i].n = i + (kids'[pid'].read - Len(buffer'))
                 /\ i # Len(buffer') => buffer'[i].kind = "part"
      <4>1. i \in 1..Len(buffer) \/ i = Len(buffer) + 1
        BY <2>4
      <4>2. CASE i \in 1..Len(buffer)
        <5>1. /\ buffer'[i] = buffer[i] /\ buffer[i].kid = pid /\ i # Len(buffer')
              /\ i # Len(buffer) => buffer[i].kind = "part"
              /\ buffer[i].n = i + (kids[pid].read - Len(buffer))
          BY <4>2, <1>t, <2>4 DEF Typed
        <5>2. buffer[i].kind = "part"
          BY <4>2, <2>5, <1>t DEF Typed
        <5>3. kids'[pid'].read = kids[pid].read + 1 /\ Len(buffer) \in Nat
          BY <2>1, <2>2, <2>5, <1>t DEF Typed
        <5>4. kids'[pid'].read - Len(buffer') = kids[pid].read - Len(buffer)
          <6>1. ASSUME NEW r \in Nat, NEW l \in Nat PROVE (r + 1) - (l + 1) = r - l
            OBVIOUS
          <6> QED BY <6>1, <5>3, <2>1, <2>4
        <5> QED BY <5>1, <5>2, <5>4, <2>5
      <4>3. CASE i = Len(buffer) + 1
        <5>1. buffer'[i] = x /\ i = Len(buffer') /\ i \in Nat
          BY <4>3, <1>t, <2>4 DEF Typed
        <5>2. kids'[pid'].read \in Nat /\ x.n = kids'[pid'].read /\ x.kid = pid'
          BY <2>1, <2>2, <2>3, <2>5
        <5> QED BY <5>1, <5>2
      <4> QED BY <4>1, <4>2, <4>3
    <3> QED BY <2>5, <3>1
  <2>7. ReadSound'
    <3>1. k.read <= Len(k.out)
      BY <1>6, <1>p, <2>1, OneRead DEF Child
    <3> QED BY <1>t, <2>2, <2>5, <3>1
  <2> QED BY <2>6, <2>7
<1>7. CASE ReachEnd
  <2>1. pid = stream /\ pid \in DOMAIN kids /\ kids[pid] \in Child
    BY <1>7, <1>t, <1>p DEF ReachEnd, ClientInv, StreamOpen, Typed
  <2>2. kids[pid].read = Len(kids[pid].out)
    BY <1>7, <1>t, <2>1 DEF ReachEnd, Unread, Child
  <2> QED BY <1>7, <1>t, <2>1, <2>2 DEF ReachEnd
<1>8. CASE Reap
  <2> DEFINE k == [kids[pid] EXCEPT !.reaped = TRUE]
  <2>1. k.read = kids[pid].read /\ k.out = kids[pid].out
    BY <1>8, <1>p, OneReaped DEF Child
  <2> HIDE DEF k
  <2>2. /\ DOMAIN kids' = DOMAIN kids /\ kids'[pid] = k
        /\ \A d \in DOMAIN kids : d # pid => kids'[d] = kids[d]
    BY <1>8, <1>t, OneReaped, ChildChanged DEF k, Typed
  <2>3. \/ at' = "failed" /\ pid' = pid /\ buffer' = buffer
        \/ at' \in {"parse", "try"} /\ buffer' = <<>>
    BY <1>8 DEF Reap, Throw
  <2>4. ReadSound'
    BY <1>t, <2>1, <2>2, <2>3
  <2>5. BufferSound'
    BY <1>8, <1>t, <2>1, <2>2, <2>3, OneReaped
  <2> QED BY <2>4, <2>5
<1>9. CASE Parse
  BY <1>9, <1>t DEF Parse, Throw
<1>10. CASE Children
  <2>1. PICK c \in DOMAIN kids, k \in Child :
          /\ kids' = [kids EXCEPT ![c] = k] /\ k.read = kids[c].read
          /\ \/ k.out = kids[c].out /\ ~k.open
             \/ k.open /\ kids[c].open /\ Len(k.out) >= Len(kids[c].out)
          /\ UNCHANGED <<at, round, tries, pid, stream, buffer, lines>>
    BY <1>10, OneChanged
  <2>2. /\ DOMAIN kids' = DOMAIN kids /\ kids'[c] = k
        /\ \A d \in DOMAIN kids : d # c => kids'[d] = kids[d]
    BY <1>t, <2>1, ChildChanged DEF Typed
  <2>3. k.read <= Len(k.out)
    BY <1>t, <1>p, <2>1 DEF Child
  <2>4. BufferSound'
    BY <1>t, <2>1, <2>2
  <2>5. ReadSound'
    BY <1>t, <2>1, <2>2, <2>3
  <2> QED BY <2>4, <2>5
<1>11. CASE UNCHANGED vars
  BY <1>11, <1>t DEF vars
<1> QED
  BY <1>1, <1>2, <1>3, <1>4, <1>5, <1>6, <1>7, <1>8, <1>9, <1>10, <1>11
     DEF Next, Pilot

\* What was reaped stays as it is.
LEMMA ReapedStays ==
  ClientInv /\ [Next]_vars =>
    \A c \in DOMAIN kids :
      /\ c \in DOMAIN kids'
      /\ kids[c].reaped => kids'[c].reaped /\ kids'[c].out = kids[c].out
<1> SUFFICES ASSUME ClientInv, [Next]_vars, NEW c \in DOMAIN kids
             PROVE  /\ c \in DOMAIN kids'
                    /\ kids[c].reaped => kids'[c].reaped /\ kids'[c].out = kids[c].out
  OBVIOUS
<1>t. kids \in Seq(Child) /\ kids[c] \in Child
  BY TypedOK DEF ClientInv, Typed
<1>1. CASE UNCHANGED kids
  BY <1>1
<1>2. CASE Launch
  BY <1>2, <1>t, Launched
<1>3. CASE Read
  <2> DEFINE k == [kids[pid] EXCEPT !.read = @ + 1]
  <2>1. pid \in DOMAIN kids /\ k.out = kids[pid].out /\ k.reaped = kids[pid].reaped
    BY <1>3, <1>t, OneRead DEF Child
  <2> HIDE DEF k
  <2>2. /\ DOMAIN kids' = DOMAIN kids /\ kids'[pid] = k
        /\ \A d \in DOMAIN kids : d # pid => kids'[d] = kids[d]
    BY <1>3, <1>t, OneRead, ChildChanged DEF k
  <2> QED BY <2>1, <2>2
<1>4. CASE Reap
  <2> DEFINE k == [kids[pid] EXCEPT !.reaped = TRUE]
  <2>1. pid \in DOMAIN kids /\ k.out = kids[pid].out /\ k.reaped
    BY <1>4, <1>t, OneReaped DEF Child
  <2> HIDE DEF k
  <2>2. /\ DOMAIN kids' = DOMAIN kids /\ kids'[pid] = k
        /\ \A d \in DOMAIN kids : d # pid => kids'[d] = kids[d]
    BY <1>4, <1>t, OneReaped, ChildChanged DEF k
  <2> QED BY <2>1, <2>2
<1>5. CASE Children
  <2>1. PICK d \in DOMAIN kids, k \in Child : Running(d) /\ kids' = [kids EXCEPT ![d] = k]
    BY <1>5, OneChanged
  <2>2. kids[c].reaped => c # d
    BY <2>1 DEF ClientInv, ReapedOver
  <2> QED BY <1>t, <2>1, <2>2, ChildChanged
<1> QED
  BY <1>1, <1>2, <1>3, <1>4, <1>5
     DEF Next, Pilot, vars, Begin, GiveUp, Keep, TakeLine, ReachEnd, Parse

\* The lines name children there are.
LinesSound == \A l \in ToSet(lines) : \A i \in DOMAIN l : l[i].kid \in DOMAIN kids

LEMMA MoreLines ==
  ASSUME lines \in Seq(Seq(Chunk)), buffer \in Seq(Chunk), lines' = Append(lines, buffer)
  PROVE  ToSet(lines') = ToSet(lines) \cup {buffer}
<1>1. /\ Append(lines, buffer) \in Seq(Seq(Chunk))
      /\ Len(Append(lines, buffer)) = Len(lines) + 1
      /\ \A i \in 1..Len(lines) : Append(lines, buffer)[i] = lines[i]
      /\ Append(lines, buffer)[Len(lines) + 1] = buffer
  BY AppendProperties
<1>2. DOMAIN lines' = DOMAIN lines \cup {Len(lines) + 1} /\ DOMAIN lines = 1..Len(lines)
  BY <1>1
<1> QED BY <1>1, <1>2 DEF ToSet

LEMMA LinesStep ==
  ClientInv /\ WholeLines /\ LinesSound /\ [Next]_vars => WholeLines' /\ LinesSound'
<1> SUFFICES ASSUME ClientInv, WholeLines, LinesSound, [Next]_vars
             PROVE  WholeLines' /\ LinesSound'
  OBVIOUS
<1>t. Typed
  BY TypedOK DEF ClientInv
\* Whatever is done, a line stays whole.
<1>1. ASSUME NEW l \in ToSet(lines)
      PROVE  Whole(l)' /\ \A i \in DOMAIN l : l[i].kid \in DOMAIN kids'
  <2>1. l \in Seq(Chunk) /\ Whole(l) /\ \A i \in DOMAIN l : l[i].kid \in DOMAIN kids
    <3>1. PICK i \in DOMAIN lines : l = lines[i]
      BY DEF ToSet
    <3>2. l \in Seq(Chunk)
      BY <1>t, <3>1 DEF Typed
    <3> QED BY <3>2 DEF WholeLines, LinesSound
  <2>2. Last(l) = l[Len(l)] /\ Len(l) \in DOMAIN l
    BY <2>1 DEF Whole, Last
  <2>3. Last(l).kid \in DOMAIN kids
    BY <2>1, <2>2
  <2>4. \A i \in DOMAIN l : l[i].kid \in DOMAIN kids'
    BY <2>1, ReapedStays
  <2>5. Last(l).kind = "part" => /\ kids'[Last(l).kid].reaped
                                 /\ Last(l).n = Len(kids'[Last(l).kid].out)
    BY <2>1, <2>3, ReapedStays DEF Whole
  <2> QED BY <2>1, <2>4, <2>5 DEF Whole
<1>2. CASE UNCHANGED lines
  BY <1>1, <1>2 DEF WholeLines, LinesSound
<1>3. ASSUME NEW l, l = buffer, lines' = Append(lines, buffer), Whole(l)', l # <<>>
      PROVE  WholeLines' /\ LinesSound'
  <2>1. ToSet(lines') = ToSet(lines) \cup {l}
    BY <1>3, <1>t, MoreLines DEF Typed
  <2>2. pid \in DOMAIN kids
    BY <1>3, <1>t DEF ClientInv, BufferSound, Typed
  <2>3. pid \in DOMAIN kids'
    BY <2>2, ReapedStays
  <2>4. \A i \in DOMAIN l : l[i].kid \in DOMAIN kids'
    BY <1>3, <2>3 DEF ClientInv, BufferSound
  <2> QED BY <1>1, <1>3, <2>1, <2>4 DEF WholeLines, LinesSound
\* What is taken for a line is whole but for its end.
<1>4. ASSUME NEW i \in 1..(Len(buffer) - 1)
      PROVE  /\ buffer[i].kind = "part" /\ buffer[i + 1].kid = buffer[i].kid
             /\ buffer[i + 1].n = buffer[i].n + 1
  <2>1. /\ i \in DOMAIN buffer /\ i + 1 \in DOMAIN buffer /\ i # Len(buffer)
        /\ Len(buffer) \in Nat /\ i \in Nat
    BY <1>t DEF Typed
  <2>2. pid \in DOMAIN kids
    BY <2>1, <1>t DEF ClientInv, BufferSound, Typed
  <2>3. kids[pid].read \in Nat
    <3>1. kids[pid] \in Child
      BY <1>t, <2>2 DEF Typed
    <3> QED BY <3>1 DEF Child
  <2>4. ASSUME NEW r \in Nat, NEW l \in Nat PROVE (i + 1) + (r - l) = (i + (r - l)) + 1
    BY <2>1
  <2>5. (i + 1) + (kids[pid].read - Len(buffer)) = (i + (kids[pid].read - Len(buffer))) + 1
    BY <2>1, <2>3, <2>4
  <2> QED BY <2>1, <2>5 DEF ClientInv, BufferSound
<1>5. CASE TakeLine
  <2>1. CASE UNCHANGED lines
    BY <1>2, <2>1
  <2>2. CASE ~UNCHANGED lines
    <3>1. /\ lines' = Append(lines, buffer) /\ buffer[1].kind # "newline"
          /\ Len(buffer) \in DOMAIN buffer /\ buffer[Len(buffer)].kind # "part"
      BY <1>5, <2>2, LineTaken
    <3>2. buffer # <<>> /\ Last(buffer) = buffer[Len(buffer)]
      BY <3>1, <1>t DEF Last, Typed
    <3>3. ASSUME NEW l, l = buffer PROVE Whole(l)'
      BY <1>4, <3>1, <3>2, <3>3 DEF Whole
    <3> QED BY <1>3, <3>1, <3>2, <3>3
  <2> QED BY <2>1, <2>2
<1>6. CASE Reap
  <2>1. CASE UNCHANGED lines
    BY <1>2, <2>1
  <2>2. CASE ~UNCHANGED lines
    <3>1. /\ at = "reap" /\ lines' = Append(lines, buffer) /\ buffer # <<>>
          /\ kids' = [kids EXCEPT ![pid].reaped = TRUE]
      BY <1>6, <2>2 DEF Reap
    <3>2. Last(buffer) = buffer[Len(buffer)] /\ {1, Len(buffer)} \subseteq DOMAIN buffer
      BY <3>1, <1>t DEF Last, Typed
    <3>3. buffer[1].kind = "part" /\ buffer[Len(buffer)].kind = "part"
      BY <3>1, <3>2 DEF ClientInv, ReadSound, Newlines
    <3>4. Last(buffer).kid = pid /\ Last(buffer).n = Len(kids[pid].out)
      <4>1. kids[pid].read \in Nat /\ Len(buffer) \in Nat
        BY <1>6, <1>t, OneReaped DEF Typed, Child
      <4>2. Last(buffer).n = Len(buffer) + (kids[pid].read - Len(buffer))
        BY <3>2 DEF ClientInv, BufferSound
      <4>3. kids[pid].read = Len(kids[pid].out)
        BY <3>1 DEF ClientInv, ReadSound
      <4> QED BY <3>2, <4>1, <4>2, <4>3 DEF ClientInv, BufferSound
    <3>5. kids'[pid].reaped /\ kids'[pid].out = kids[pid].out
      BY <1>6, <1>t, <3>1, OneReaped, ChildChanged DEF Typed, Child
    <3>6. ASSUME NEW l, l = buffer PROVE Whole(l)'
      BY <1>4, <3>1, <3>2, <3>3, <3>4, <3>5, <3>6 DEF Whole
    <3> QED BY <1>3, <3>1, <3>6
  <2> QED BY <2>1, <2>2
<1> QED
  BY <1>2, <1>5, <1>6
     DEF Next, Pilot, vars, Begin, GiveUp, Launch, Keep, Read, ReachEnd, Parse, Children,
         Write, Close, Exit
-----------------------------------------------------------------------------
\* The child of the pid is the last one started, and the buffer begins where
\* one of its lines does.
BufferStartsLine ==
  /\ pid # 0 => pid = Len(kids)
  /\ pid # 0 /\ kids[pid].read > Len(buffer) =>
       kids[pid].out[kids[pid].read - Len(buffer)] # "part"

\* What was read of a child stays read, and stays what it is.
LEMMA ReadStays ==
  ClientInv /\ [Next]_vars =>
    \A c \in DOMAIN kids :
      /\ c \in DOMAIN kids' /\ kids'[c].read \in Nat
      /\ kids'[c].read >= kids[c].read
      /\ ~(Read /\ c = pid) => kids'[c].read = kids[c].read
      /\ \A i \in 1..kids[c].read : kids'[c].out[i] = kids[c].out[i]
<1> SUFFICES ASSUME ClientInv, [Next]_vars, NEW c \in DOMAIN kids
             PROVE  /\ c \in DOMAIN kids' /\ kids'[c].read \in Nat
                    /\ kids'[c].read >= kids[c].read
                    /\ ~(Read /\ c = pid) => kids'[c].read = kids[c].read
                    /\ \A i \in 1..kids[c].read : kids'[c].out[i] = kids[c].out[i]
  OBVIOUS
<1>t. kids \in Seq(Child) /\ kids[c] \in Child /\ kids[c].read <= Len(kids[c].out)
  BY TypedOK DEF ClientInv, Typed, ReadSound
<1>r. kids[c].read \in Nat /\ Len(kids[c].out) \in Nat
  BY <1>t DEF Child
<1>1. CASE UNCHANGED kids
  BY <1>1, <1>r
<1>2. CASE Launch
  BY <1>2, <1>t, <1>r, Launched
<1>3. CASE Read
  <2> DEFINE k == [kids[pid] EXCEPT !.read = @ + 1]
  <2>1. pid \in DOMAIN kids /\ k.out = kids[pid].out /\ k.read = kids[pid].read + 1
    BY <1>3, <1>t, OneRead DEF Child
  <2> HIDE DEF k
  <2>2. /\ DOMAIN kids' = DOMAIN kids /\ kids'[pid] = k
        /\ \A d \in DOMAIN kids : d # pid => kids'[d] = kids[d]
    BY <1>3, <1>t, OneRead, ChildChanged DEF k
  <2> QED BY <1>3, <1>r, <2>1, <2>2
<1>4. CASE Reap
  <2> DEFINE k == [kids[pid] EXCEPT !.reaped = TRUE]
  <2>1. pid \in DOMAIN kids /\ k.out = kids[pid].out /\ k.read = kids[pid].read
    BY <1>4, <1>t, OneReaped DEF Child
  <2> HIDE DEF k
  <2>2. /\ DOMAIN kids' = DOMAIN kids /\ kids'[pid] = k
        /\ \A d \in DOMAIN kids : d # pid => kids'[d] = kids[d]
    BY <1>4, <1>t, OneReaped, ChildChanged DEF k
  <2> QED BY <1>r, <2>1, <2>2
<1>5. CASE Children
  <2>1. PICK d \in DOMAIN kids, k \in Child :
          /\ kids' = [kids EXCEPT ![d] = k] /\ k.read = kids[d].read
          /\ \A i \in 1..Len(kids[d].out) : k.out[i] = kids[d].out[i]
    BY <1>5, OneChanged
  <2>2. /\ DOMAIN kids' = DOMAIN kids /\ kids'[d] = k
        /\ \A e \in DOMAIN kids : e # d => kids'[e] = kids[e]
    BY <1>t, <2>1, ChildChanged
  <2>3. \A i \in 1..kids[c].read : i \in 1..Len(kids[c].out)
    BY <1>t, <1>r
  <2> QED BY <1>r, <2>1, <2>2, <2>3
<1> QED
  BY <1>1, <1>2, <1>3, <1>4, <1>5
     DEF Next, Pilot, vars, Begin, GiveUp, Keep, TakeLine, ReachEnd, Parse

\* Whatever chunk was read stays so, and an empty line stays one.
LEMMA ChunksStay ==
  ASSUME ClientInv, [Next]_vars, NEW x
  PROVE  WasRead(x) => WasRead(x)' /\ (EmptyLine(x.kid, x.n)' <=> EmptyLine(x.kid, x.n))
<1> SUFFICES ASSUME WasRead(x)
             PROVE  WasRead(x)' /\ (EmptyLine(x.kid, x.n)' <=> EmptyLine(x.kid, x.n))
  OBVIOUS
<1>1. x.kid \in DOMAIN kids /\ x.n \in 1..kids[x.kid].read
  BY DEF WasRead
<1>2. kids[x.kid].read \in Nat
  <2>1. kids[x.kid] \in Child
    BY <1>1, TypedOK DEF ClientInv, Typed
  <2> QED BY <2>1 DEF Child
<1>3. /\ x.kid \in DOMAIN kids' /\ kids'[x.kid].read \in Nat
      /\ kids'[x.kid].read >= kids[x.kid].read
      /\ \A i \in 1..kids[x.kid].read : kids'[x.kid].out[i] = kids[x.kid].out[i]
  BY <1>1, <1>2, ReadStays
<1>4. x.n > 1 => x.n - 1 \in 1..kids[x.kid].read
  BY <1>1, <1>2
<1> QED
  BY <1>1, <1>2, <1>3, <1>4 DEF WasRead, EmptyLine

\* Where the chunks are among the lines and the buffer.
DealtRight ==
  /\ \A j \in 1..Len(lines) : \A i \in DOMAIN lines[j] :
       <<j, i>> \in DOMAIN Dealt /\ Dealt[<<j, i>>] = lines[j][i]
  /\ \A i \in DOMAIN buffer :
       /\ <<Len(lines) + 1, i>> \in DOMAIN Dealt
       /\ Dealt[<<Len(lines) + 1, i>>] = buffer[i]
  /\ \A p \in DOMAIN Dealt :
       \/ \E j \in 1..Len(lines) : \E i \in DOMAIN lines[j] : p = <<j, i>>
       \/ \E i \in DOMAIN buffer : p = <<Len(lines) + 1, i>>

LEMMA DealtOK == Typed => DealtRight
<1> SUFFICES ASSUME Typed PROVE DealtRight
  OBVIOUS
<1> DEFINE all == Append(lines, buffer)
<1>1. /\ all \in Seq(Seq(Chunk)) /\ Len(all) = Len(lines) + 1
      /\ \A j \in 1..Len(lines) : all[j] = lines[j]
      /\ all[Len(lines) + 1] = buffer
  BY AppendProperties DEF Typed
<1>2. /\ DOMAIN Dealt = UNION {{j} \X DOMAIN all[j] : j \in DOMAIN all}
      /\ \A p \in DOMAIN Dealt : Dealt[p] = all[p[1]][p[2]]
  BY DEF Dealt
<1> HIDE DEF all
<1>3. DOMAIN all = 1..Len(lines) \cup {Len(lines) + 1} /\ Len(lines) \in Nat
  BY <1>1 DEF Typed
<1>4. \A p : p \in DOMAIN Dealt <=> \E j \in DOMAIN all : \E i \in DOMAIN all[j] : p = <<j, i>>
  BY <1>2
<1>5. \A j \in DOMAIN all : \A i \in DOMAIN all[j] : Dealt[<<j, i>>] = all[j][i]
  BY <1>2, <1>4
<1> QED BY <1>1, <1>3, <1>4, <1>5 DEF DealtRight

\* A line that is handed over, with the rest of it in the buffer before.
LEMMA HandedOver ==
  ASSUME Typed, Typed', lines' = Append(lines, buffer), buffer' = <<>>
  PROVE  /\ UNCHANGED Dealt
         /\ \A p \in DOMAIN Dealt :
              p[1] \in DOMAIN lines \/ \E i \in DOMAIN buffer : Dealt[p] = buffer[i]
<1>1. DealtRight /\ DealtRight'
  BY DealtOK, PTL
<1>2. /\ Len(lines') = Len(lines) + 1 /\ Len(lines) \in Nat
      /\ \A j \in 1..Len(lines) : lines'[j] = lines[j]
      /\ lines'[Len(lines) + 1] = buffer
  BY AppendProperties DEF Typed
<1>3. DOMAIN buffer' = {}
  BY EmptySeq
<1>4. 1..Len(lines') = 1..Len(lines) \cup {Len(lines) + 1}
  BY <1>2
<1>5. DOMAIN Dealt' = DOMAIN Dealt
  <2>1. ASSUME NEW p \in DOMAIN Dealt PROVE p \in DOMAIN Dealt'
    <3>1. CASE \E j \in 1..Len(lines) : \E i \in DOMAIN lines[j] : p = <<j, i>>
      <4>1. PICK j \in 1..Len(lines) : \E i \in DOMAIN lines[j] : p = <<j, i>>
        BY <3>1
      <4>2. j \in 1..Len(lines') /\ lines'[j] = lines[j]
        BY <1>2, <1>4
      <4> QED BY <1>1, <4>1, <4>2 DEF DealtRight
    <3>2. CASE \E i \in DOMAIN buffer : p = <<Len(lines) + 1, i>>
      <4>1. Len(lines) + 1 \in 1..Len(lines')
        BY <1>4
      <4> QED BY <1>1, <1>2, <3>2, <4>1 DEF DealtRight
    <3> QED BY <1>1, <2>1, <3>1, <3>2 DEF DealtRight
  <2>2. ASSUME NEW p \in DOMAIN Dealt' PROVE p \in DOMAIN Dealt
    <3>1. PICK j \in 1..Len(lines') : \E i \in DOMAIN lines'[j] : p = <<j, i>>
      BY <1>1, <1>3, <2>2 DEF DealtRight
    <3>2. CASE j \in 1..Len(lines)
      <4>1. lines'[j] = lines[j]
        BY <1>2, <3>2
      <4> QED BY <1>1, <3>1, <3>2, <4>1 DEF DealtRight
    <3>3. CASE j = Len(lines) + 1
      BY <1>1, <1>2, <3>1, <3>3 DEF DealtRight
    <3> QED BY <1>4, <3>2, <3>3
  <2> QED BY <2>1, <2>2
<1>6. \A p \in DOMAIN Dealt : Dealt'[p] = Dealt[p]
  BY <1>1, <1>2, <1>3, <1>4 DEF DealtRight
<1>7. Dealt' = Dealt
  <2>1. /\ Dealt = [p \in DOMAIN Dealt |-> Dealt[p]]
        /\ Dealt' = [p \in DOMAIN Dealt' |-> Dealt'[p]]
    BY DEF Dealt
  <2> QED BY <1>5, <1>6, <2>1
<1>8. DOMAIN lines = 1..Len(lines)
  BY DEF Typed
<1> QED BY <1>1, <1>7, <1>8 DEF DealtRight

FlowInv == NothingLost /\ BufferStartsLine

\* What is in the buffer was read.
LEMMA BufferWasRead ==
  ASSUME Typed, NothingLost, NEW i \in DOMAIN buffer
  PROVE  WasRead(buffer[i])
  BY DealtOK DEF DealtRight, NothingLost, NoneInvented

LEMMA LineStartStep ==
  ClientInv /\ FlowInv /\ [Next]_vars => BufferStartsLine'
<1> SUFFICES ASSUME ClientInv, FlowInv, [Next]_vars PROVE BufferStartsLine'
  OBVIOUS
<1>t. Typed /\ BufferSound /\ ReadSound /\ BufferStartsLine /\ NothingLost
  BY TypedOK DEF ClientInv, FlowInv
<1>p. \A d \in DOMAIN kids : kids[d] \in Child
  BY <1>t DEF Typed
<1>q. pid # 0 => pid \in DOMAIN kids
  BY <1>t DEF Typed
<1>r. pid # 0 => kids[pid].read \in Nat
  BY <1>p, <1>q DEF Child
<1>n. Len(buffer) \in Nat /\ Len(kids) \in Nat
  BY <1>t DEF Typed
<1>1. CASE UNCHANGED <<pid, buffer, kids>>
  BY <1>1, <1>t DEF BufferStartsLine
<1>2. CASE Launch
  <2>1. CASE UNCHANGED <<kids, pid, stream>>
    BY <1>2, <1>t, <2>1 DEF Launch, BufferStartsLine
  <2>2. CASE ~UNCHANGED <<kids, pid, stream>>
    <3>1. /\ pid' = Len(kids) + 1 /\ Len(kids') = Len(kids) + 1
          /\ kids'[Len(kids) + 1] = Kid(round) /\ buffer' = buffer
      BY <1>2, <2>2, Launched DEF Launch
    <3>2. kids'[pid'].read = 0
      BY <3>1 DEF Kid
    <3> QED BY <1>n, <3>1, <3>2 DEF BufferStartsLine
  <2> QED BY <2>1, <2>2
<1>3. CASE TakeLine
  <2>1. UNCHANGED <<pid, kids>> /\ pid # 0
    BY <1>3 DEF TakeLine, ClientInv, StreamOpen
  <2>2. /\ Len(buffer) \in DOMAIN buffer /\ buffer[Len(buffer)].kind # "part"
        /\ buffer' = <<>> /\ Len(<<>>) = 0
    BY <1>3, LineTaken
  <2>3. kids[pid].out[kids[pid].read] # "part"
    <3>1. WasRead(buffer[Len(buffer)])
      BY <1>t, <2>2, BufferWasRead
    <3>2. /\ buffer[Len(buffer)].kid = pid
          /\ buffer[Len(buffer)].n = Len(buffer) + (kids[pid].read - Len(buffer))
      BY <1>t, <2>2 DEF BufferSound
    <3>3. buffer[Len(buffer)].n = kids[pid].read
      BY <1>n, <1>r, <2>1, <3>2
    <3> QED BY <2>2, <3>1, <3>2, <3>3 DEF WasRead
  <2> QED BY <1>n, <1>r, <1>t, <2>1, <2>2, <2>3 DEF BufferStartsLine
<1>4. CASE Read
  <2> DEFINE k == [kids[pid] EXCEPT !.read = @ + 1]
  <2>1. pid \in DOMAIN kids /\ k.out = kids[pid].out /\ k.read = kids[pid].read + 1
    BY <1>4, <1>p, OneRead DEF Child
  <2> HIDE DEF k
  <2>2. kids'[pid] = k /\ Len(kids') = Len(kids)
    BY <1>4, <1>t, OneRead, ChildChanged DEF k, Typed
  <2>3. PICK x \in Chunk : buffer' = Append(buffer, x)
    BY <1>4, OneRead
  <2>4. Len(buffer') = Len(buffer) + 1
    BY <1>t, <2>3, AppendProperties DEF Typed
  <2>5. pid' = pid /\ pid # 0 /\ kids[pid].read \in Nat
    BY <1>4, <1>r, <1>t, <2>1 DEF Read, Typed
  <2>6. /\ kids'[pid].read - Len(buffer') = kids[pid].read - Len(buffer)
        /\ kids'[pid].read > Len(buffer') <=> kids[pid].read > Len(buffer)
    BY <1>n, <2>1, <2>2, <2>4, <2>5
  <2> QED BY <1>t, <2>1, <2>2, <2>5, <2>6 DEF BufferStartsLine
<1>5. CASE Reap
  <2> DEFINE k == [kids[pid] EXCEPT !.reaped = TRUE]
  <2>1. pid \in DOMAIN kids /\ k.out = kids[pid].out /\ k.read = kids[pid].read
    BY <1>5, <1>p, OneReaped DEF Child
  <2> HIDE DEF k
  <2>2. kids'[pid] = k /\ Len(kids') = Len(kids)
    BY <1>5, <1>t, OneReaped, ChildChanged DEF k, Typed
  <2>3. \/ at' = "failed" /\ pid' = pid /\ buffer' = buffer
        \/ at' \in {"parse", "try"} /\ pid' = 0
    BY <1>5 DEF Reap, Throw
  <2> QED BY <1>t, <2>1, <2>2, <2>3 DEF BufferStartsLine
<1>6. CASE Children
  <2>1. PICK d \in DOMAIN kids, k \in Child :
          kids' = [kids EXCEPT ![d] = k] /\ UNCHANGED <<pid, buffer>>
    BY <1>6, OneChanged
  <2>2. Len(kids') = Len(kids)
    BY <1>t, <2>1, ChildChanged DEF Typed
  <2>3. ASSUME pid # 0
        PROVE  /\ kids'[pid].read = kids[pid].read
               /\ \A i \in 1..kids[pid].read : kids'[pid].out[i] = kids[pid].out[i]
    <3>1. ~Read
      BY <2>1, <1>t, OneRead, AppendProperties DEF Typed
    <3> QED BY <1>q, <2>3, <3>1, ReadStays
  <2>4. pid # 0 /\ kids[pid].read > Len(buffer) =>
          kids[pid].read - Len(buffer) \in 1..kids[pid].read
    BY <1>n, <1>r
  <2> QED BY <1>t, <2>1, <2>2, <2>3, <2>4 DEF BufferStartsLine
<1> QED
  BY <1>1, <1>2, <1>3, <1>4, <1>5, <1>6
     DEF Next, Pilot, vars, Begin, GiveUp, Keep, ReachEnd, Parse

\* The chunk that is read comes after all the others.
LEMMA ChunkAdded ==
  ASSUME Typed, Typed', UNCHANGED lines, NEW x, buffer' = Append(buffer, x),
         NEW new, new = <<Len(lines) + 1, Len(buffer) + 1>>
  PROVE  /\ \A p : p \in DOMAIN Dealt' <=> p \in DOMAIN Dealt \/ p = new
         /\ Dealt'[new] = x
         /\ \A p \in DOMAIN Dealt :
              /\ Dealt'[p] = Dealt[p] /\ Earlier(p, new) /\ ~Earlier(new, p)
              /\ p[1] \in DOMAIN lines => p[1] # new[1]
<1>1. DealtRight /\ DealtRight'
  BY DealtOK, PTL
<1>2. DOMAIN buffer = 1..Len(buffer) /\ Len(buffer) \in Nat /\ Len(lines) \in Nat
      /\ DOMAIN lines = 1..Len(lines)
  BY DEF Typed
<1>3. /\ buffer' \in Seq(Chunk) /\ Len(buffer') \in Nat
      /\ DOMAIN buffer' = 1..Len(buffer')
  BY DEF Typed
<1>4. /\ Len(buffer') = Len(buffer) + 1 /\ buffer'[Len(buffer) + 1] = x
      /\ \A i \in 1..Len(buffer) : buffer'[i] = buffer[i]
  BY DEF Typed
<1>5. DOMAIN buffer' = DOMAIN buffer \cup {Len(buffer) + 1}
  BY <1>2, <1>3, <1>4
<1>6. new \in DOMAIN Dealt' /\ Dealt'[new] = x
  BY <1>1, <1>4, <1>5 DEF DealtRight
<1>7. ASSUME NEW p \in DOMAIN Dealt
      PROVE  /\ p \in DOMAIN Dealt' /\ Dealt'[p] = Dealt[p]
             /\ Earlier(p, new) /\ ~Earlier(new, p)
             /\ p[1] \in DOMAIN lines => p[1] # new[1]
  <2>1. CASE \E j \in 1..Len(lines) : \E i \in DOMAIN lines[j] : p = <<j, i>>
    <3>1. PICK j \in 1..Len(lines) : \E i \in DOMAIN lines[j] : p = <<j, i>>
      BY <2>1
    <3>2. p \in DOMAIN Dealt' /\ Dealt'[p] = Dealt[p]
      BY <1>1, <3>1 DEF DealtRight
    <3> QED BY <1>2, <3>1, <3>2 DEF Earlier
  <2>2. CASE \E i \in DOMAIN buffer : p = <<Len(lines) + 1, i>>
    <3>1. PICK i \in DOMAIN buffer : p = <<Len(lines) + 1, i>>
      BY <2>2
    <3>2. p \in DOMAIN Dealt' /\ Dealt'[p] = Dealt[p]
      BY <1>1, <1>2, <1>4, <1>5, <3>1 DEF DealtRight
    <3> QED BY <1>2, <3>1, <3>2 DEF Earlier
  <2> QED BY <1>1, <1>7, <2>1, <2>2 DEF DealtRight
<1>8. ASSUME NEW p \in DOMAIN Dealt', p # new PROVE p \in DOMAIN Dealt
  <2>1. CASE \E j \in 1..Len(lines) : \E i \in DOMAIN lines[j] : p = <<j, i>>
    BY <1>1, <2>1 DEF DealtRight
  <2>2. CASE \E i \in DOMAIN buffer' : p = <<Len(lines) + 1, i>>
    BY <1>1, <1>5, <1>8, <2>2 DEF DealtRight
  <2> QED BY <1>1, <1>8, <2>1, <2>2 DEF DealtRight
<1> QED BY <1>6, <1>7, <1>8

\* An empty line is dropped: it was the only chunk of the buffer.
LEMMA LineDropped ==
  ASSUME Typed, Typed', UNCHANGED lines, buffer' = <<>>, Len(buffer) = 1,
         NEW gone, gone = <<Len(lines) + 1, 1>>
  PROVE  /\ gone \in DOMAIN Dealt /\ Dealt[gone] = buffer[1]
         /\ \A p : p \in DOMAIN Dealt' <=> p \in DOMAIN Dealt /\ p # gone
         /\ \A p \in DOMAIN Dealt' : Dealt'[p] = Dealt[p]
<1>1. DealtRight /\ DealtRight'
  BY DealtOK, PTL
<1>2. DOMAIN buffer = {1} /\ DOMAIN buffer' = {} /\ Len(lines) \in Nat
  BY EmptySeq DEF Typed
<1>3. gone \in DOMAIN Dealt /\ Dealt[gone] = buffer[1]
  BY <1>1, <1>2 DEF DealtRight
<1>4. ASSUME NEW p \in DOMAIN Dealt'
      PROVE  p \in DOMAIN Dealt /\ p # gone /\ Dealt'[p] = Dealt[p]
  <2>1. PICK j \in 1..Len(lines) : \E i \in DOMAIN lines[j] : p = <<j, i>>
    BY <1>1, <1>2 DEF DealtRight
  <2> QED BY <1>1, <1>2, <2>1 DEF DealtRight
<1>5. ASSUME NEW p \in DOMAIN Dealt, p # gone PROVE p \in DOMAIN Dealt'
  BY <1>1, <1>2, <1>5 DEF DealtRight
<1> QED BY <1>3, <1>4, <1>5

\* A line that is begun has only pieces before its end, and so no chunk of it
\* is an empty line, unless it is one from the start.
LEMMA NoEmptyLine ==
  ASSUME ClientInv, FlowInv, NEW i \in DOMAIN buffer, buffer[1].kind # "newline"
  PROVE  ~EmptyLine(buffer[i].kid, buffer[i].n)
<1>t. Typed /\ BufferSound /\ NothingLost
  BY TypedOK DEF ClientInv, FlowInv
<1>1. WasRead(buffer[i])
  BY <1>t, BufferWasRead
<1>2. CASE i = 1
  BY <1>1, <1>2 DEF WasRead, EmptyLine
<1>3. CASE i # 1
  <2>1. i - 1 \in DOMAIN buffer /\ i - 1 # Len(buffer) /\ i \in DOMAIN buffer /\ i \in Nat
    BY <1>3, <1>t DEF Typed
  <2>2. WasRead(buffer[i - 1]) /\ buffer[i - 1].kind = "part"
    BY <1>t, <2>1, BufferWasRead DEF BufferSound
  <2>3. /\ buffer[i - 1].kid = pid /\ buffer[i].kid = pid
        /\ buffer[i].n = i + (kids[pid].read - Len(buffer))
        /\ buffer[i - 1].n = (i - 1) + (kids[pid].read - Len(buffer))
    BY <1>t, <2>1 DEF BufferSound
  <2>4. kids[pid].read \in Nat /\ Len(buffer) \in Nat
    <3>1. pid \in DOMAIN kids /\ kids[pid] \in Child
      BY <1>t, <1>1, <2>3 DEF WasRead, Typed
    <3> QED BY <1>t, <3>1 DEF Child, Typed
  <2>5. buffer[i - 1].n = buffer[i].n - 1
    BY <2>1, <2>3, <2>4
  <2>6. buffer[i].n > 1
    BY <1>1, <2>2, <2>5 DEF WasRead
  <2>7. kids[pid].out[buffer[i].n - 1] = "part"
    BY <2>2, <2>3, <2>5 DEF WasRead
  <2> QED BY <2>3, <2>6, <2>7 DEF EmptyLine
<1> QED BY <1>2, <1>3

\* A child that is new was not read yet.
LEMMA NewUnread ==
  ASSUME ClientInv, [Next]_vars, NEW c \in DOMAIN kids', NEW i \in 1..kids'[c].read,
         ~(Read /\ c = pid)
  PROVE  c \in DOMAIN kids /\ i \in 1..kids[c].read
<1>t. kids \in Seq(Child)
  BY TypedOK DEF ClientInv, Typed
<1>1. CASE c \in DOMAIN kids
  BY <1>1, ReadStays
<1>2. CASE Launch
  <2>1. CASE UNCHANGED kids
    BY <1>1, <2>1
  <2>2. CASE ~UNCHANGED kids
    <3>1. kids' \in Seq(Child) /\ Len(kids') = Len(kids) + 1
          /\ kids'[Len(kids) + 1] = Kid(round)
      BY <1>2, <2>2, Launched
    <3>2. c \in DOMAIN kids \/ c = Len(kids) + 1
      BY <1>t, <3>1
    <3> QED BY <1>1, <3>1, <3>2 DEF Kid
  <2> QED BY <2>1, <2>2
<1>3. CASE Read
  BY <1>1, <1>3, <1>t, OneRead, ChildChanged
<1>4. CASE Reap
  BY <1>1, <1>4, <1>t, OneReaped, ChildChanged
<1>5. CASE Children
  <2>1. PICK d \in DOMAIN kids, k \in Child : kids' = [kids EXCEPT ![d] = k]
    BY <1>5, OneChanged
  <2> QED BY <1>1, <1>t, <2>1, ChildChanged
<1>6. CASE UNCHANGED kids
  BY <1>1, <1>6
<1> QED
  BY <1>2, <1>3, <1>4, <1>5, <1>6
     DEF Next, Pilot, vars, Begin, GiveUp, Keep, TakeLine, ReachEnd, Parse

LEMMA FlowStep == ClientInv /\ FlowInv /\ [Next]_vars => NothingLost'
<1> SUFFICES ASSUME ClientInv, FlowInv, [Next]_vars PROVE NothingLost'
  OBVIOUS
<1>t. Typed /\ Typed' /\ BufferSound
  <2>1. TypeOK'
    BY TypeStep
  <2> QED BY <2>1, TypedOK, PTL DEF ClientInv
<1>i. NoneInvented /\ NoneMissing /\ InOrder /\ NothingLost /\ BufferStartsLine
  BY DEF FlowInv, NothingLost
<1>p. \A d \in DOMAIN kids : kids[d] \in Child /\ kids[d].read \in Nat
  <2>1. \A d \in DOMAIN kids : kids[d] \in Child
    BY <1>t DEF Typed
  <2> QED BY <2>1 DEF Child
\* What was dealt out stays what it is.
<1>k. ASSUME NEW p \in DOMAIN Dealt, NEW x, x = Dealt[p]
      PROVE  /\ WasRead(x) /\ WasRead(x)'
             /\ EmptyLine(x.kid, x.n)' <=> EmptyLine(x.kid, x.n)
             /\ p[1] \in DOMAIN lines => ~EmptyLine(x.kid, x.n)
  <2>1. WasRead(x) /\ (p[1] \in DOMAIN lines => ~EmptyLine(x.kid, x.n))
    BY <1>i, <1>k DEF NoneInvented
  <2> QED BY <2>1, ChunksStay
\* The two ways to say what no chunk may be.
<1>j. ASSUME \A p \in DOMAIN Dealt' : \A x :
               x = Dealt'[p] =>
                 WasRead(x)' /\ (p[1] \in DOMAIN lines' => ~EmptyLine(x.kid, x.n)')
      PROVE  NoneInvented'
  BY <1>j DEF NoneInvented, WasRead, EmptyLine
<1>m. ASSUME NEW c \in DOMAIN kids, NEW i \in 1..kids[c].read, ~EmptyLine(c, i)'
      PROVE  \E p \in DOMAIN Dealt : Dealt[p].kid = c /\ Dealt[p].n = i
  <2>1. PICK x : x = [kid |-> c, n |-> i, kind |-> kids[c].out[i]]
    OBVIOUS
  <2>2. WasRead(x) /\ x.kid = c /\ x.n = i
    BY <2>1 DEF WasRead
  <2>3. ~EmptyLine(c, i)
    BY <1>m, <2>2, ChunksStay
  <2> QED BY <1>i, <2>3 DEF NoneMissing
\* Whatever chunks lines are made of.
<1>1. ASSUME UNCHANGED Dealt, ~Read,
             \A p \in DOMAIN Dealt :
               p[1] \in DOMAIN lines' =>
                 p[1] \in DOMAIN lines \/ ~EmptyLine(Dealt[p].kid, Dealt[p].n)
      PROVE  NothingLost'
  <2>1. NoneInvented'
    <3>1. ASSUME NEW p \in DOMAIN Dealt', NEW x, x = Dealt'[p]
          PROVE  WasRead(x)' /\ (p[1] \in DOMAIN lines' => ~EmptyLine(x.kid, x.n)')
      <4>1. p \in DOMAIN Dealt /\ x = Dealt[p]
        BY <1>1, <3>1
      <4> QED BY <1>1, <1>k, <4>1
    <3> QED BY <1>j, <3>1
  <2>2. NoneMissing'
    <3>1. ASSUME NEW c \in DOMAIN kids', NEW i \in 1..kids'[c].read, ~EmptyLine(c, i)'
          PROVE  \E p \in DOMAIN Dealt' : Dealt'[p].kid = c /\ Dealt'[p].n = i
      <4>1. c \in DOMAIN kids /\ i \in 1..kids[c].read
        BY <1>1, NewUnread
      <4> QED BY <1>1, <1>m, <3>1, <4>1
    <3> QED BY <3>1 DEF NoneMissing
  <2>3. InOrder'
    BY <1>1, <1>i DEF InOrder
  <2> QED BY <2>1, <2>2, <2>3 DEF NothingLost
<1>2. ASSUME UNCHANGED <<lines, buffer>>
      PROVE  NothingLost'
  <2>1. UNCHANGED Dealt
    BY <1>2 DEF Dealt
  <2>2. ~Read
    BY <1>2, <1>t, OneRead, AppendProperties DEF Typed
  <2> QED BY <1>1, <1>2, <2>1, <2>2
<1>3. CASE Read
  <2>1. PICK x : x = [kid |-> pid, n |-> kids[pid].read + 1,
                      kind |-> kids[pid].out[kids[pid].read + 1]]
    OBVIOUS
  <2>2. PICK new : new = <<Len(lines) + 1, Len(buffer) + 1>>
    OBVIOUS
  <2>3. UNCHANGED lines /\ buffer' = Append(buffer, x) /\ pid' = pid
    BY <1>3, <2>1, OneRead DEF Read
  <2>4. /\ \A p : p \in DOMAIN Dealt' <=> p \in DOMAIN Dealt \/ p = new
        /\ Dealt'[new] = x
        /\ \A p \in DOMAIN Dealt :
              /\ Dealt'[p] = Dealt[p] /\ Earlier(p, new) /\ ~Earlier(new, p)
              /\ p[1] \in DOMAIN lines => p[1] # new[1]
    BY <1>t, <2>2, <2>3, ChunkAdded
  <2>5. /\ pid \in DOMAIN kids /\ pid \in DOMAIN kids'
        /\ kids'[pid].read = kids[pid].read + 1 /\ kids'[pid].out = kids[pid].out
    <3> DEFINE k == [kids[pid] EXCEPT !.read = @ + 1]
    <3>1. pid \in DOMAIN kids /\ k.out = kids[pid].out /\ k.read = kids[pid].read + 1
      BY <1>3, <1>p, OneRead DEF Child
    <3> HIDE DEF k
    <3>2. kids'[pid] = k /\ DOMAIN kids' = DOMAIN kids
      BY <1>3, <1>t, OneRead, ChildChanged DEF k, Typed
    <3> QED BY <3>1, <3>2
  <2>6. WasRead(x)'
    BY <1>p, <2>1, <2>5 DEF WasRead
  <2>7. NoneInvented'
    <3>1. new[1] \notin DOMAIN lines'
      BY <1>t, <2>2, <2>3 DEF Typed
    <3>2. ASSUME NEW p \in DOMAIN Dealt', NEW y, y = Dealt'[p]
          PROVE  WasRead(y)' /\ (p[1] \in DOMAIN lines' => ~EmptyLine(y.kid, y.n)')
      <4>1. CASE p = new
        BY <2>4, <2>6, <3>1, <3>2, <4>1
      <4>2. CASE p \in DOMAIN Dealt
        <5>1. y = Dealt[p]
          BY <2>4, <3>2, <4>2
        <5> QED BY <1>k, <2>3, <4>2, <5>1
      <4> QED BY <2>4, <4>1, <4>2
    <3> QED BY <1>j, <3>2
  <2>8. NoneMissing'
    <3>1. ASSUME NEW c \in DOMAIN kids', NEW i \in 1..kids'[c].read, ~EmptyLine(c, i)'
          PROVE  \E p \in DOMAIN Dealt' : Dealt'[p].kid = c /\ Dealt'[p].n = i
      <4>1. CASE c = pid /\ i = kids[pid].read + 1
        BY <2>1, <2>4, <4>1
      <4>2. CASE ~(c = pid /\ i = kids[pid].read + 1)
        <5>1. c \in DOMAIN kids /\ i \in 1..kids[c].read
          <6>1. CASE c = pid
            BY <1>p, <2>5, <4>2, <6>1
          <6>2. CASE c # pid
            BY <6>2, NewUnread
          <6> QED BY <6>1, <6>2
        <5>2. PICK p \in DOMAIN Dealt : Dealt[p].kid = c /\ Dealt[p].n = i
          BY <1>m, <3>1, <5>1
        <5> QED BY <2>4, <5>2
      <4> QED BY <4>1, <4>2
    <3> QED BY <3>1 DEF NoneMissing
  <2>9. InOrder'
    <3>1. ASSUME NEW p \in DOMAIN Dealt
          PROVE  Earlier(<<Dealt[p].kid, Dealt[p].n>>, <<x.kid, x.n>>)
      <4>1. Dealt[p].kid \in DOMAIN kids /\ Dealt[p].n \in 1..kids[Dealt[p].kid].read
        BY <1>k DEF WasRead
      <4>2. pid = Len(kids) /\ DOMAIN kids = 1..Len(kids) /\ Len(kids) \in Nat
        BY <1>i, <1>t, <2>5 DEF BufferStartsLine, Typed
      <4>3. kids[pid].read \in Nat
        BY <1>p, <2>5
      <4>4. Dealt[p].kid < pid \/ (Dealt[p].kid = pid /\ Dealt[p].n < kids[pid].read + 1)
        BY <4>1, <4>2, <4>3
      <4> QED BY <2>1, <4>4 DEF Earlier
    <3>2. ~Earlier(new, new)
      BY <1>t, <2>2 DEF Earlier, Typed
    <3>3. ASSUME NEW p \in DOMAIN Dealt', NEW q \in DOMAIN Dealt', Earlier(p, q)
          PROVE  Earlier(<<Dealt'[p].kid, Dealt'[p].n>>, <<Dealt'[q].kid, Dealt'[q].n>>)
      <4>1. p # new
        BY <2>4, <3>2, <3>3
      <4>2. CASE q = new
        BY <2>4, <3>1, <4>1, <4>2
      <4>3. CASE q # new
        BY <1>i, <2>4, <3>3, <4>1, <4>3 DEF InOrder
      <4> QED BY <4>2, <4>3
    <3> QED BY <3>3 DEF InOrder
  <2> QED BY <2>7, <2>8, <2>9 DEF NothingLost
\* The buffer is handed over.
<1>5. ASSUME lines' = Append(lines, buffer), buffer' = <<>>, ~Read,
             buffer[1].kind # "newline"
      PROVE  NothingLost'
  <2>1. /\ UNCHANGED Dealt
        /\ \A p \in DOMAIN Dealt :
             p[1] \in DOMAIN lines \/ \E i \in DOMAIN buffer : Dealt[p] = buffer[i]
    BY <1>5, <1>t, HandedOver
  <2>2. ASSUME NEW p \in DOMAIN Dealt, NEW i \in DOMAIN buffer, Dealt[p] = buffer[i]
        PROVE  ~EmptyLine(Dealt[p].kid, Dealt[p].n)
    BY <1>5, <2>2, NoEmptyLine
  <2> QED BY <1>1, <1>5, <2>1, <2>2
<1>4. CASE TakeLine
  <2>r. ~Read
    BY <1>4 DEF TakeLine, Read
  <2>1. ASSUME lines' = Append(lines, buffer), buffer[1].kind # "newline", buffer' = <<>>
        PROVE  NothingLost'
    BY <1>5, <2>r, <2>1
  <2>2. CASE UNCHANGED lines
    <3>1. Len(buffer) = 1 /\ buffer[1].kind = "newline" /\ buffer' = <<>> /\ pid # 0
      <4>1. lines # Append(lines, buffer)
        BY <1>t, AppendProperties DEF Typed
      <4> QED BY <1>4, <2>2, <4>1, LineTaken DEF TakeLine, ClientInv, StreamOpen
    <3>2. PICK gone : gone = <<Len(lines) + 1, 1>>
      OBVIOUS
    <3>3. /\ gone \in DOMAIN Dealt /\ Dealt[gone] = buffer[1]
          /\ \A p : p \in DOMAIN Dealt' <=> p \in DOMAIN Dealt /\ p # gone
          /\ \A p \in DOMAIN Dealt' : Dealt'[p] = Dealt[p]
      BY <1>t, <2>2, <3>1, <3>2, LineDropped
    <3>4. NoneInvented'
      <4>1. ASSUME NEW p \in DOMAIN Dealt', NEW x, x = Dealt'[p]
            PROVE  WasRead(x)' /\ (p[1] \in DOMAIN lines' => ~EmptyLine(x.kid, x.n)')
        <5>1. p \in DOMAIN Dealt /\ x = Dealt[p]
          BY <3>3, <4>1
        <5> QED BY <1>k, <2>2, <5>1
      <4> QED BY <1>j, <4>1
    <3>5. ASSUME NEW x, x = buffer[1] PROVE EmptyLine(x.kid, x.n)'
      <4>1. /\ x.kid = pid /\ x.n = 1 + (kids[pid].read - 1)
            /\ WasRead(x) /\ x.kind = "newline"
        BY <1>i, <1>t, <3>1, <3>5, BufferWasRead DEF BufferSound, Typed
      <4>2. pid \in DOMAIN kids /\ kids[pid].read \in Nat
        BY <1>p, <4>1 DEF WasRead
      <4>3. x.n = kids[pid].read
        BY <4>1, <4>2
      <4>4. kids[pid].read > 1 => kids[pid].out[kids[pid].read - 1] # "part"
        BY <1>i, <3>1 DEF BufferStartsLine
      <4>5. EmptyLine(x.kid, x.n)
        BY <4>1, <4>3, <4>4 DEF WasRead, EmptyLine
      <4> QED BY <4>1, <4>5, ChunksStay
    <3>6. NoneMissing'
      <4>1. ASSUME NEW c \in DOMAIN kids', NEW i \in 1..kids'[c].read, ~EmptyLine(c, i)'
            PROVE  \E p \in DOMAIN Dealt' : Dealt'[p].kid = c /\ Dealt'[p].n = i
        <5>1. c \in DOMAIN kids /\ i \in 1..kids[c].read
          BY <2>r, NewUnread
        <5>2. PICK p \in DOMAIN Dealt : Dealt[p].kid = c /\ Dealt[p].n = i
          BY <1>m, <4>1, <5>1
        <5>3. p # gone
          <6>1. PICK x : x = buffer[1]
            OBVIOUS
          <6>2. p = gone => x.kid = c /\ x.n = i
            BY <3>3, <5>2, <6>1
          <6> QED BY <3>5, <4>1, <6>1, <6>2
        <5> QED BY <3>3, <5>2, <5>3
      <4> QED BY <4>1 DEF NoneMissing
    <3>7. InOrder'
      BY <1>i, <3>3 DEF InOrder
    <3> QED BY <3>4, <3>6, <3>7 DEF NothingLost
  <2> QED BY <1>4, <2>1, <2>2, LineTaken
<1>6. CASE Reap
  <2>1. CASE UNCHANGED <<lines, buffer>>
    BY <1>2, <2>1
  <2>2. CASE ~UNCHANGED <<lines, buffer>>
    <3>1. /\ at = "reap" /\ lines' = Append(lines, buffer) /\ buffer # <<>>
          /\ buffer' = <<>>
      BY <1>6, <2>2 DEF Reap, Throw
    <3>2. 1 \in DOMAIN buffer
      BY <1>t, <3>1 DEF Typed
    <3>3. buffer[1].kind # "newline"
      BY <3>1, <3>2 DEF ClientInv, ReadSound, Newlines
    <3>4. ~Read
      BY <3>1 DEF Read
    <3> QED BY <1>5, <3>1, <3>3, <3>4
  <2> QED BY <2>1, <2>2
<1> QED
  BY <1>2, <1>3, <1>4, <1>6
     DEF Next, Pilot, vars, Begin, GiveUp, Launch, Keep, ReachEnd, Parse,
         Children, Write, Close, Exit

-----------------------------------------------------------------------------
AllClient == ClientInv /\ WholeLines /\ LinesSound /\ FlowInv

LEMMA ClientAlways == Spec => []AllClient
<1>1. Init => AllClient
  <2>1. Init => ToSet(lines) = {}
    BY DEF Init, ToSet
  <2>2. Init => FlowInv
    <3> SUFFICES ASSUME Init PROVE FlowInv
      OBVIOUS
    <3>1. Typed
      BY TypedOK, ClientStart DEF ClientInv
    <3>2. pid = 0 /\ DOMAIN lines = {} /\ DOMAIN buffer = {} /\ DOMAIN kids = {}
          /\ Len(lines) = 0
      BY EmptySeq DEF Init
    <3>3. DOMAIN Dealt = {}
      BY <3>1, <3>2, DealtOK DEF DealtRight
    <3> QED BY <3>2, <3>3 DEF FlowInv, NothingLost, NoneInvented, NoneMissing, InOrder,
                              BufferStartsLine
  <2> QED BY <2>1, <2>2, ClientStart DEF AllClient, WholeLines, LinesSound
<1>2. AllClient /\ [Next]_vars => AllClient'
  BY TypeStep, PidStep, BufferStep, LinesStep, FlowStep, LineStartStep
     DEF AllClient, ClientInv, FlowInv
<1> QED
  BY <1>1, <1>2, PTL DEF Spec

(* The types of the client runner.                                         *)
THEOREM ClientTyping == Spec => []TypeOK
  BY ClientAlways, PTL DEF AllClient, ClientInv

(* However many rounds and retries, all children but the one in            *)
(* g_client_pid were waited for.                                           *)
THEOREM NoZombies == Spec => []OneChild
  BY ClientAlways, PTL DEF AllClient, ClientInv

(* The output is never read from a NULL stream, or from another child's,   *)
(* and no child is waited for twice.                                       *)
THEOREM NoNullStream == Spec => []StreamOpen
  BY ClientAlways, PTL DEF AllClient, ClientInv

(* Each round gets one whole line of a single child, or what a child that  *)
(* has ended left without a newline.                                       *)
THEOREM LinesWhole == Spec => []WholeLines
  BY ClientAlways, PTL DEF AllClient

(* Nothing that was read of any client is lost, dealt out twice or out of  *)
(* order, and no round gets an empty line, however fgets cuts the output   *)
(* and whichever children fail or leave a line without its end.            *)
THEOREM OutputDealtOut == Spec => []NothingLost
  BY ClientAlways, PTL DEF AllClient, FlowInv
-----------------------------------------------------------------------------
LoopTyped == pc \in [{main} -> Loop!Points] /\ result \in [{main} -> Loop!Results]

\* A session that was begun has a result, and there is only one.
OneSessionRun ==
  /\ pc[main] \in Loop!InLoop => result[main] # "none"
  /\ stage \in {"export", "kill", "over", "export failed"} =>
       pc[main] = "idle" /\ result[main] # "none"

\* After a failure of workload_func the session is on its way out, or over.
FailedEnds ==
  at = "failed" =>
    \/ pc[main] = "work"
    \/ pc[main] \in {"leave", "idle"} /\ result[main] # "none"

RunInv == LoopTyped /\ OneSessionRun /\ FailedEnds

LEMMA RunStart == RunInit => RunInv
  BY DEF RunInit, Init, Loop!Init, RunInv, LoopTyped, OneSessionRun, FailedEnds,
         Loop!Points, Loop!InLoop, Loop!Results

LEMMA RunStep == RunInv /\ [RunNext]_runVars => RunInv' /\ [Next]_vars
<1> SUFFICES ASSUME RunInv, [RunNext]_runVars PROVE RunInv' /\ [Next]_vars
  OBVIOUS
<1> USE DEF RunInv, LoopTyped, OneSessionRun, FailedEnds, Loop!Points, Loop!InLoop,
            Loop!Results, Loop!Go, Loop!Break, vars
<1>1. CASE Setup
  BY <1>1 DEF Setup, Loop!SetFunc
<1>2. CASE Enter
  BY <1>2 DEF Enter, Loop!Call
<1>3. CASE Advance
  <2>1. UNCHANGED <<vars, stage>>
    BY <1>3 DEF Advance
  <2>2. CASE Loop!Claim(main)
    BY <2>1, <2>2 DEF Loop!Claim
  <2>3. CASE Loop!Plan(main)
    BY <2>1, <2>3 DEF Loop!Plan
  <2>4. CASE Loop!Admit(main)
    BY <2>1, <2>4 DEF Loop!Admit
  <2>5. CASE Loop!PreHook(main)
    BY <2>1, <2>5 DEF Loop!PreHook
  <2>6. CASE Loop!Poll(main)
    BY <2>1, <2>6 DEF Loop!Poll
  <2>7. CASE Loop!Import(main)
    BY <2>1, <2>7 DEF Loop!Import
  <2>8. CASE Loop!PostHook(main)
    BY <2>1, <2>8 DEF Loop!PostHook
  <2>9. CASE Loop!CheckClock(main)
    BY <2>1, <2>9 DEF Loop!CheckClock
  <2> QED
    BY <1>3, <2>2, <2>3, <2>4, <2>5, <2>6, <2>7, <2>8, <2>9 DEF Advance
<1>4. CASE StartWork
  <2>1. at # "failed" /\ Begin
    BY <1>4 DEF StartWork, Loop!StartRound
  <2> QED BY <1>4, <2>1 DEF StartWork, Loop!StartRound, Begin, Next
<1>5. CASE Work
  BY <1>5 DEF Work, loopVars, Next
<1>6. CASE FinishWork
  BY <1>6 DEF FinishWork, Loop!FinishRound
<1>7. CASE EndSession
  BY <1>7 DEF EndSession, Loop!Leave
<1>8. CASE Export
  BY <1>8 DEF Export, loopVars
<1>9. CASE Kill
  BY <1>9 DEF Kill, loopVars
<1>10. CASE Sigint
  BY <1>10 DEF Sigint, Loop!Stop
<1>11. CASE Clients
  <2>1. UNCHANGED at
    BY <1>11 DEF Clients, Children, Write, Close, Exit
  <2> QED BY <1>11, <2>1 DEF Clients, loopVars, Next
<1>12. CASE UNCHANGED runVars
  BY <1>12 DEF runVars, loopVars
<1>13. CASE Terminate
  BY <1>13 DEF Terminate, loopVars
<1> QED
  BY <1>1, <1>2, <1>3, <1>4, <1>5, <1>6, <1>7, <1>8, <1>9, <1>10, <1>11, <1>12, <1>13
     DEF RunNext, Tool

(* The session loop calls workload_func only as it can stand it: what      *)
(* holds of the client runner by itself holds of the command.              *)
THEOREM UsedWell == RunSpec => ClientUsedWell
<1>1. RunInit => Init
  BY DEF RunInit
<1> QED
  BY <1>1, RunStart, RunStep, PTL DEF RunSpec, ClientUsedWell, Spec

\* The one child that may run at the end is the one in g_client_pid, and nothing is
\* signalled before the end.
Unsignalled == stage # "over" => signalled = 0

LEMMA EndStep ==
  RunInv /\ ClientInv /\ Unsignalled /\ LastClientOnly /\ [RunNext]_runVars
    => Unsignalled' /\ LastClientOnly'
<1> SUFFICES ASSUME RunInv, ClientInv, Unsignalled, LastClientOnly, [RunNext]_runVars
             PROVE  Unsignalled' /\ LastClientOnly'
  OBVIOUS
<1>1. CASE UNCHANGED <<vars, signalled>> /\ stage \notin Ended /\ stage' # "over"
  <2>1. \A c \in DOMAIN kids : Running(c)' => c = pid
    BY <1>1 DEF ClientInv, OneChild, ReapedOver, Running, vars
  <2>2. signalled' = 0 /\ pid' = pid /\ kids' = kids
    BY <1>1 DEF Unsignalled, Ended, vars
  <2> QED BY <1>1, <2>1, <2>2 DEF Unsignalled, LastClientOnly
<1>2. CASE Kill
  <2>1. UNCHANGED vars /\ signalled' = pid /\ stage' = "over"
    BY <1>2 DEF Kill
  <2>2. \A c \in DOMAIN kids : Running(c)' => c = pid
    BY <2>1 DEF ClientInv, OneChild, ReapedOver, Running, vars
  <2> QED BY <2>1, <2>2 DEF Unsignalled, LastClientOnly, vars
<1>3. CASE Clients
  <2>1. UNCHANGED <<signalled, stage, pid>> /\ kids \in Seq(Child)
    BY <1>3, TypedOK DEF Clients, ClientInv, Typed, Children, Write, Close, Exit
  <2>2. PICK d \in DOMAIN kids, k \in Child : Running(d) /\ kids' = [kids EXCEPT ![d] = k]
    BY <1>3, OneChanged DEF Clients
  <2>3. \A c \in DOMAIN kids' : c \in DOMAIN kids /\ (Running(c)' => Running(c))
    BY <2>1, <2>2, ChildChanged DEF Running
  <2> QED BY <2>1, <2>3 DEF Unsignalled, LastClientOnly
<1>4. CASE UNCHANGED <<kids, pid, stage, signalled>>
  BY <1>4 DEF Unsignalled, LastClientOnly, Running
<1>5. CASE Tool /\ ~Kill
  <2>1. UNCHANGED signalled /\ stage \notin Ended /\ stage' # "over"
    BY <1>5 DEF Tool, Ended, Setup, Enter, Advance, StartWork, Terminate, Work, FinishWork,
                EndSession, Export
  <2>2. \/ stage' \notin Ended
        \/ UNCHANGED vars
    BY <1>5 DEF Tool, Ended, Setup, Enter, Advance, StartWork, Terminate, Work, FinishWork,
                EndSession, Export
  <2> QED BY <1>1, <2>1, <2>2 DEF Unsignalled, LastClientOnly, Ended
<1>6. CASE Sigint \/ UNCHANGED runVars
  BY <1>4, <1>6 DEF Sigint, runVars, vars
<1> QED BY <1>2, <1>3, <1>5, <1>6 DEF RunNext

(* However the program ends, whenever SIGINT came and whatever the clients *)
(* did, at most the last of them runs on, and only after a way out that    *)
(* does not reach the signal.                                              *)
THEOREM OthersWaitedFor == RunSpec => []LastClientOnly
<1>1. RunInit => Unsignalled /\ LastClientOnly
  BY DEF RunInit, Unsignalled, LastClientOnly, Ended
<1>2. RunSpec => []ClientInv
  BY UsedWell, ClientAlways, PTL DEF ClientUsedWell, AllClient
<1> QED
  BY <1>1, <1>2, RunStart, RunStep, EndStep, PTL DEF RunSpec
=============================================================================

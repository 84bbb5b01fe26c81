------------------------ MODULE CurlTransportProofs ------------------------
(***************************************************************************)
(* Upstream calls over curl, for any pipe size, body limit and size of     *)
(* requests and responses, with the script or without: a body reported     *)
(* whole is whole, and a call that returned leaves no process.             *)
(***************************************************************************)
EXTENDS CurlTransport, TLAPS

\* What curl wrote is read or still in the pipe; a process is there once one
\* was started; a body found whole was read to the end of a curl that succeeded.
IInv ==
    /\ TypeOK
    /\ WholeIsWhole
    /\ NothingLeft
    /\ read + Len(stdout) = emitted
    /\ child = "none" <=> curl = "none"
    /\ pc = "start" => child = "none" /\ outcome = "none"
    /\ child = "none" => pc \in {"start", "done"} /\ outcome \in {"none", "failed"}
    /\ outcome = "whole" => pc \in {"close", "wait", "done"} /\ Gone /\ stdout = << >>

\* A call that has not started has read and written nothing.
LEMMA InitOK == Init => IInv
  <1> SUFFICES ASSUME Init PROVE IInv
    OBVIOUS
  <1>1. stdout = << >> /\ stdout \in Seq(Blocks \cup {"chunk"}) /\ Len(stdout) = 0
    BY DEF Init
  <1>2. TypeOK
    BY <1>1, CurlAssumption DEF Init, TypeOK
  <1> QED
    BY <1>1, <1>2 DEF Init, IInv, WholeIsWhole, NothingLeft

\* An item that is read leaves the pipe.
LEMMA TakesCounts ==
    ASSUME TypeOK, Takes
    PROVE  /\ stdout' \in Seq(Blocks \cup {"chunk"}) /\ read' \in Nat
           /\ read' + Len(stdout') = read + Len(stdout)
  BY DEF TypeOK, Takes

\* The caller finds a body whole only where curl has exited with 0.
LEMMA CallerKeeps ==
    ASSUME IInv, Caller
    PROVE  IInv'
  <1> USE DEF IInv, TypeOK, WholeIsWhole, NothingLeft, Gone, AtEOF, writer, process, caller, setup
  <1>0. UNCHANGED setup
    BY DEF Caller
  <1>1. CASE StartFails \/ Starts
    BY <1>0, <1>1 DEF StartFails, Starts
  <1>2. CASE SkipsInterim
    BY <1>0, <1>2, TakesCounts DEF SkipsInterim
  <1>3. CASE TakesHeader
    BY <1>0, <1>3, TakesCounts DEF TakesHeader
  <1>4. CASE HeaderFails
    BY <1>0, <1>4, TakesCounts DEF HeaderFails, Kill
  <1>5. CASE ReadsChunk
    BY <1>0, <1>5, TakesCounts DEF ReadsChunk
  <1>6. CASE HasEnough \/ ReachesEnd \/ Waits
    BY <1>0, <1>6 DEF HasEnough, ReachesEnd, Waits
  <1>7. CASE Closes
    BY <1>0, <1>7 DEF Closes, Kill
  <1> QED
    BY <1>1, <1>2, <1>3, <1>4, <1>5, <1>6, <1>7 DEF Caller

\* The body goroutine touches neither the output nor the processes.
LEMMA WriterKeeps ==
    ASSUME IInv, Writer
    PROVE  IInv'
  <1> USE DEF IInv, WholeIsWhole, NothingLeft, Gone, process, caller, setup
  <1>0. UNCHANGED setup
    BY DEF Writer
  <1>1. CASE Writes
    <2>1. TypeOK'
      BY <1>0, <1>1 DEF TypeOK, Writes
    <2> QED
      BY <1>0, <1>1, <2>1 DEF Writes
  <1>2. CASE ClosesStdin
    <2>1. /\ UNCHANGED <<pc, status, outcome, read, chunks, toWrite, stdin, stdout>>
          /\ UNCHANGED <<child, curl, code, emitted, expired>> /\ stdinOpen' \in BOOLEAN
      BY <1>2 DEF ClosesStdin
    <2>2. TypeOK'
      BY <1>0, <2>1 DEF TypeOK
    <2> QED
      BY <1>0, <2>1, <2>2
  <1> QED
    BY <1>1, <1>2 DEF Writer

\* curl writes nothing once it is gone, and what it writes is in the pipe.
LEMMA CurlKeeps ==
    ASSUME IInv, Curl
    PROVE  IInv'
  <1> USE DEF IInv, TypeOK, WholeIsWhole, NothingLeft, Gone, writer, caller, setup
  <1>0. UNCHANGED setup
    BY DEF Curl
  <1>1. CASE Slurps
    BY <1>0, <1>1 DEF Slurps
  <1>2. ASSUME NEW item \in Blocks \cup {"chunk"}, Emits(item)
        PROVE  /\ stdout' \in Seq(Blocks \cup {"chunk"}) /\ emitted' \in Nat
               /\ read' + Len(stdout') = emitted'
    BY <1>2 DEF Emits
  <1>3. CASE Talks
    <2>1. PICK item \in Blocks :
             Emits(item) /\ curl' = IF item \in {"final", "junk"} THEN "body" ELSE curl
      BY <1>3 DEF Talks
    <2> QED
      BY <1>0, <1>2, <1>3, <2>1 DEF Talks, Emits
  <1>4. CASE SendsBody
    BY <1>0, <1>2, <1>4 DEF SendsBody, Emits
  <1>5. CASE Exits
    BY <1>0, <1>5 DEF Exits
  <1> QED
    BY <1>1, <1>3, <1>4, <1>5 DEF Curl

\* The script and the deadline end processes and start none.
LEMMA RestKeeps ==
    ASSUME IInv, ScriptEnds \/ Deadline \/ UNCHANGED vars
    PROVE  IInv'
  <1> USE DEF IInv, TypeOK, WholeIsWhole, NothingLeft, Gone, writer, caller, setup
  <1>1. CASE ScriptEnds
    BY <1>1 DEF ScriptEnds
  <1>2. CASE Deadline
    BY <1>2 DEF Deadline, Kill
  <1>3. CASE UNCHANGED vars
    BY <1>3 DEF vars
  <1> QED
    BY <1>1, <1>2, <1>3

\* IInv holds in every reachable state.
THEOREM CallSafe == Spec => []IInv
  BY InitOK, CallerKeeps, WriterKeeps, CurlKeeps, RestKeeps, PTL DEF Spec, Next

\* A body reported whole is whole (curl.go:373-381).
THEOREM WholeBodiesAreWhole == Spec => []WholeIsWhole
  <1>1. IInv => WholeIsWhole
    BY DEF IInv
  <1> QED
    BY <1>1, CallSafe, PTL

\* No call leaves a process behind (curl.go:97-104, 383-403).
THEOREM NoneLeft == Spec => []NothingLeft
  <1>1. IInv => NothingLeft
    BY DEF IInv
  <1> QED
    BY <1>1, CallSafe, PTL

-----------------------------------------------------------------------------
(* The status.                                                             *)

\* Without a proxy no answer to CONNECT is ever in the pipe.
Untunnelled == ~tunnelled => \A i \in 1 .. Len(stdout) : stdout[i] # "tunnel"

SInv == Untunnelled /\ StatusIsUpstreams

\* Reading keeps the pipe free of such answers.
LEMMA TakesUntunnelled ==
    ASSUME TypeOK, Untunnelled, Takes, UNCHANGED setup
    PROVE  /\ Untunnelled'
           /\ ~tunnelled => Head(stdout) # "tunnel"
  <1>1. stdout \in Seq(Blocks \cup {"chunk"}) /\ stdout # << >>
    BY DEF TypeOK, Takes
  <1>2. /\ Len(stdout) \in Nat \ {0} /\ Head(stdout) = stdout[1]
        /\ Len(Tail(stdout)) = Len(stdout) - 1
        /\ \A i \in 1 .. Len(Tail(stdout)) : Tail(stdout)[i] = stdout[i + 1]
    BY <1>1
  <1> QED
    BY <1>2 DEF Untunnelled, Takes, setup

\* The caller takes its status from the pipe, once.
LEMMA CallerKeepsStatus ==
    ASSUME TypeOK, SInv, Caller
    PROVE  SInv'
  <1> USE DEF SInv, StatusIsUpstreams, writer, process
  <1>0. UNCHANGED setup /\ UNCHANGED <<tunnelled, launched>>
    BY DEF Caller, setup
  <1>1. ASSUME Takes
        PROVE  Untunnelled' /\ (~tunnelled => Head(stdout) # "tunnel")
    BY <1>0, <1>1, TakesUntunnelled
  <1>2. ASSUME UNCHANGED stdout
        PROVE  Untunnelled'
    BY <1>0, <1>2 DEF Untunnelled
  <1>3. CASE StartFails \/ Starts
    BY <1>0, <1>2, <1>3 DEF StartFails, Starts
  <1>4. CASE SkipsInterim
    BY <1>0, <1>1, <1>4 DEF SkipsInterim
  <1>5. CASE TakesHeader
    BY <1>0, <1>1, <1>5 DEF TakesHeader
  <1>6. CASE HeaderFails
    BY <1>0, <1>1, <1>2, <1>6 DEF HeaderFails
  <1>7. CASE ReadsChunk
    BY <1>0, <1>1, <1>7 DEF ReadsChunk
  <1>8. CASE HasEnough \/ ReachesEnd \/ Closes \/ Waits
    BY <1>0, <1>2, <1>8 DEF HasEnough, ReachesEnd, Closes, Waits
  <1> QED
    BY <1>3, <1>4, <1>5, <1>6, <1>7, <1>8 DEF Caller

\* curl writes an answer to CONNECT only through a proxy.
LEMMA CurlKeepsStatus ==
    ASSUME TypeOK, SInv, Curl
    PROVE  SInv'
  <1>0. UNCHANGED setup /\ UNCHANGED <<tunnelled, launched>>
    BY DEF Curl, setup
  <1>1. ASSUME NEW item \in Blocks \cup {"chunk"}, Emits(item),
               ~tunnelled => item # "tunnel"
        PROVE  Untunnelled'
    <2>1. /\ stdout \in Seq(Blocks \cup {"chunk"})
          /\ stdout' = Append(stdout, item)
      BY <1>1 DEF TypeOK, Emits
    <2>2. /\ Len(stdout') = Len(stdout) + 1 /\ Len(stdout) \in Nat
          /\ \A i \in 1 .. Len(stdout') :
                stdout'[i] = IF i = Len(stdout) + 1 THEN item ELSE stdout[i]
      BY <2>1
    <2> QED
      BY <1>0, <1>1, <2>2 DEF SInv, Untunnelled
  <1>2. CASE Talks
    <2>1. PICK item \in Blocks :
             Emits(item) /\ (item = "tunnel" <=> tunnelled /\ emitted = 0)
      BY <1>2 DEF Talks
    <2>2. Untunnelled'
      BY <1>1, <2>1
    <2> QED
      BY <1>0, <2>1, <2>2 DEF Emits, SInv, StatusIsUpstreams, caller
  <1>3. CASE SendsBody
    <2>1. Untunnelled'
      BY <1>1, <1>3 DEF SendsBody
    <2> QED
      BY <1>0, <1>3, <2>1 DEF SendsBody, Emits, SInv, StatusIsUpstreams, caller
  <1>4. CASE Slurps \/ Exits
    BY <1>0, <1>4 DEF Slurps, Exits, SInv, Untunnelled, StatusIsUpstreams, caller
  <1> QED
    BY <1>2, <1>3, <1>4 DEF Curl

\* Nobody else touches the pipe or the status.
LEMMA OthersKeepStatus ==
    ASSUME SInv, Writer \/ ScriptEnds \/ Deadline \/ UNCHANGED vars
    PROVE  SInv'
  <1>1. UNCHANGED <<tunnelled, stdout, pc, status>>
    BY DEF Writer, Writes, ClosesStdin, ScriptEnds, Deadline, vars, setup, caller
  <1> QED
    BY <1>1 DEF SInv, Untunnelled, StatusIsUpstreams

\* The status is the upstream's where there is no proxy (curl.go:318-362).
THEOREM StatusesAreUpstreams == Spec => []StatusIsUpstreams
  <1>1. Init => SInv
    BY DEF Init, SInv, Untunnelled, StatusIsUpstreams
  <1>2. IInv => TypeOK
    BY DEF IInv
  <1>3. TypeOK /\ SInv /\ [Next]_vars => SInv'
    BY CallerKeepsStatus, CurlKeepsStatus, OthersKeepStatus DEF Next
  <1>4. SInv => StatusIsUpstreams
    BY DEF SInv
  <1> QED
    BY <1>1, <1>2, <1>3, <1>4, CallSafe, PTL DEF Spec
=============================================================================

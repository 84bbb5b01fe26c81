---------------------------- MODULE CurlTransport ----------------------------
(***************************************************************************)
(* One upstream call over curl-impersonate (internal/httpclient/curl.go):  *)
(* the caller, the goroutine that writes the request body, the child       *)
(* process, the pipes between them, and the deadline of the client.        *)
(*                                                                         *)
(* curl is modelled by what its options make it do: it reads the whole     *)
(* body from stdin, then writes the header blocks it receives and the body *)
(* of the response to stdout (--dump-header -), and may stay silent or     *)
(* fail at any point.  A pipe holds PipeSize items; an item is a header    *)
(* block or a chunk of a body.                                             *)
(***************************************************************************)
EXTENDS Naturals, Sequences

CONSTANTS
    RequestSizes,       \* chunks a request body may have
    PipeSize,           \* items a pipe holds
    BodyLimit,          \* chunks the caller reads before it has enough
    MaxEmitted          \* bound: items one response has

ASSUME CurlAssumption ==
    /\ RequestSizes \subseteq Nat
    /\ PipeSize \in Nat \ {0} /\ BodyLimit \in Nat \ {0} /\ MaxEmitted \in Nat

VARIABLES
    tunnelled,          \* an HTTP proxy is set: curl reports its CONNECT answer
    launched,           \* the binary is a script that starts curl as its child
    pc,                 \* where the caller is
    status,             \* the header block it took for the response's
    outcome,            \* what it made of the body
    read,               \* items it has read from stdout
    chunks,             \* chunks of the body among them
    toWrite,            \* chunks the body goroutine has yet to write
    stdinOpen,          \* it has not closed its end
    stdin, stdout,      \* what is in the pipes: a number, a sequence
    child,              \* the process that was started: "none", "up", "gone"
    curl,               \* curl: "none", "slurp", "talk", "body", "gone"
    emitted,            \* items curl wrote to stdout
    code,               \* the exit code Wait will report
    expired             \* the client's timeout has cancelled the context

setup == <<tunnelled, launched>>
vars == <<setup, pc, status, outcome, read, chunks, toWrite, stdinOpen, stdin, stdout,
          child, curl, emitted, code, expired>>

caller == <<pc, status, outcome, read, chunks>>
writer == <<toWrite, stdinOpen>>
process == <<child, curl, code>>

Blocks == {"tunnel", "interim", "final", "junk"}

Init ==
    /\ tunnelled \in BOOLEAN /\ launched \in BOOLEAN
    /\ pc = "start" /\ status = "none" /\ outcome = "none"
    /\ read = 0 /\ chunks = 0
    /\ toWrite \in RequestSizes /\ stdinOpen = TRUE
    /\ stdin = 0 /\ stdout = << >>
    /\ child = "none" /\ curl = "none" /\ emitted = 0 /\ code = 0
    /\ expired = FALSE

-----------------------------------------------------------------------------
(* RoundTrip: start the child, read its header.                            *)

StartFails ==
    /\ pc = "start"
    /\ pc' = "done" /\ outcome' = "failed"
    /\ UNCHANGED <<status, read, chunks, writer, stdin, stdout, process, emitted, expired>>

Starts ==
    /\ pc = "start"
    /\ ~expired
    /\ pc' = "header"
    /\ child' = "up" /\ curl' = "slurp"
    /\ UNCHANGED <<status, outcome, read, chunks, writer, stdin, stdout, emitted, code, expired>>

\* Kill reaches the process that was started, and no other.
Kill ==
    /\ child' = IF child = "up" THEN "gone" ELSE child
    /\ curl' = IF child = "up" /\ ~launched THEN "gone" ELSE curl
    /\ code' = IF child = "up" THEN 1 ELSE code

\* The other end of stdout is closed once no process holds it.
Gone == child = "gone" /\ curl = "gone"
AtEOF == stdout = << >> /\ Gone

Takes == stdout # << >> /\ stdout' = Tail(stdout) /\ read' = read + 1

\* readCurlResponseHeader: 1xx blocks are skipped.
SkipsInterim ==
    /\ pc = "header"
    /\ Takes
    /\ Head(stdout) = "interim"
    /\ UNCHANGED <<pc, status, outcome, chunks, writer, stdin, process, emitted, expired>>

\* Mutant of TakesHeader: the first block is the response.
TakesFirst ==
    /\ pc = "header"
    /\ Takes
    /\ Head(stdout) \in {"interim", "final", "tunnel"}
    /\ pc' = "body"
    /\ status' = Head(stdout)
    /\ UNCHANGED <<outcome, chunks, writer, stdin, process, emitted, expired>>

TakesHeader ==
    /\ pc = "header"
    /\ Takes
    /\ Head(stdout) \in {"final", "tunnel"}
    /\ pc' = "body"
    /\ status' = Head(stdout)
    /\ UNCHANGED <<outcome, chunks, writer, stdin, process, emitted, expired>>

\* Mutant of HeaderFails: the child is left to itself.
HeaderFailsLeaving ==
    /\ pc = "header"
    /\ \/ Takes /\ Head(stdout) = "junk"
       \/ AtEOF /\ UNCHANGED <<stdout, read>>
    /\ pc' = "done" /\ outcome' = "failed"
    /\ UNCHANGED <<status, chunks, writer, stdin, process, emitted, expired>>

\* A block that is no header, or the end of the output: kill, wait, return an error.
HeaderFails ==
    /\ pc = "header"
    /\ \/ Takes /\ Head(stdout) = "junk"
       \/ AtEOF /\ UNCHANGED <<stdout, read>>
    /\ Kill
    /\ pc' = "wait" /\ outcome' = "failed"
    /\ UNCHANGED <<status, chunks, writer, stdin, emitted, expired>>

-----------------------------------------------------------------------------
(* The caller reads the body up to its limit, and closes it.               *)

ReadsChunk ==
    /\ pc = "body"
    /\ chunks < BodyLimit
    /\ Takes
    /\ chunks' = chunks + 1
    /\ UNCHANGED <<pc, status, outcome, writer, stdin, process, emitted, expired>>

HasEnough ==
    /\ pc = "body"
    /\ chunks = BodyLimit
    /\ pc' = "close" /\ outcome' = "enough"
    /\ UNCHANGED <<status, read, chunks, writer, stdin, stdout, process, emitted, expired>>

\* Mutant of ReachesEnd: the end of the output is the end of the body.
ReachesEndTrusting ==
    /\ pc = "body"
    /\ chunks < BodyLimit
    /\ AtEOF
    /\ pc' = "close" /\ outcome' = "whole"
    /\ UNCHANGED <<status, read, chunks, writer, stdin, stdout, process, emitted, expired>>

\* curlResponseBody.Read at EOF: Wait tells whether curl succeeded.
ReachesEnd ==
    /\ pc = "body"
    /\ chunks < BodyLimit
    /\ AtEOF
    /\ pc' = "close"
    /\ outcome' = IF code = 0 THEN "whole" ELSE "cut"
    /\ UNCHANGED <<status, read, chunks, writer, stdin, stdout, process, emitted, expired>>

\* Mutant of Closes: the child may finish what it is doing.
ClosesWaiting ==
    /\ pc = "close"
    /\ pc' = "wait"
    /\ UNCHANGED <<status, outcome, read, chunks, writer, stdin, stdout, process, emitted, expired>>

Closes ==
    /\ pc = "close"
    /\ Kill
    /\ pc' = "wait"
    /\ UNCHANGED <<status, outcome, read, chunks, writer, stdin, stdout, emitted, expired>>

\* cmd.Wait: the child has exited and nobody holds its stderr, which is copied
\* to a buffer.
Waits ==
    /\ pc = "wait"
    /\ Gone
    /\ pc' = "done"
    /\ UNCHANGED <<status, outcome, read, chunks, writer, stdin, stdout, process, emitted, expired>>

Caller ==
    /\ \/ StartFails \/ Starts \/ SkipsInterim \/ TakesHeader \/ HeaderFails
       \/ ReadsChunk \/ HasEnough \/ ReachesEnd \/ Closes \/ Waits
    /\ UNCHANGED setup

-----------------------------------------------------------------------------
(* The goroutine that writes the request body.                             *)

Writes ==
    /\ child # "none" /\ stdinOpen
    /\ toWrite > 0 /\ stdin < PipeSize /\ ~Gone
    /\ toWrite' = toWrite - 1 /\ stdin' = stdin + 1
    /\ UNCHANGED <<caller, stdinOpen, stdout, process, emitted, expired>>

\* All is written, or nobody is left to read it.
ClosesStdin ==
    /\ child # "none" /\ stdinOpen
    /\ toWrite = 0 \/ Gone
    /\ stdinOpen' = FALSE
    /\ UNCHANGED <<caller, toWrite, stdin, stdout, process, emitted, expired>>

Writer == (Writes \/ ClosesStdin) /\ UNCHANGED setup

-----------------------------------------------------------------------------
(* curl, the script that may have started it, and the deadline.            *)

Slurps ==
    /\ curl = "slurp"
    /\ \/ stdin > 0 /\ stdin' = stdin - 1 /\ curl' = curl
       \/ stdin = 0 /\ ~stdinOpen /\ stdin' = stdin /\ curl' = "talk"
    /\ UNCHANGED <<caller, writer, stdout, child, emitted, code, expired>>

Emits(item) ==
    /\ Len(stdout) < PipeSize
    /\ emitted < MaxEmitted
    /\ stdout' = Append(stdout, item)
    /\ emitted' = emitted + 1
    /\ UNCHANGED <<caller, writer, stdin, child, code, expired>>

\* Through a tunnel the proxy's answer to CONNECT is the first block.
Talks ==
    /\ curl = "talk"
    /\ \E item \in Blocks :
          /\ item = "tunnel" <=> tunnelled /\ emitted = 0
          /\ Emits(item)
          /\ curl' = IF item \in {"final", "junk"} THEN "body" ELSE curl

SendsBody ==
    /\ curl = "body"
    /\ Emits("chunk")
    /\ curl' = curl

\* curl exits 0 at the end of the response, and with an error anywhere.
Exits ==
    /\ curl \in {"slurp", "talk", "body"}
    /\ curl' = "gone"
    /\ \E c \in IF curl = "body" THEN {0, 1} ELSE {1} :
          code' = IF child = "gone" THEN code ELSE c
    /\ child' = IF launched THEN child ELSE "gone"
    /\ UNCHANGED <<caller, writer, stdin, stdout, emitted, expired>>

\* The script ends after curl, with its code.
ScriptEnds ==
    /\ launched /\ child = "up" /\ curl = "gone"
    /\ child' = "gone"
    /\ UNCHANGED <<setup, caller, writer, stdin, stdout, curl, code, emitted, expired>>

Curl == (Slurps \/ Talks \/ SendsBody \/ Exits) /\ UNCHANGED setup

\* Mutant of Deadline: exec.Command does not know the context.
DeadlineUnheard ==
    /\ ~expired /\ pc # "done"
    /\ expired' = TRUE
    /\ UNCHANGED <<setup, caller, writer, stdin, stdout, process, emitted>>

\* client.Timeout: the context ends and os/exec kills the child.
Deadline ==
    /\ ~expired /\ pc # "done"
    /\ expired' = TRUE
    /\ Kill
    /\ UNCHANGED <<setup, caller, writer, stdin, stdout, emitted>>

Next == Caller \/ Writer \/ Curl \/ ScriptEnds \/ Deadline

Spec == Init /\ [][Next]_vars

\* The goroutines run and the script ends when curl has; curl owes nothing, and
\* its upstream may be silent.
FairSpec == Spec /\ WF_vars(Caller) /\ WF_vars(Writer) /\ WF_vars(ScriptEnds)

TimePasses == WF_vars(Deadline)

-----------------------------------------------------------------------------
(* Properties.                                                             *)

TypeOK ==
    /\ tunnelled \in BOOLEAN /\ launched \in BOOLEAN
    /\ pc \in {"start", "header", "body", "close", "wait", "done"}
    /\ status \in {"none", "final", "tunnel"}
    /\ outcome \in {"none", "failed", "whole", "cut", "enough"}
    /\ read \in Nat /\ chunks \in Nat
    /\ toWrite \in Nat /\ stdinOpen \in BOOLEAN
    /\ stdin \in Nat /\ stdout \in Seq(Blocks \cup {"chunk"})
    /\ child \in {"none", "up", "gone"}
    /\ curl \in {"none", "slurp", "talk", "body", "gone"}
    /\ emitted \in Nat /\ code \in {0, 1}
    /\ expired \in BOOLEAN

\* A body whose end is reported without an error is the whole body: curl was
\* not cut off and nothing it wrote is missing (curl.go:372-380).
WholeIsWhole ==
    outcome = "whole" => code = 0 /\ curl = "gone" /\ read = emitted

\* A call that has returned leaves no process behind, on any path
\* (curl.go:97-106, 382-403).
NothingLeft == pc = "done" => child = "none" \/ Gone

\* The status a caller sees is the upstream's and no other answer's on the way
\* (curl.go:318-362), as long as there is no proxy: what a proxy answers to
\* CONNECT is taken for it.
StatusIsUpstreams == pc = "body" /\ ~tunnelled => status = "final"

\* A caller that closes the body gets away, however busy curl is with it, and
\* need not wait for the deadline (curl.go:382-387), if what it kills is curl.
CloseEnds == ~launched => (pc = "close" ~> pc = "done")

\* Every call ends, with its goroutine, even if the upstream never answers: a
\* probe is kept short "so the accounts panel does not sit on checking"
\* (service.go:32-33).  With a launcher script it ends only if curl does.
CallEnds ==
    TimePasses /\ (launched => <>(curl = "gone"))
        => <>(pc = "done" /\ (child = "none" \/ ~stdinOpen))
=============================================================================

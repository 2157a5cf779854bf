------------------------------ MODULE LogStream -----------------------------
(***************************************************************************)
(* "kontinuous logs" (packages/kontinuous/src/logs/index.js), also the     *)
(* second half of a deploy on the webhook: the client follows the log of a *)
(* pipeline job through the webhook service (webhook .../logs/             *)
(* pipeline.get.js) and exits with the verdict the service appends to it.  *)
(*                                                                         *)
(* A stream is what the service writes: the log of the job, the line of    *)
(* the end flag, then the verdict as JSON, without newline.  The output of *)
(* kubectl is piped into the response as it comes, and what lies between   *)
(* (proxies, sockets, buffers) cuts and glues the bytes elsewhere; the     *)
(* client glues its chunks back into lines.  Tokens stand for the parts a  *)
(* cut can separate.                                                       *)
(***************************************************************************)
EXTENDS Naturals, Sequences

CONSTANTS
  Retries,  \* retries of async-retry: 10
  Log       \* what the service writes of the job, as tokens

\* Text, such as a progress dot; the parts of a line that looks like a verdict,
\* "state" with "ok" or "ko"; the two halves of the end flag.
Token == {"text", "state", "ok", "ko", "KONTINUOUS", "END", "nl"}
Flag == <<"KONTINUOUS", "END">>
State(v) == <<"state", v>>
Verdict == {"ok", "ko"}

\* The log is anything but the flag, and the service ends it with a line of its
\* own (pipeline.get.js:180-190).
ASSUME LogStreamType ==
  /\ Retries \in Nat
  /\ Log \in Seq(Token) /\ Len(Log) > 0 /\ Log[Len(Log)] = "nl"
  /\ \A i \in 1..(Len(Log) - 1) : ~(Log[i] = "KONTINUOUS" /\ Log[i + 1] = "END")

Stream(v) == Log \o Flag \o <<"nl">> \o State(v)
Length == Len(Log) + 5

\* The positions where the service may end a write: anywhere in the log, then
\* after the flag and after the verdict.
Writes == 0..Len(Log) \union {Len(Log) + 3, Length}

VARIABLES
  attempt,   \* requests sent
  conn,      \* "idle" before a request, "open", "done" after the last one
  word,      \* the verdict of the stream of this request
  pos,       \* tokens of that stream received
  line,      \* currentLine
  finished,  \* the end flag was seen, or a refusal made retrying useless
  final,     \* finalState: "none" or its field ok
  exit,      \* the exit code, once the client ended
  whole      \* history: the chunks of this request ended with a write

logVars == <<attempt, conn, word, pos, line, finished, final, exit, whole>>

LogTypeOK ==
  /\ attempt \in 0..(Retries + 1)
  /\ conn \in {"idle", "open", "done"}
  /\ word \in Verdict \union {"none"}
  /\ pos \in 0..Length
  /\ line \in Seq(Token \union {"undefined"})
  /\ finished \in BOOLEAN
  /\ final \in Verdict \union {"none"}
  /\ exit \in {"none", "0", "1"} /\ whole \in BOOLEAN

LogInit ==
  /\ attempt = 0 /\ conn = "idle" /\ word = "none" /\ pos = 0
  /\ line = <<>> /\ finished = FALSE /\ final = "none" /\ exit = "none"
  /\ whole = TRUE

-----------------------------------------------------------------------------
(* handleOut: a chunk is split at its newlines.  A part is the stretch      *)
(* from..to between two of them, the first one completed by currentLine.    *)

Newlines(chunk) == {i \in 1..Len(chunk) : chunk[i] = "nl"}

Parts(chunk) ==
  LET starts == {1} \union {i + 1 : i \in Newlines(chunk)}
      ends == {Len(chunk)} \union {i - 1 : i \in Newlines(chunk)}
  IN {p \in starts \X ends :
        p[1] <= p[2] + 1 /\ \A i \in Newlines(chunk) : i \notin p[1]..p[2]}

Text(chunk, part) ==
  (IF part[1] = 1 THEN line ELSE <<>>) \o SubSeq(chunk, part[1], part[2])

\* What is left in currentLine: nexts.pop(), undefined in a chunk without
\* newline.
LineAfter(chunk) ==
  IF Newlines(chunk) = {} THEN <<"undefined">>
  ELSE LET last == CHOOSE i \in Newlines(chunk) :
                     \A j \in Newlines(chunk) : j <= i
       IN SubSeq(chunk, last + 1, Len(chunk))

\* The parts that are the flag.
Flags(chunk) == {p \in Parts(chunk) : Text(chunk, p) = Flag}

-----------------------------------------------------------------------------
(* Faulty variants of the definitions below, each a slip this code could    *)
(* contain: retries not counted, any JSON taken for   *)
(* the verdict, the last part of a chunk not looked at.                     *)

NotCounted == attempt
AnyState(chunk) ==
  {v \in Verdict : \E p \in Parts(chunk) : Text(chunk, p) = State(v)}
AllButLastPart(chunk) ==
  {v \in Verdict : \E p \in Parts(chunk) :
     /\ Text(chunk, p) = State(v) /\ p[2] < Len(chunk)
     /\ finished \/ \E f \in Flags(chunk) : f[2] < p[1]}

-----------------------------------------------------------------------------
\* The verdicts read in a chunk: JSON lines that come after the flag.
Heard(chunk) ==
  {v \in Verdict : \E p \in Parts(chunk) :
     /\ Text(chunk, p) = State(v)
     /\ finished \/ \E f \in Flags(chunk) : f[2] < p[1]}

\* The requests sent, this one included.
Counted == attempt + 1

\* Whether async-retry grants another request.
MoreTries == attempt <= Retries

-----------------------------------------------------------------------------
\* The service answers and will end its stream with v: "ok" if the log could
\* be followed to its end, "ko" if the job was not found or the tail failed.
Open ==
  /\ conn = "idle"
  /\ attempt' = Counted
  /\ conn' = "open" /\ pos' = 0 /\ line' = <<>> /\ whole' = TRUE
  /\ word' \in Verdict
  /\ UNCHANGED <<finished, final, exit>>

\* The service answers with an error: bail.
Refused ==
  /\ conn = "idle"
  /\ attempt' = Counted
  /\ conn' = "done" /\ finished' = TRUE /\ word' = "none" /\ pos' = 0
  /\ UNCHANGED <<line, final, exit, whole>>

\* The service cannot be reached: a network error, once axios-retry gave up.
Unreachable ==
  /\ conn = "idle"
  /\ attempt' = Counted
  /\ conn' = "done" /\ word' = "none" /\ pos' = 0
  /\ UNCHANGED <<line, finished, final, exit, whole>>

\* handleOut on the chunk that ends at position k.
Receive(k) ==
  LET chunk == SubSeq(Stream(word), pos + 1, k) IN
  /\ conn = "open" /\ k > pos
  /\ pos' = k /\ whole' = (whole /\ k \in Writes)
  /\ line' = LineAfter(chunk)
  /\ finished' = (finished \/ Flags(chunk) # {})
  /\ final' \in (IF Heard(chunk) = {} THEN {final} ELSE Heard(chunk))
  /\ UNCHANGED <<attempt, conn, word, exit>>

\* The stream ends cleanly, whole or cut short by a proxy or by the end of
\* the service: retry unless the flag was seen.
End ==
  /\ conn = "open"
  /\ conn' = IF ~finished /\ MoreTries THEN "idle" ELSE "done"
  /\ UNCHANGED <<attempt, word, pos, line, finished, final, exit, whole>>

\* The connection breaks: the catch returns, and async-retry takes a return
\* for a success.
Broken ==
  /\ conn = "open"
  /\ conn' = "done"
  /\ UNCHANGED <<attempt, word, pos, line, finished, final, exit, whole>>

Exit ==
  /\ conn = "done" /\ exit = "none"
  /\ exit' = IF finished /\ final = "ok" THEN "0" ELSE "1"
  /\ UNCHANGED <<attempt, conn, word, pos, line, finished, final, whole>>

LogNext ==
  \/ Open
  \/ Refused
  \/ Unreachable
  \/ \E k \in 1..Length : Receive(k)
  \/ End
  \/ Broken
  \/ Exit

\* A job has a deadline of an hour (pipeline.job.js:91), so its log ends, and
\* with it the stream of the service.
LogFairness == WF_logVars(LogNext)

LogSpec == LogInit /\ [][LogNext]_logVars /\ LogFairness

-----------------------------------------------------------------------------
\* The client exits with 0 only when the last word of the service was ok and
\* was received: no line of the job is mistaken for it, and no piece of an
\* interrupted stream counts (logs/index.js:73-84).
ExitZeroIsServersWord == exit = "0" => word = "ok" /\ pos = Length

\* When the chunks are the writes of the service, or several of them glued, a
\* stream received to its end is understood, flag and verdict, and the client
\* asks no more (logs/index.js:85-95).
WholeStreamIsHeard ==
  conn # "open" /\ pos = Length /\ whole => finished /\ final = word

\* The client gives up or gets its answer, whatever the service does.
ClientEnds == <>(exit # "none")

=============================================================================

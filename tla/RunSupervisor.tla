--------------------------- MODULE RunSupervisor ---------------------------
(***************************************************************************)
(* cspip run (cmdRun in cmd/cspip/main.go): the Go wrapper starts          *)
(* cspip-runtime with its stderr on a pipe, a goroutine reads the pipe for *)
(* the line "Container <id> started (PID <n>)" and forwards the rest, a    *)
(* second goroutine samples the container, and the main goroutine waits    *)
(* for each of them, with a timeout where it cannot be sure of an answer,  *)
(* before it saves the run record.  cspip report may load that record at   *)
(* any moment, and both cspip and the runtime may be killed at any moment. *)
(*                                                                         *)
(* The pipe carries chunks: a line of text ("text"), an empty line         *)
(* ("blank"), text without a newline ("part"), and the announcement        *)
(* ("ann").  A chunk is known by its position in what was written.         *)
(***************************************************************************)
EXTENDS Naturals, Sequences

CONSTANTS
  Chunks,       \* what the runtime and the container print besides "ann"
  MayTimeout,   \* the timers that may expire: "start", "profiler"
  MayDie,       \* who may be killed: "cspip", "runtime"
  MaxChunks,    \* bound: chunks written
  MaxSamples    \* bound: samples told apart

ASSUME ChunkAssumption == Chunks \subseteq {"text", "blank", "part"}
ASSUME TimerAssumption == MayTimeout \subseteq {"start", "profiler"}
ASSUME KillAssumption == MayDie \subseteq {"cspip", "runtime"}
ASSUME BoundAssumption == MaxChunks \in Nat /\ MaxSamples \in Nat

VARIABLES
  rt, cont,     \* cspip-runtime; the init of its container
  reused,       \* the container's PID names another process again
  written,      \* every chunk written to the pipe
  open,         \* our end of the pipe is open
  taken,        \* chunks the reader took from the pipe into its buffer
  seen,         \* chunks the reader took from its buffer
  line,         \* the chunks of the line being assembled
  forwarded,    \* the chunks forwarded to our stderr, in order
  reader, startCh,
  sampler, samples, profilerDone,
  main, info, series, record,
  shown         \* the length of the series the last report showed

rtVars      == <<rt, cont, reused>>
pipeVars    == <<written, open>>
readerVars  == <<taken, seen, line, forwarded, reader>>
samplerVars == <<sampler, samples>>
mainVars    == <<main, info, series, record, shown>>
vars == <<rt, cont, reused, written, open, taken, seen, line, forwarded, reader,
          startCh, sampler, samples, profilerDone, main, info, series, record,
          shown>>

Absent == <<>>
Indices == 1 .. MaxChunks
Series == 0 .. MaxSamples      \* the length of a series; 0 for nil, too

\* TypeOK: the variables have their types, the reader never consumes what it has
\* not taken, and the sampler only runs with a PID to follow (main.go:237-244).
TypeOK ==
  /\ rt \in {"starting", "cloned", "waiting", "exited"}
  /\ cont \in {"none", "alive", "zombie", "gone"}
  /\ reused \in BOOLEAN /\ open \in BOOLEAN
  /\ written \in Seq(Chunks \cup {"ann"})
  /\ taken \in 0 .. Len(written) /\ seen \in 0 .. taken
  /\ line \in Seq(Indices) /\ forwarded \in Seq(Indices)
  /\ reader \in {"read", "send", "send_empty", "copy", "done"}
  /\ startCh \in Seq({"started", "empty"})
  /\ sampler \in {"off", "init", "loop", "send", "done"}
  /\ samples \in Series
  /\ profilerDone \in Seq(Series)
  /\ main \in {"wait_start", "wait_cmd", "collect", "save", "exit", "killed"}
  /\ info \in {"empty", "started"}
  /\ series \in Series
  /\ record \in {"none", "torn", "saved"}
  /\ shown \in Seq(Series)
  /\ sampler # "off" => info = "started"

Init ==
  /\ rt = "starting" /\ cont = "none" /\ reused = FALSE
  /\ written = <<>> /\ open = TRUE
  /\ taken = 0 /\ seen = 0 /\ line = <<>> /\ forwarded = <<>>
  /\ reader = "read" /\ startCh = <<>>
  /\ sampler = "off" /\ samples = 0 /\ profilerDone = <<>>
  /\ main = "wait_start" /\ info = "empty" /\ series = 0 /\ record = "none"
  /\ shown = Absent

\* Returning from cmdRun ends the process and its goroutines, like a signal.
Up == main \notin {"exit", "killed"}

-----------------------------------------------------------------------------
(* cspip-runtime and its container (container_run), the writers of the pipe *)

Write(c) == open /\ Len(written) < MaxChunks /\ written' = Append(written, c)

\* A warning of the runtime, on a line of its own: of a limit, of
\* cgroup_add_pid or of write_state before the announcement, or of the last
\* write_state when waitpid has returned.
RtWarn ==
  /\ rt \in {"starting", "cloned"} \/ (rt = "waiting" /\ cont = "zombie")
  /\ Write("text") /\ "text" \in Chunks
  /\ UNCHANGED <<rtVars, open, readerVars, startCh, samplerVars, profilerDone, mainVars>>

RtClone ==
  /\ rt = "starting"
  /\ rt' = "cloned" /\ cont' = "alive"
  /\ UNCHANGED <<reused, pipeVars, readerVars, startCh, samplerVars, profilerDone,
                 mainVars>>

RtAnnounce ==
  /\ rt = "cloned" /\ Write("ann")
  /\ rt' = "waiting"
  /\ UNCHANGED <<cont, reused, open, readerVars, startCh, samplerVars, profilerDone,
                 mainVars>>

\* container_run fails before clone.
RtFail ==
  /\ rt = "starting" /\ rt' = "exited"
  /\ UNCHANGED <<cont, reused, pipeVars, readerVars, startCh, samplerVars,
                 profilerDone, mainVars>>

\* waitpid, the last record, exit.
RtExit ==
  /\ rt = "waiting" /\ cont = "zombie"
  /\ rt' = "exited" /\ cont' = "gone"
  /\ UNCHANGED <<reused, pipeVars, readerVars, startCh, samplerVars, profilerDone,
                 mainVars>>

\* The runtime is killed, by a user or by SIGPIPE when cspip is gone; the
\* container stays, and its zombie is reaped by the host.
RtKilled ==
  /\ "runtime" \in MayDie
  /\ rt \in {"starting", "cloned", "waiting"} /\ rt' = "exited"
  /\ UNCHANGED <<cont, reused, pipeVars, readerVars, startCh, samplerVars,
                 profilerDone, mainVars>>

HostReap ==
  /\ rt = "exited" /\ cont = "zombie" /\ cont' = "gone"
  /\ UNCHANGED <<rt, reused, pipeVars, readerVars, startCh, samplerVars,
                 profilerDone, mainVars>>

\* The container inherited the pipe: it may print before the announcement.
ContWrite ==
  /\ cont = "alive" /\ \E c \in Chunks : Write(c)
  /\ UNCHANGED <<rtVars, open, readerVars, startCh, samplerVars, profilerDone, mainVars>>

ContExit ==
  /\ cont = "alive" /\ cont' = "zombie"
  /\ UNCHANGED <<rt, reused, pipeVars, readerVars, startCh, samplerVars, profilerDone,
                 mainVars>>

PidReused ==
  /\ cont = "gone" /\ ~reused /\ reused' = TRUE
  /\ UNCHANGED <<rt, cont, pipeVars, readerVars, startCh, samplerVars, profilerDone,
                 mainVars>>

-----------------------------------------------------------------------------
(* The goroutine that reads the pipe *)

\* Every writer is gone and the pipe is empty, or Wait closed our end.
NoMoreInput == \/ rt = "exited" /\ cont # "alive" /\ taken = Len(written)
               \/ ~open

\* bufio takes what the pipe holds, or a part of it.
ReaderFill ==
  /\ Up /\ reader \in {"read", "copy"} /\ open
  /\ seen = taken
  /\ \E k \in taken + 1 .. Len(written) : taken' = k
  /\ UNCHANGED <<rtVars, pipeVars, seen, line, forwarded, reader, startCh,
                 samplerVars, profilerDone, mainVars>>

Terminated(c) == c # "part"

\* ReadString returns a line that Sscanf takes for the announcement: nothing
\* stands before it.
IsAnnouncement(l) == Len(l) = 1 /\ written[l[1]] = "ann"

\* trimmed != "": a line with nothing but its newline is not forwarded.
IsBlank(l) == \A i \in DOMAIN l : written[l[i]] = "blank"

\* Fault: a line that is not the announcement ends the search for it.
AfterLineGivesUp(l) == IF IsAnnouncement(l) THEN "send" ELSE "send_empty"

AfterLine(l) == IF IsAnnouncement(l) THEN "send" ELSE "read"

\* ReadString takes the next chunk; at a newline the line is looked at.
ReaderLine ==
  /\ Up /\ reader = "read" /\ seen < taken
  /\ seen' = seen + 1
  /\ LET l == Append(line, seen + 1) IN
     IF Terminated(written[seen + 1])
     THEN /\ line' = <<>>
          /\ forwarded' = IF IsBlank(l) THEN forwarded ELSE forwarded \o l
          /\ reader' = AfterLine(l)
     ELSE line' = l /\ UNCHANGED <<forwarded, reader>>
  /\ UNCHANGED <<rtVars, pipeVars, taken, startCh, samplerVars, profilerDone, mainVars>>

\* ReadString fails: what is left of a line is forwarded, and the main
\* goroutine learns that there was no announcement.
ReaderError ==
  /\ Up /\ reader = "read" /\ seen = taken /\ NoMoreInput
  /\ forwarded' = forwarded \o line
  /\ line' = <<>>
  /\ reader' = "send_empty"
  /\ UNCHANGED <<rtVars, pipeVars, taken, seen, startCh, samplerVars, profilerDone,
                 mainVars>>

\* Fault: the reader goes on looking for announcements after the first one.
AfterSendLoops == "read"

AfterSend == "copy"

\* startCh has room for one value.
ReaderSend ==
  /\ Up /\ reader = "send" /\ startCh = <<>>
  /\ startCh' = <<"started">>
  /\ reader' = AfterSend
  /\ UNCHANGED <<rtVars, pipeVars, taken, seen, line, forwarded, samplerVars,
                 profilerDone, mainVars>>

ReaderSendEmpty ==
  /\ Up /\ reader = "send_empty" /\ startCh = <<>>
  /\ startCh' = <<"empty">>
  /\ reader' = "done"
  /\ UNCHANGED <<rtVars, pipeVars, taken, seen, line, forwarded, samplerVars,
                 profilerDone, mainVars>>

\* Fault: the copy starts from the pipe and skips what bufio holds.
CopiedChunksUnbuffered == {taken}

CopiedChunks == {seen + 1}

\* io.Copy of the rest.
ReaderCopy ==
  /\ Up /\ reader = "copy" /\ seen < taken
  /\ \E k \in CopiedChunks :
       /\ forwarded' = Append(forwarded, k)
       /\ seen' = k
  /\ UNCHANGED <<rtVars, pipeVars, taken, line, reader, startCh, samplerVars,
                 profilerDone, mainVars>>

ReaderCopyEnd ==
  /\ Up /\ reader = "copy" /\ seen = taken /\ NoMoreInput
  /\ reader' = "done"
  /\ UNCHANGED <<rtVars, pipeVars, taken, seen, line, forwarded, startCh, samplerVars,
                 profilerDone, mainVars>>

-----------------------------------------------------------------------------
(* The goroutine that runs StartSampler *)

ProcExists == cont \in {"alive", "zombie"} \/ reused

SamplerInit ==
  /\ Up /\ sampler = "init"
  /\ sampler' = "loop"
  /\ UNCHANGED <<rtVars, pipeVars, readerVars, startCh, samples, profilerDone, mainVars>>

\* The cgroup cannot be read: StartSampler returns nil.
SamplerInitFail ==
  /\ Up /\ sampler = "init"
  /\ sampler' = "send"
  /\ UNCHANGED <<rtVars, pipeVars, readerVars, startCh, samples, profilerDone, mainVars>>

SamplerSample ==
  /\ Up /\ sampler = "loop" /\ ProcExists
  /\ samples' = IF samples < MaxSamples THEN samples + 1 ELSE samples
  /\ UNCHANGED <<rtVars, pipeVars, readerVars, startCh, sampler, profilerDone, mainVars>>

SamplerStop ==
  /\ Up /\ sampler = "loop" /\ ~ProcExists
  /\ sampler' = "send"
  /\ UNCHANGED <<rtVars, pipeVars, readerVars, startCh, samples, profilerDone, mainVars>>

SamplerSend ==
  /\ Up /\ sampler = "send" /\ profilerDone = <<>>
  /\ profilerDone' = <<samples>>
  /\ sampler' = "done"
  /\ UNCHANGED <<rtVars, pipeVars, readerVars, startCh, samples, mainVars>>

-----------------------------------------------------------------------------
(* The main goroutine *)

\* Fault: the profiler is started whatever the reader sent.
MainStartedAlways ==
  /\ main = "wait_start" /\ startCh # <<>>
  /\ info' = Head(startCh) /\ startCh' = Tail(startCh)
  /\ sampler' = "init"
  /\ main' = "wait_cmd"
  /\ UNCHANGED <<rtVars, pipeVars, readerVars, samples, profilerDone, series, record, shown>>

MainStarted ==
  /\ main = "wait_start" /\ startCh # <<>>
  /\ info' = Head(startCh) /\ startCh' = Tail(startCh)
  /\ sampler' = IF info' = "started" THEN "init" ELSE sampler
  /\ main' = "wait_cmd"
  /\ UNCHANGED <<rtVars, pipeVars, readerVars, samples, profilerDone, series, record, shown>>

\* 15 s without an answer: no profiler and no record for this run.
MainStartTimeout ==
  /\ "start" \in MayTimeout
  /\ main = "wait_start" /\ main' = "wait_cmd"
  /\ UNCHANGED <<rtVars, pipeVars, readerVars, startCh, samplerVars, profilerDone,
                 info, series, record, shown>>

\* cmd.Wait returns once the runtime exited, and closes the pipe.
MainWait ==
  /\ main = "wait_cmd" /\ rt = "exited"
  /\ open' = FALSE
  /\ main' = IF sampler = "off" THEN "save" ELSE "collect"
  /\ UNCHANGED <<rtVars, written, readerVars, startCh, samplerVars, profilerDone,
                 info, series, record, shown>>

MainCollect ==
  /\ main = "collect" /\ profilerDone # <<>>
  /\ series' = Head(profilerDone) /\ profilerDone' = Tail(profilerDone)
  /\ main' = "save"
  /\ UNCHANGED <<rtVars, pipeVars, readerVars, startCh, samplerVars, info, record, shown>>

\* Fault: main takes the slice the sampler is still appending to.
MainCollectTimeoutShares ==
  /\ "profiler" \in MayTimeout
  /\ main = "collect" /\ main' = "save"
  /\ series' = samples
  /\ UNCHANGED <<rtVars, pipeVars, readerVars, startCh, samplerVars, profilerDone,
                 info, record, shown>>

\* Fault: main waits for the sampler without a timeout.
MainCollectTimeoutNever == main = "collect" /\ FALSE /\ UNCHANGED vars

\* 3 s after the exit: the series stays nil.
MainCollectTimeout ==
  /\ "profiler" \in MayTimeout
  /\ main = "collect" /\ main' = "save"
  /\ UNCHANGED <<rtVars, pipeVars, readerVars, startCh, samplerVars, profilerDone,
                 info, series, record, shown>>

\* store.Save: os.WriteFile truncates the file and then writes it.
MainSave ==
  /\ main = "save" /\ info = "started"
  /\ \/ record = "none" /\ record' = "torn" /\ UNCHANGED main
     \/ record = "torn" /\ record' = "saved" /\ main' = "exit"
  /\ UNCHANGED <<rtVars, pipeVars, readerVars, startCh, samplerVars, profilerDone,
                 info, series, shown>>

\* Save fails: a warning; a truncated file may stay behind.
MainSaveFail ==
  /\ main = "save" /\ info = "started"
  /\ main' = "exit"
  /\ UNCHANGED <<rtVars, pipeVars, readerVars, startCh, samplerVars, profilerDone,
                 info, series, record, shown>>

MainNoRecord ==
  /\ main = "save" /\ info = "empty"
  /\ main' = "exit"
  /\ UNCHANGED <<rtVars, pipeVars, readerVars, startCh, samplerVars, profilerDone,
                 info, series, record, shown>>

\* A signal ends cspip, its goroutines and its end of the pipe.
Killed ==
  /\ "cspip" \in MayDie
  /\ Up /\ main' = "killed" /\ open' = FALSE
  /\ UNCHANGED <<rtVars, written, readerVars, startCh, samplerVars, profilerDone,
                 info, series, record, shown>>

-----------------------------------------------------------------------------
(* cspip report, another process *)

\* Fault: a record that does not parse is taken for an empty one.
LoadUnchecked ==
  /\ record # "none"
  /\ shown' = <<IF record = "saved" THEN series ELSE 0>>
  /\ UNCHANGED <<rtVars, pipeVars, readerVars, startCh, samplerVars, profilerDone,
                 main, info, series, record>>

\* store.Load: a file that is missing, or still being written, is an error and
\* nothing is shown.
Load ==
  /\ record = "saved"
  /\ shown' = <<series>>
  /\ UNCHANGED <<rtVars, pipeVars, readerVars, startCh, samplerVars, profilerDone,
                 main, info, series, record>>

-----------------------------------------------------------------------------

Runtime == RtWarn \/ RtClone \/ RtAnnounce \/ RtFail \/ RtExit \/ RtKilled
Container == ContWrite \/ ContExit \/ HostReap \/ PidReused
Reader == \/ ReaderFill \/ ReaderLine \/ ReaderError \/ ReaderSend \/ ReaderSendEmpty
          \/ ReaderCopy \/ ReaderCopyEnd
Sampler == \/ SamplerInit \/ SamplerInitFail \/ SamplerSample \/ SamplerStop
           \/ SamplerSend
Main == \/ MainStarted \/ MainStartTimeout \/ MainWait \/ MainCollect
        \/ MainCollectTimeout \/ MainSave \/ MainSaveFail \/ MainNoRecord

Next == Runtime \/ Container \/ Reader \/ Sampler \/ Main \/ Killed \/ Load

Spec == Init /\ [][Next]_vars

\* Goroutines and the runtime are scheduled, and timers expire: the 15 s timer
\* is what ends the wait for a container that outlives its runtime in silence.
\* Nothing makes a container exit, and nobody has to be killed.
FairSpec == /\ Spec
            /\ WF_vars(RtClone \/ RtAnnounce \/ RtExit)
            /\ WF_vars(Reader) /\ WF_vars(Sampler)
            /\ WF_vars(Main)

-----------------------------------------------------------------------------
(* Properties *)

\* No goroutine is left blocked in a send: main may have given up on it, and
\* each channel has room for the single value it will ever carry
\* (main.go:194, 240: buffered channels, one send on every path).
SendsNeverBlock ==
  /\ reader \in {"send", "send_empty"} => startCh = <<>>
  /\ sampler = "send" => profilerDone = <<>>

\* What the reader takes is forwarded in the order it was written, once, and
\* nothing but blank lines is left out, across the hand-over from ReadString to
\* io.Copy of the same bufio.Reader (main.go:200-227).
ForwardedInOrder ==
  LET out == forwarded \o line IN
  /\ \A i, j \in DOMAIN out : i < j => out[i] < out[j]
  /\ \A k \in 1 .. seen : written[k] = "blank" \/ \E i \in DOMAIN out : out[i] = k

\* A series is only saved when the sampler has finished it: main never shares
\* the slice with a sampler that still appends to it (main.go:255-265).
SavedSeriesIsFinal ==
  record = "saved" /\ series > 0 => sampler = "done" /\ series = samples

\* A report shows the whole record or nothing, also while it is being written
\* and after a kill half-way (db.go:51, 68-90); what is stored has all of the
\* samples or none, and what was shown once is what any later report shows.
Stored == INSTANCE RunRecord WITH
  taken <- samples, finished <- sampler = "done",
  stored <- IF record = "saved" THEN <<series>> ELSE Absent
FollowsRunRecord == Stored!Spec

\* Once the runtime exited or was killed cmdRun returns, even if the sampler
\* follows a recycled PID for ever, or the container lives on (main.go:229-265).
RunReturns == (rt = "exited") ~> ~Up

\* An announcement on a line of its own is recognised and sent to main, whatever
\* precedes it, and whether or not main still waits for it, unless cmdRun has
\* returned (main.go:202-219).
AnnouncementArrives ==
  (\E i \in DOMAIN written :
     written[i] = "ann" /\ (i = 1 \/ written[i - 1] # "part"))
    ~> (info = "started" \/ startCh = <<"started">> \/ ~Up)

\* main.go:173: all other stderr lines are forwarded.
EverythingForwarded ==
  main = "exit" => \A i \in DOMAIN written : \E j \in DOMAIN forwarded : forwarded[j] = i
=============================================================================

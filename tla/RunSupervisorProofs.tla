------------------------ MODULE RunSupervisorProofs ------------------------
(***************************************************************************)
(* The safety of cspip run, for any number of chunks and samples: types,   *)
(* channels that never block their sender, the order of what is forwarded, *)
(* and the refinement of RunRecord.                                        *)
(***************************************************************************)
EXTENDS RunSupervisor, SequenceTheorems, TLAPS

\* Each channel is filled once: by the reader before it copies or ends, by the
\* sampler as its last act.
ChannelInv ==
  /\ reader \in {"read", "send", "send_empty"} => startCh = <<>>
  /\ sampler # "done" => profilerDone = <<>>
  /\ profilerDone # <<>> => Len(profilerDone) = 1 /\ profilerDone[1] = samples

\* main waits, collects and saves in this order.
PhaseInv ==
  /\ main = "wait_start" => sampler = "off"
  /\ main \in {"wait_start", "wait_cmd", "collect"} => record = "none"
  /\ main = "save" => record # "saved"
  /\ series # 0 => sampler = "done" /\ series = samples
  /\ Len(written) <= MaxChunks

IInv == TypeOK /\ ChannelInv /\ PhaseInv

USE DEF Indices, Series, Absent

-----------------------------------------------------------------------------
(* Sequences *)

LEMMA EmptyChannel == ASSUME NEW S PROVE <<>> \in Seq(S) /\ Len(<<>>) = 0
OBVIOUS

LEMMA OneValue ==
  ASSUME NEW S, NEW x \in S
  PROVE  <<x>> \in Seq(S) /\ <<x>> # <<>> /\ Len(<<x>>) = 1 /\ <<x>>[1] = x
OBVIOUS

LEMMA Appended ==
  ASSUME NEW S, NEW s \in Seq(S), NEW x \in S
  PROVE  Append(s, x) \in Seq(S) /\ Len(Append(s, x)) = Len(s) + 1
OBVIOUS

LEMMA Received ==
  ASSUME NEW S, NEW s \in Seq(S), s # <<>>
  PROVE  /\ Head(s) \in S /\ Head(s) = s[1] /\ Tail(s) \in Seq(S)
         /\ Len(s) = 1 => Tail(s) = <<>>
<1>1. Head(s) \in S /\ Head(s) = s[1] /\ Tail(s) \in Seq(S) /\ Len(Tail(s)) = Len(s) - 1
  BY HeadTailProperties, EmptySeq
<1> QED
  BY <1>1, EmptySeq

LEMMA Joined ==
  ASSUME NEW S, NEW s \in Seq(S), NEW t \in Seq(S)
  PROVE  s \o t \in Seq(S) /\ Len(s \o t) = Len(s) + Len(t)
OBVIOUS

-----------------------------------------------------------------------------
(* The inductive invariant *)

LEMMA InitInv == Init => IInv
<1> SUFFICES ASSUME Init PROVE IInv
  OBVIOUS
<1>1. TypeOK
  <2>1. /\ written \in Seq(Chunks \cup {"ann"}) /\ Len(written) = 0
        /\ line \in Seq(Indices) /\ forwarded \in Seq(Indices)
        /\ startCh \in Seq({"started", "empty"})
        /\ profilerDone \in Seq(Series) /\ shown \in Seq(Series)
    BY EmptyChannel DEF Init
  <2>2. taken \in 0 .. Len(written) /\ seen \in 0 .. taken /\ samples \in Series
        /\ series \in Series
    BY <2>1, BoundAssumption DEF Init
  <2> QED
    BY <2>1, <2>2 DEF Init, TypeOK
<1>2. ChannelInv
  BY DEF Init, ChannelInv
<1>3. PhaseInv
  BY BoundAssumption, EmptyChannel DEF Init, PhaseInv
<1> QED
  BY <1>1, <1>2, <1>3 DEF IInv

LEMMA RuntimeStep == IInv /\ (Runtime \/ Container) => IInv'
<1> SUFFICES ASSUME IInv, Runtime \/ Container PROVE IInv'
  OBVIOUS
<1> USE BoundAssumption DEF IInv, rtVars, pipeVars, readerVars, samplerVars, mainVars
<1>1. CASE RtWarn
  BY <1>1, Appended, ChunkAssumption DEF TypeOK, ChannelInv, PhaseInv, RtWarn, Write
<1>2. CASE RtClone
  BY <1>2 DEF TypeOK, ChannelInv, PhaseInv, RtClone
<1>3. CASE RtFail
  BY <1>3 DEF TypeOK, ChannelInv, PhaseInv, RtFail
<1>4. CASE RtExit
  BY <1>4 DEF TypeOK, ChannelInv, PhaseInv, RtExit
<1>5. CASE RtKilled
  BY <1>5 DEF TypeOK, ChannelInv, PhaseInv, RtKilled
<1>6. CASE RtAnnounce
  BY <1>6, Appended DEF TypeOK, ChannelInv, PhaseInv, RtAnnounce, Write
<1>7. CASE ContWrite
  BY <1>7, Appended, ChunkAssumption DEF TypeOK, ChannelInv, PhaseInv, ContWrite, Write
<1>8. CASE ContExit
  BY <1>8 DEF TypeOK, ChannelInv, PhaseInv, ContExit
<1>9. CASE HostReap
  BY <1>9 DEF TypeOK, ChannelInv, PhaseInv, HostReap
<1>10. CASE PidReused
  BY <1>10 DEF TypeOK, ChannelInv, PhaseInv, PidReused
<1> QED
  BY <1>1, <1>2, <1>3, <1>4, <1>5, <1>6, <1>7, <1>8, <1>9, <1>10 DEF Runtime, Container

LEMMA ReaderStep == IInv /\ (Reader) => IInv'
<1> SUFFICES ASSUME IInv, Reader PROVE IInv'
  OBVIOUS
<1> USE BoundAssumption DEF IInv, rtVars, pipeVars, readerVars, samplerVars, mainVars
<1>1. CASE ReaderFill
  BY <1>1 DEF TypeOK, ChannelInv, PhaseInv, ReaderFill
<1>2. CASE ReaderLine
  <2> DEFINE l == Append(line, seen + 1)
  <2>1. /\ line' \in {<<>>, l} /\ forwarded' \in {forwarded, forwarded \o l}
        /\ reader' \in {"read", "send", "send_empty"}
        /\ seen' = seen + 1 /\ seen < taken /\ reader = "read"
        /\ UNCHANGED <<rtVars, pipeVars, taken, startCh, samplerVars, profilerDone, mainVars>>
    BY <1>2 DEF ReaderLine, AfterLine
  <2>2. l \in Seq(Indices)
    BY <2>1, Appended DEF TypeOK, PhaseInv
  <2> HIDE DEF l
  <2>3. line' \in Seq(Indices) /\ forwarded' \in Seq(Indices)
    <3>1. line \in Seq(Indices) /\ forwarded \in Seq(Indices) /\ forwarded \o l \in Seq(Indices)
      BY <2>2, Joined DEF TypeOK
    <3> QED
      BY <3>1, <2>1, <2>2, EmptyChannel
  <2> QED
    BY <2>1, <2>3 DEF TypeOK, ChannelInv, PhaseInv
<1>3. CASE ReaderError
  BY <1>3, EmptyChannel, Joined DEF TypeOK, ChannelInv, PhaseInv, ReaderError
<1>4. CASE ReaderSend
  BY <1>4, OneValue DEF TypeOK, ChannelInv, PhaseInv, ReaderSend, AfterSend
<1>5. CASE ReaderSendEmpty
  BY <1>5, OneValue DEF TypeOK, ChannelInv, PhaseInv, ReaderSendEmpty, AfterSend
<1>6. CASE ReaderCopy
  BY <1>6, Appended DEF TypeOK, ChannelInv, PhaseInv, ReaderCopy, CopiedChunks
<1>7. CASE ReaderCopyEnd
  BY <1>7 DEF TypeOK, ChannelInv, PhaseInv, ReaderCopyEnd
<1> QED
  BY <1>1, <1>2, <1>3, <1>4, <1>5, <1>6, <1>7 DEF Reader

LEMMA SamplerStep == IInv /\ (Sampler) => IInv'
<1> SUFFICES ASSUME IInv, Sampler PROVE IInv'
  OBVIOUS
<1> USE BoundAssumption DEF IInv, rtVars, pipeVars, readerVars, samplerVars, mainVars
<1>1. CASE SamplerInit
  BY <1>1 DEF TypeOK, ChannelInv, PhaseInv, SamplerInit
<1>2. CASE SamplerInitFail
  BY <1>2 DEF TypeOK, ChannelInv, PhaseInv, SamplerInitFail
<1>3. CASE SamplerSample
  BY <1>3 DEF TypeOK, ChannelInv, PhaseInv, SamplerSample
<1>4. CASE SamplerStop
  BY <1>4 DEF TypeOK, ChannelInv, PhaseInv, SamplerStop
<1>5. CASE SamplerSend
  BY <1>5, OneValue DEF TypeOK, ChannelInv, PhaseInv, SamplerSend
<1> QED
  BY <1>1, <1>2, <1>3, <1>4, <1>5 DEF Sampler

LEMMA MainStep == IInv /\ (Main \/ Killed \/ Load) => IInv'
<1> SUFFICES ASSUME IInv, Main \/ Killed \/ Load PROVE IInv'
  OBVIOUS
<1> USE BoundAssumption DEF IInv, rtVars, pipeVars, readerVars, samplerVars, mainVars
<1>1. CASE MainStarted
  BY <1>1, Received DEF TypeOK, ChannelInv, PhaseInv, MainStarted
<1>2. CASE MainStartTimeout
  BY <1>2 DEF TypeOK, ChannelInv, PhaseInv, MainStartTimeout
<1>3. CASE MainWait
  <2>1. TypeOK'
    BY <1>3 DEF TypeOK, MainWait
  <2>2. ChannelInv'
    BY <1>3 DEF ChannelInv, MainWait
  <2>3. PhaseInv'
    BY <1>3 DEF TypeOK, PhaseInv, MainWait
  <2> QED
    BY <2>1, <2>2, <2>3
<1>4. CASE MainCollect
  BY <1>4, Received DEF TypeOK, ChannelInv, PhaseInv, MainCollect
<1>5. CASE MainCollectTimeout
  BY <1>5 DEF TypeOK, ChannelInv, PhaseInv, MainCollectTimeout
<1>6. CASE MainSaveFail
  BY <1>6 DEF TypeOK, ChannelInv, PhaseInv, MainSaveFail
<1>7. CASE MainNoRecord
  BY <1>7 DEF TypeOK, ChannelInv, PhaseInv, MainNoRecord
<1>8. CASE MainSave
  BY <1>8 DEF TypeOK, ChannelInv, PhaseInv, MainSave
<1>9. CASE Killed
  <2>1. UNCHANGED <<rtVars, written, readerVars, startCh, samplerVars, profilerDone,
                    info, series, record, shown>>
        /\ main' = "killed" /\ open' = FALSE
    BY <1>9 DEF Killed
  <2>2. TypeOK'
    <3>1. /\ UNCHANGED <<rt, cont, reused, written, taken, seen, line, forwarded, reader>>
          /\ UNCHANGED <<startCh, sampler, samples, profilerDone, info, series, record,
                          shown>>
          /\ main' = "killed" /\ open' \in BOOLEAN
      BY <2>1
    <3> QED
      BY <3>1 DEF TypeOK
  <2>3. ChannelInv' /\ PhaseInv'
    BY <2>1 DEF TypeOK, ChannelInv, PhaseInv
  <2> QED
    BY <2>2, <2>3
<1>10. CASE Load
  BY <1>10, OneValue DEF TypeOK, ChannelInv, PhaseInv, Load
<1> QED
  BY <1>1, <1>2, <1>3, <1>4, <1>5, <1>6, <1>7, <1>8, <1>9, <1>10 DEF Main

LEMMA StutterStep == IInv /\ UNCHANGED vars => IInv'
BY DEF IInv, TypeOK, ChannelInv, PhaseInv, vars

\* The inductive invariant holds in every reachable state.
THEOREM Invariance == Spec => []IInv
<1>1. IInv /\ [Next]_vars => IInv'
  BY RuntimeStep, ReaderStep, SamplerStep, MainStep, StutterStep DEF Next
<1> QED
  BY InitInv, <1>1, PTL DEF Spec

\* cspip run keeps its types, and only a PID that was announced is followed.
THEOREM TypeCorrectness == Spec => []TypeOK
BY Invariance, PTL DEF IInv

\* No goroutine of cspip run is ever left blocked in a send.
THEOREM Sends == Spec => []SendsNeverBlock
<1>1. IInv => SendsNeverBlock
  BY DEF IInv, ChannelInv, SendsNeverBlock
<1> QED
  BY <1>1, Invariance, PTL

\* A saved series is the sampler's whole series, and the sampler is done with it.
THEOREM Finality == Spec => []SavedSeriesIsFinal
<1>1. IInv => SavedSeriesIsFinal
  BY BoundAssumption DEF IInv, TypeOK, PhaseInv, SavedSeriesIsFinal
<1> QED
  BY <1>1, Invariance, PTL

-----------------------------------------------------------------------------
(* The order of what is forwarded *)

\* The positions in s grow, and none lies after n.
Ascending(s, n) ==
  /\ \A i \in DOMAIN s : s[i] <= n
  /\ \A i, j \in DOMAIN s : i < j => s[i] < s[j]

\* Every position up to n is in s, except those of blank lines.
Complete(s, n, w) == \A k \in 1 .. n : w[k] = "blank" \/ \E i \in DOMAIN s : s[i] = k

OrderInv ==
  /\ reader # "read" => line = <<>>
  /\ Ascending(forwarded \o line, seen)
  /\ Complete(forwarded \o line, seen, written)

LEMMA TakenNext ==
  ASSUME NEW s \in Seq(Indices), NEW n \in Nat, NEW w, n + 1 \in Indices,
         Ascending(s, n), Complete(s, n, w)
  PROVE  Ascending(Append(s, n + 1), n + 1) /\ Complete(Append(s, n + 1), n + 1, w)
<1> DEFINE t == Append(s, n + 1)
<1>1. /\ t \in Seq(Indices) /\ Len(t) = Len(s) + 1 /\ t[Len(s) + 1] = n + 1
      /\ \A i \in 1 .. Len(s) : t[i] = s[i]
  BY AppendProperties
<1>2. DOMAIN s = 1 .. Len(s) /\ DOMAIN t = 1 .. Len(s) + 1 /\ Len(s) \in Nat
  BY <1>1
<1>3. \A i \in DOMAIN s : s[i] \in Nat
  BY <1>2, ElementOfSeq, BoundAssumption
<1> HIDE DEF t
<1>4. Ascending(t, n + 1)
  BY SMTT(40), <1>1, <1>2, <1>3 DEF Ascending
<1>5. Complete(t, n + 1, w)
  BY <1>1, <1>2, <1>3 DEF Complete
<1> QED
  BY <1>4, <1>5 DEF t

\* A position dropped with a blank line needs no place in s.
LEMMA DroppedBlank ==
  ASSUME NEW s \in Seq(Indices), NEW t \in Seq(Indices), NEW n \in Nat, NEW w,
         w[n + 1] = "blank", \A i \in DOMAIN t : w[t[i]] = "blank",
         Ascending(s \o t, n), Complete(s \o t, n, w)
  PROVE  Ascending(s, n + 1) /\ Complete(s, n + 1, w)
<1>1. /\ Len(s \o t) = Len(s) + Len(t) /\ Len(s) \in Nat /\ Len(t) \in Nat
      /\ DOMAIN s = 1 .. Len(s) /\ DOMAIN t = 1 .. Len(t)
      /\ DOMAIN (s \o t) = 1 .. Len(s) + Len(t)
      /\ \A i \in 1 .. Len(s) : (s \o t)[i] = s[i]
      /\ \A i \in Len(s) + 1 .. Len(s) + Len(t) : (s \o t)[i] = t[i - Len(s)]
  BY ConcatProperties
<1>2. \A i \in DOMAIN s : s[i] \in Nat
  BY <1>1, ElementOfSeq, BoundAssumption
<1>3. Ascending(s, n + 1)
  BY SMTT(40), <1>1, <1>2 DEF Ascending
<1>4. ASSUME NEW k \in 1 .. n + 1 PROVE w[k] = "blank" \/ \E i \in DOMAIN s : s[i] = k
  <2>1. CASE k = n + 1
    BY <2>1
  <2>2. CASE k # n + 1
    <3>1. w[k] = "blank" \/ \E i \in DOMAIN (s \o t) : (s \o t)[i] = k
      BY <2>2 DEF Complete
    <3>2. ASSUME NEW i \in DOMAIN (s \o t), (s \o t)[i] = k, i \notin DOMAIN s
          PROVE  w[k] = "blank"
      <4>1. i - Len(s) \in DOMAIN t /\ t[i - Len(s)] = k
        BY <3>2, <1>1
      <4> QED
        BY <4>1
    <3>3. ASSUME NEW i \in DOMAIN s, (s \o t)[i] = k
          PROVE  \E j \in DOMAIN s : s[j] = k
      BY <3>3, <1>1
    <3> QED
      BY <3>1, <3>2, <3>3
  <2> QED
    BY <2>1, <2>2
<1> QED
  BY <1>3, <1>4 DEF Complete

LEMMA InitOrder == Init => OrderInv
<1> SUFFICES ASSUME Init PROVE OrderInv
  OBVIOUS
<1>1. forwarded \o line = <<>> /\ DOMAIN (forwarded \o line) = {} /\ 1 .. seen = {}
  BY ConcatEmptySeq, EmptySeq DEF Init
<1> QED
  BY <1>1 DEF Init, OrderInv, Ascending, Complete

\* The pipe only grows at its end.
LEMMA QuietOrder ==
  ASSUME IInv, OrderInv, UNCHANGED <<seen, forwarded, line>>,
         reader' # "read" => reader # "read" \/ line = <<>>,
         written' = written \/ \E c : written' = Append(written, c)
                                      /\ c \in Chunks \cup {"ann"}
  PROVE  OrderInv'
<1>1. written \in Seq(Chunks \cup {"ann"}) /\ seen \in Nat /\ seen <= Len(written)
  BY DEF IInv, TypeOK
<1>2. \A k \in 1 .. seen : written'[k] = written[k]
  BY <1>1, AppendProperties
<1> QED
  BY <1>2 DEF OrderInv, Ascending, Complete

LEMMA OrderStep == IInv /\ OrderInv /\ [Next]_vars => OrderInv'
<1> SUFFICES ASSUME IInv, OrderInv, [Next]_vars PROVE OrderInv'
  OBVIOUS
<1> USE DEF rtVars, pipeVars, readerVars, samplerVars, mainVars
<1>1. /\ line \in Seq(Indices) /\ forwarded \in Seq(Indices)
      /\ forwarded \o line \in Seq(Indices)
      /\ seen \in Nat /\ taken <= Len(written) /\ Len(written) <= MaxChunks
      /\ taken \in Nat /\ Len(written) \in Nat
  BY Joined DEF IInv, TypeOK, PhaseInv
<1>2. CASE ReaderLine
  <2> DEFINE l == Append(line, seen + 1)
  <2>1. /\ reader = "read" /\ seen < taken /\ seen' = seen + 1 /\ written' = written
        /\ \/ line' = <<>> /\ IsBlank(l) /\ forwarded' = forwarded
           \/ line' = <<>> /\ forwarded' = forwarded \o l
           \/ line' = l /\ UNCHANGED <<forwarded, reader>>
    BY <1>2 DEF ReaderLine
  <2>2. seen + 1 \in Indices
    BY <1>1, <2>1, BoundAssumption
  <2>3. l \in Seq(Indices) /\ forwarded \o l = Append(forwarded \o line, seen + 1)
    BY <1>1, <2>2, AppendIsConcat, ConcatAssociative, OneValue, Appended
  <2>4. Ascending(forwarded \o l, seen + 1) /\ Complete(forwarded \o l, seen + 1, written)
    BY <1>1, <2>2, <2>3, TakenNext DEF OrderInv
  <2>5. CASE line' = <<>> /\ IsBlank(l) /\ forwarded' = forwarded
    <3>1. /\ Len(l) = Len(line) + 1 /\ l[Len(line) + 1] = seen + 1
          /\ \A i \in 1 .. Len(line) : l[i] = line[i]
          /\ DOMAIN l = 1 .. Len(line) + 1 /\ DOMAIN line = 1 .. Len(line)
          /\ Len(line) \in Nat
      BY <1>1, <2>2, AppendProperties
    <3>2. written[seen + 1] = "blank" /\ \A i \in DOMAIN line : written[line[i]] = "blank"
      <4> HIDE DEF l
      <4> QED
        BY <2>5, <3>1 DEF IsBlank
    <3>3. Ascending(forwarded, seen + 1) /\ Complete(forwarded, seen + 1, written)
      BY <1>1, <3>2, DroppedBlank DEF OrderInv
    <3>4. forwarded' \o line' = forwarded
      BY <1>1, <2>5, ConcatEmptySeq
    <3> QED
      BY <2>1, <2>5, <3>3, <3>4 DEF OrderInv
  <2>6. CASE line' = <<>> /\ forwarded' = forwarded \o l
    <3>1. forwarded' \o line' = forwarded \o l
      BY <1>1, <2>3, <2>6, Joined, ConcatEmptySeq
    <3> QED
      BY <2>1, <2>4, <2>6, <3>1 DEF OrderInv
  <2>7. CASE line' = l /\ UNCHANGED <<forwarded, reader>>
    BY <2>1, <2>4, <2>7 DEF OrderInv
  <2> HIDE DEF l
  <2> QED
    BY <2>1, <2>5, <2>6, <2>7
<1>3. CASE ReaderError
  <2>1. /\ forwarded' = forwarded \o line /\ line' = <<>>
        /\ seen' = seen /\ written' = written
    BY <1>3 DEF ReaderError
  <2>2. forwarded' \o line' = forwarded \o line
    BY <1>1, <2>1, ConcatEmptySeq
  <2> QED
    BY <2>1, <2>2 DEF OrderInv
<1>4. CASE ReaderCopy
  <2>1. /\ reader = "copy" /\ seen < taken /\ seen' = seen + 1
        /\ forwarded' = Append(forwarded, seen + 1)
        /\ line' = line /\ written' = written
    BY <1>4 DEF ReaderCopy, CopiedChunks
  <2>2. line = <<>> /\ forwarded \o line = forwarded
    BY <1>1, <2>1, ConcatEmptySeq DEF OrderInv
  <2>3. seen + 1 \in Indices
    BY <1>1, <2>1, BoundAssumption
  <2>4. forwarded' \in Seq(Indices) /\ forwarded' \o line' = forwarded'
    BY <1>1, <2>1, <2>2, <2>3, Appended, ConcatEmptySeq
  <2>5. Ascending(forwarded', seen') /\ Complete(forwarded', seen', written)
    BY <1>1, <2>1, <2>2, <2>3, TakenNext DEF OrderInv
  <2> QED
    BY <2>1, <2>2, <2>4, <2>5 DEF OrderInv
<1>5. CASE ReaderFill \/ ReaderSend \/ ReaderSendEmpty \/ ReaderCopyEnd
  BY <1>5, QuietOrder DEF ReaderFill, ReaderSend, ReaderSendEmpty, ReaderCopyEnd, OrderInv,
     AfterSend
<1>6. CASE Runtime \/ Container
  <2>1. /\ UNCHANGED <<seen, forwarded, line, reader>>
        /\ written' = written \/ \E c : written' = Append(written, c)
                                        /\ c \in Chunks \cup {"ann"}
    BY <1>6 DEF Runtime, RtWarn, RtClone, RtAnnounce, RtFail, RtExit, RtKilled, Container,
       ContWrite, ContExit, HostReap, PidReused, Write
  <2> QED
    BY <2>1, QuietOrder
<1>7. CASE Sampler \/ Main \/ Killed \/ Load \/ UNCHANGED vars
  <2>1. UNCHANGED <<seen, forwarded, line, reader, written>>
    BY <1>7 DEF Sampler, SamplerInit, SamplerInitFail, SamplerSample, SamplerStop,
       SamplerSend, Main, MainStarted, MainStartTimeout, MainWait, MainCollect,
       MainCollectTimeout, MainSave, MainSaveFail, MainNoRecord, Killed, Load, vars
  <2> QED
    BY <2>1, QuietOrder
<1> QED
  BY <1>2, <1>3, <1>4, <1>5, <1>6, <1>7 DEF Next, Reader

\* What cspip run forwards is what was written, in order, but for blank lines.
THEOREM Order == Spec => []ForwardedInOrder
<1>1. OrderInv => ForwardedInOrder
  BY DEF OrderInv, Ascending, Complete, ForwardedInOrder
<1> QED
  BY <1>1, InitOrder, OrderStep, Invariance, PTL DEF Spec

-----------------------------------------------------------------------------
(* cspip run and cspip report keep the promises of RunRecord *)

LEMMA RecordInit == Init => Stored!Init
BY DEF Init, Stored!Init, Stored!Absent

LEMMA RecordStep == IInv /\ [Next]_vars => [Stored!Next]_(Stored!vars)
<1> SUFFICES ASSUME IInv, [Next]_vars PROVE [Stored!Next]_(Stored!vars)
  OBVIOUS
<1> USE DEF rtVars, pipeVars, readerVars, samplerVars, mainVars, Stored!Absent,
            Stored!vars
<1>1. CASE SamplerSample
  BY <1>1 DEF SamplerSample, Stored!Next, Stored!Take
<1>2. CASE SamplerSend
  BY <1>2 DEF SamplerSend, Stored!Next, Stored!Finish
<1>3. CASE SamplerInit \/ SamplerInitFail \/ SamplerStop
  BY <1>3 DEF SamplerInit, SamplerInitFail, SamplerStop
<1>4. CASE MainSave
  <2>1. CASE record = "none"
    BY <1>4, <2>1 DEF MainSave
  <2>2. CASE record = "torn"
    <3>1. record' = "saved" /\ UNCHANGED <<samples, sampler, series, shown>>
      BY <1>4, <2>2 DEF MainSave
    <3>2. <<series>> \in {<<0>>} \cup (IF sampler = "done" THEN {<<samples>>} ELSE {})
      BY DEF IInv, PhaseInv
    <3> QED
      BY <2>2, <3>1, <3>2, OneValue DEF Stored!Next, Stored!Store
  <2> QED
    BY <1>4, <2>1, <2>2 DEF MainSave
<1>5. CASE Load
  BY <1>5 DEF Load, Stored!Next, Stored!Show
<1>6. CASE MainCollect
  BY <1>6 DEF MainCollect, IInv, PhaseInv
<1>7. CASE MainStarted
  BY <1>7 DEF MainStarted, IInv, PhaseInv
<1>8. CASE MainStartTimeout \/ MainWait \/ MainCollectTimeout \/ MainSaveFail
           \/ MainNoRecord \/ Killed
  BY <1>8 DEF MainStartTimeout, MainWait, MainCollectTimeout, MainSaveFail, MainNoRecord,
     Killed
<1>9. CASE Runtime \/ Container \/ Reader \/ UNCHANGED vars
  <2>1. UNCHANGED <<samples, sampler, record, series, shown>>
    BY <1>9 DEF Runtime, RtWarn, RtClone, RtAnnounce, RtFail, RtExit, RtKilled, Container,
       ContWrite, ContExit, HostReap, PidReused, Reader, ReaderFill, ReaderLine,
       ReaderError, ReaderSend, ReaderSendEmpty, ReaderCopy, ReaderCopyEnd, vars
  <2> QED
    BY <2>1
<1> QED
  BY <1>1, <1>2, <1>3, <1>4, <1>5, <1>6, <1>7, <1>8, <1>9 DEF Next, Sampler, Main

\* A report shows a whole record or none, whoever is killed and whenever.
THEOREM Records == Spec => FollowsRunRecord
BY RecordInit, RecordStep, Invariance, PTL DEF Spec, FollowsRunRecord, Stored!Spec
=============================================================================

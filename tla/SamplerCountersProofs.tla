------------------------ MODULE SamplerCountersProofs ------------------------
(***************************************************************************)
(* The types of SamplerCounters, for any number of processes and samples.  *)
(* That no difference of readings is negative needs to know how the        *)
(* tracker, the readings and the container's own counters are ordered.     *)
(***************************************************************************)
EXTENDS SamplerCounters, TotalsProofs

\* What the tracker remembers is never ahead of what was read last, and that
\* never ahead of the container.
Ordered ==
  /\ prevUsec <= usage /\ usec <= usage
  /\ prevTime <= clock
  /\ pc = "now" => prevUsec <= usec

SInv == TypeOK /\ Ordered

\* The faults of the processes that live, as a total and as a sum over Pids.
LEMMA FaultsOfTheLiving ==
  ASSUME TypeOK
  PROVE  /\ Total([h \in alive |-> flt[h]]) = Over(flt, alive)
         /\ Over(flt, alive) \in Nat
<1>1. alive \in SUBSET Pids /\ flt \in [Pids -> Nat]
  BY DEF TypeOK
<1>2. IsFiniteSet(alive)
  BY <1>1, PidAssumption, FS_Subset
<1>3. PICK g : g = [h \in alive |-> flt[h]]
  OBVIOUS
<1>4. DOMAIN g = alive /\ \A h \in alive : g[h] = flt[h]
  BY <1>3
<1>5. Total(g) = Over(flt, alive)
  BY <1>2, <1>4, TotalIsOver, OverAgree
<1>6. \A h \in alive : flt[h] \in Nat
  BY <1>1
<1> QED
  BY <1>2, <1>3, <1>5, <1>6, OverNat

\* The container goes on: usage and clock only grow.
LEMMA ContainerSteps ==
  ASSUME SInv, Container PROVE SInv'
<1> USE BoundAssumption DEF SInv, TypeOK, Ordered
<1>1. CASE Fork
  BY <1>1 DEF Fork, tracker, reading
<1>2. CASE Tick
  BY <1>2, SMTT(30) DEF Tick, tracker, reading
<1>3. CASE Remove
  BY <1>3 DEF Remove, tracker, reading
<1>4. ASSUME NEW h \in Pids, Fault(h) PROVE SInv'
  BY <1>4 DEF Fault, tracker, reading
<1>5. ASSUME NEW h \in Pids, Exit(h) PROVE SInv'
  BY <1>5 DEF Exit, tracker
<1> QED
  BY <1>1, <1>2, <1>3, <1>4, <1>5 DEF Container

\* The sampler reads: what it notes is what was there, or is there.
LEMMA SamplerSteps ==
  ASSUME SInv, Sampler PROVE SInv'
<1> USE BoundAssumption DEF SInv, TypeOK, Ordered
<1>1. CASE FirstNow
  BY <1>1 DEF FirstNow, container, reading
<1>2. CASE CpuRead
  BY <1>2 DEF CpuRead, container, reading
<1>3. CASE CpuReadFail
  BY <1>3 DEF CpuReadFail, container, reading
<1>4. CASE CpuNow
  <2>1. clock - prevTime \in Nat /\ usec - prevUsec \in Nat
    BY <1>4 DEF CpuNow
  <2> QED
    BY <1>4, <2>1 DEF CpuNow, container, reading
<1>5. CASE List
  <2>1. again' \in Nat
    BY <1>5, FaultsOfTheLiving DEF List, ReadList
  <2>2. todo' \subseteq born /\ sure' \in [Pids -> Nat]
    BY <1>5 DEF List, ReadList
  <2> QED
    BY <1>5, <2>1, <2>2 DEF List, container, tracker
<1>6. CASE ReadNext
  <2>1. PICK h \in todo :
          /\ todo' = todo \ {h}
          /\ \/ sum' = sum + flt[h] /\ UNCHANGED <<sure, again>>
             \/ UNCHANGED <<sum, sure, again>>
             \/ sure' = [sure EXCEPT ![h] = 0] /\ again' = again + flt[h] /\ sum' = sum
    BY <1>6 DEF ReadNext
  <2>2. flt[h] \in Nat /\ todo' \subseteq born
    BY <2>1
  <2>3. sum' \in Nat /\ again' \in Nat
    BY <2>1, <2>2
  <2>4. sure' \in [Pids -> Nat]
    <3>1. sure \in [Pids -> Nat] /\ [sure EXCEPT ![h] = 0] \in [Pids -> Nat]
      OBVIOUS
    <3>2. sure' = sure \/ sure' = [sure EXCEPT ![h] = 0]
      BY <2>1
    <3> QED
      BY <3>1, <3>2
  <2> QED
    BY <1>6, <2>2, <2>3, <2>4 DEF ReadNext, container, tracker
<1>7. CASE AppendSample
  BY <1>7 DEF AppendSample, container, tracker, reading
<1> QED
  BY <1>1, <1>2, <1>3, <1>4, <1>5, <1>6, <1>7 DEF Sampler

LEMMA SamplerInvariance == Spec => []SInv
<1>1. Init => SInv
  BY BoundAssumption DEF Init, SInv, TypeOK, Ordered
<1>2. SInv /\ [Next]_vars => SInv'
  <2> SUFFICES ASSUME SInv, [Next]_vars PROVE SInv'
    OBVIOUS
  <2>1. CASE Container
    BY <2>1, ContainerSteps
  <2>2. CASE Sampler
    BY <2>2, SamplerSteps
  <2>3. CASE UNCHANGED vars
    BY <2>3 DEF vars, SInv, TypeOK, Ordered
  <2> QED
    BY <2>1, <2>2, <2>3 DEF Next
<1> QED
  BY <1>1, <1>2, PTL DEF Spec

\* Whatever the processes do while they are sampled, and whichever reads fail,
\* no difference of two readings of cpu.stat or of the clock is negative
\* (cgroup.go:143-152).
THEOREM SampleTypes == Spec => []TypeOK
<1>1. SInv => TypeOK
  BY DEF SInv
<1> QED
  BY <1>1, SamplerInvariance, PTL
-----------------------------------------------------------------------------
(* What a series adds up to. *)

Samples == [du : Nat, dt : Nat, flt : Nat]

LEMMA UsedAppend ==
  ASSUME NEW s \in Seq(Samples), NEW e \in Samples
  PROVE  /\ Total(Used(s)) \in Nat /\ Total(Passed(s)) \in Nat
         /\ Total(Used(Append(s, e))) = Total(Used(s)) + e.du
         /\ Total(Passed(Append(s, e))) = Total(Passed(s)) + e.dt
<1> DEFINE n == Len(s)
           t == Append(s, e)
<1>1. /\ n \in Nat /\ DOMAIN s = 1 .. n /\ DOMAIN t = 1 .. n + 1
      /\ \A i \in 1 .. n : s[i] \in Samples /\ t[i] = s[i]
      /\ t[n + 1] = e
  OBVIOUS
<1> HIDE DEF n, t
<1>2. IsFiniteSet(1 .. n)
  BY <1>1, FS_Interval
<1>3. /\ DOMAIN Used(s) = 1 .. n /\ DOMAIN Used(t) = 1 .. n + 1
      /\ \A i \in 1 .. n : Used(s)[i] \in Nat /\ Used(t)[i] = Used(s)[i]
      /\ Used(t)[n + 1] = e.du /\ e.du \in Nat
  BY <1>1 DEF Used, Samples
<1>4. /\ DOMAIN Passed(s) = 1 .. n /\ DOMAIN Passed(t) = 1 .. n + 1
      /\ \A i \in 1 .. n : Passed(s)[i] \in Nat /\ Passed(t)[i] = Passed(s)[i]
      /\ Passed(t)[n + 1] = e.dt /\ e.dt \in Nat
  BY <1>1 DEF Passed, Samples
<1>5. Total(Used(s)) \in Nat /\ Total(Passed(s)) \in Nat
  BY <1>2, <1>3, <1>4, TotalIsOver, OverNat
<1>6. Over(Used(t), 1 .. n + 1) = Over(Used(s), 1 .. n) + e.du
  <2>1. /\ n \in Nat /\ Used(t)[n + 1] \in Int
        /\ \A i \in 1 .. n : Used(s)[i] \in Int /\ Used(t)[i] = Used(s)[i]
    BY <1>1, <1>3
  <2>2. Over(Used(t), 1 .. n + 1) = Over(Used(s), 1 .. n) + Used(t)[n + 1]
    BY <2>1, OverNext
  <2> QED
    BY <2>2, <1>3
<1>7. Over(Passed(t), 1 .. n + 1) = Over(Passed(s), 1 .. n) + e.dt
  <2>1. /\ n \in Nat /\ Passed(t)[n + 1] \in Int
        /\ \A i \in 1 .. n : Passed(s)[i] \in Int /\ Passed(t)[i] = Passed(s)[i]
    BY <1>1, <1>4
  <2>2. Over(Passed(t), 1 .. n + 1) = Over(Passed(s), 1 .. n) + Passed(t)[n + 1]
    BY <2>1, OverNext
  <2> QED
    BY <2>2, <1>4
<1> QED
  BY <1>3, <1>4, <1>5, <1>6, <1>7, TotalIsOver DEF t

-----------------------------------------------------------------------------
(* CpuWithinCapacity: what the samples claim was used stays within what the *)
(* tracker has read, and what they say has passed makes up its time.        *)

\* A difference that was computed and is not in the series yet.
Pending(x) == IF pc \in {"list", "read"} THEN x ELSE 0

Accounted ==
  /\ prevUsec <= prevTime
  /\ Total(Used(series)) + Pending(du) <= prevUsec
  /\ prevTime <= late + Total(Passed(series)) + Pending(dt)
  /\ CpuWithinCapacity

LEMMA AccountedInit == Init => Accounted
<1> SUFFICES ASSUME Init PROVE Accounted
  OBVIOUS
<1>1. series = <<>> /\ pc = "first" /\ prevUsec = 0 /\ prevTime = 0 /\ late = 0
  BY DEF Init
<1>2. DOMAIN Used(<<>>) = {} /\ DOMAIN Passed(<<>>) = {}
  BY DEF Used, Passed
<1>3. Total(Used(series)) = 0 /\ Total(Passed(series)) = 0
  BY <1>1, <1>2, TotalIsOver, OverEmpty
<1> QED
  BY <1>1, <1>3 DEF Accounted, Pending, CpuWithinCapacity

LEMMA AccountedStep ==
  ASSUME SInv, Accounted, [Next]_vars PROVE Accounted'
<1> DEFINE U == Total(Used(series))
           P == Total(Passed(series))
<1>1. /\ series \in Seq(Samples) /\ du \in Nat /\ dt \in Nat /\ late \in Nat
      /\ prevUsec \in Nat /\ prevTime \in Nat /\ usec \in Nat /\ clock \in Nat /\ usage \in Nat
      /\ usage <= clock /\ usec <= usage /\ prevTime <= clock /\ prevUsec <= usage
      /\ pc = "now" => prevUsec <= usec
  BY BoundAssumption DEF SInv, TypeOK, Ordered, Samples
<1>2. U \in Nat /\ P \in Nat
  <2>1. [du |-> 0, dt |-> 0, flt |-> 0] \in Samples
    BY DEF Samples
  <2> QED
    BY <1>1, <2>1, UsedAppend
<1>3. /\ prevUsec <= prevTime /\ U + Pending(du) <= prevUsec
      /\ prevTime <= late + P + Pending(dt) /\ U <= late + P
  BY DEF Accounted, CpuWithinCapacity
<1>4. CASE UNCHANGED <<pc, prevUsec, prevTime, late, du, dt, series>>
  BY <1>3, <1>4 DEF Accounted, Pending, CpuWithinCapacity
<1>5. ASSUME UNCHANGED series,
             prevUsec' <= prevTime', U + Pending(du)' <= prevUsec',
             prevTime' <= late' + P + Pending(dt)', U <= late' + P
      PROVE  Accounted'
  BY <1>5 DEF Accounted, CpuWithinCapacity
<1> HIDE DEF U, P
<1>6. CASE Container
  BY <1>4, <1>6 DEF Container, Fork, Tick, Remove, Fault, Exit, tracker
<1>7. CASE FirstNow
  BY <1>1, <1>2, <1>3, <1>5, <1>7 DEF FirstNow, container, reading, Pending
<1>8. CASE CpuRead
  BY <1>1, <1>2, <1>3, <1>5, <1>8 DEF CpuRead, container, reading, Pending
<1>9. CASE CpuReadFail
  BY <1>1, <1>2, <1>3, <1>5, <1>9 DEF CpuReadFail, container, reading, Pending
<1>10. CASE CpuNow
  BY <1>1, <1>2, <1>3, <1>5, <1>10 DEF CpuNow, container, reading, Pending
<1>11. CASE List
  BY <1>1, <1>2, <1>3, <1>5, <1>11 DEF List, container, tracker, Pending
<1>12. CASE ReadNext
  BY <1>4, <1>12 DEF ReadNext, container, tracker
<1>13. CASE AppendSample
  <2> DEFINE e == [du |-> du, dt |-> dt, flt |-> sum]
  <2>1. e \in Samples /\ e.du = du /\ e.dt = dt /\ series' = Append(series, e)
    BY <1>1, <1>13 DEF AppendSample, Samples, SInv, TypeOK
  <2>2. Total(Used(series')) = U + du /\ Total(Passed(series')) = P + dt
    <3> HIDE DEF e
    <3> QED
      BY <1>1, <2>1, UsedAppend DEF U, P
  <2> QED
    BY <1>1, <1>2, <1>3, <1>13, <2>2
    DEF AppendSample, Accounted, container, tracker, reading, Pending, CpuWithinCapacity
<1>14. CASE UNCHANGED vars
  BY <1>4, <1>14 DEF vars
<1> QED
  BY <1>6, <1>7, <1>8, <1>9, <1>10, <1>11, <1>12, <1>13, <1>14 DEF Next, Sampler

\* However late the clock is read and whichever reads of cpu.stat fail, the
\* percentages of a run claim no more CPU time than one core gave in the time
\* they say has passed and before the tracker first read the clock
\* (cgroup.go:128-152).
THEOREM Capacity == Spec => []CpuWithinCapacity
<1>1. Accounted => CpuWithinCapacity
  BY DEF Accounted
<1> QED
  BY <1>1, SamplerInvariance, AccountedInit, AccountedStep, PTL DEF Spec

-----------------------------------------------------------------------------
(* SampleHasTheLiving: the sum has what those read so far had when listed,  *)
(* and a process that is read alive has at least that.                      *)

ReadSoFar ==
  /\ \A h \in Pids : sure[h] <= IF h \in alive THEN flt[h] ELSE 0
  /\ pc = "read" => Over(sure, Pids \ todo) <= sum

LEMMA ReadSoFarStep ==
  ASSUME SInv, ReadSoFar, [Next]_vars PROVE ReadSoFar'
<1>1. /\ alive \subseteq Pids /\ todo \subseteq Pids /\ sum \in Nat
      /\ flt \in [Pids -> Nat] /\ sure \in [Pids -> Nat]
  BY DEF SInv, TypeOK
<1>2. ASSUME NEW S \in SUBSET Pids PROVE IsFiniteSet(S) /\ Over(sure, S) \in Nat
  <2>1. IsFiniteSet(S)
    BY PidAssumption, FS_Subset
  <2>2. \A h \in S : sure[h] \in Nat
    BY <1>1
  <2> QED
    BY <2>1, <2>2, OverNat
<1>3. CASE UNCHANGED <<alive, flt, pc, todo, sum, sure>>
  BY <1>3 DEF ReadSoFar
<1>4. CASE Fork
  BY <1>1, <1>4 DEF Fork, tracker, reading, ReadSoFar, SInv, TypeOK
<1>5. ASSUME NEW h \in Pids, Fault(h) PROVE ReadSoFar'
  BY <1>1, <1>5 DEF Fault, tracker, reading, ReadSoFar
<1>6. ASSUME NEW h \in Pids, Exit(h) PROVE ReadSoFar'
  <2>1. \A k \in Pids : sure'[k] <= IF k \in alive' THEN flt'[k] ELSE 0
    BY <1>1, <1>6 DEF Exit, ReadSoFar
  <2>2. Over(sure', Pids \ todo) <= Over(sure, Pids \ todo)
    <3>1. \A k \in Pids \ todo : sure'[k] \in Int /\ sure[k] \in Int /\ sure'[k] <= sure[k]
      BY <1>1, <1>6 DEF Exit
    <3> QED
      BY <1>2, <3>1, OverMonotonic
  <2>3. Over(sure', Pids \ todo) \in Nat
    <3>1. \A k \in Pids \ todo : sure'[k] \in Nat
      BY <1>1, <1>6 DEF Exit
    <3> QED
      BY <1>2, <3>1, OverNat
  <2>4. Over(sure, Pids \ todo) \in Nat
    BY <1>2
  <2> QED
    BY <1>1, <1>6, <2>1, <2>2, <2>3, <2>4 DEF Exit, tracker, ReadSoFar
<1>7. CASE List
  <2>1. \A k \in Pids : sure'[k] <= IF k \in alive' THEN flt'[k] ELSE 0
    BY <1>1, <1>7 DEF List, ReadList, container
  <2>2. \A k \in Pids \ todo' : sure'[k] = 0
    BY <1>7 DEF List, ReadList
  <2>3. Over(sure', Pids \ todo') = 0
    BY <1>2, <2>2, OverZero
  <2> QED
    BY <1>7, <2>1, <2>3 DEF List, container, tracker, ReadSoFar
<1>8. CASE ReadNext
  <2>1. PICK h \in todo : /\ todo' = todo \ {h}
                          /\ \/ sum' = sum + flt[h] /\ h \in alive /\ sure' = sure
                             \/ sum' = sum /\ h \notin alive /\ sure' = sure
                             \/ sum' = sum /\ sure' = [sure EXCEPT ![h] = 0]
    BY <1>8 DEF ReadNext
  <2>2. pc = "read" /\ UNCHANGED <<alive, flt, pc>>
    BY <1>8 DEF ReadNext, container, tracker
  <2> DEFINE S == Pids \ todo
             T == Pids \ todo'
  <2>3. h \in T /\ T \ {h} = S /\ T \in SUBSET Pids /\ S \in SUBSET Pids /\ h \notin S
    BY <1>1, <2>1
  <2>4. /\ \A k \in Pids : sure'[k] \in Nat /\ (k # h => sure'[k] = sure[k])
        /\ \/ sum' = sum + flt[h] /\ h \in alive /\ sure'[h] = sure[h]
           \/ sum' = sum /\ h \notin alive /\ sure'[h] = sure[h]
           \/ sum' = sum /\ sure'[h] = 0
    BY <1>1, <2>1
  <2>5. Over(sure', T) = sure'[h] + Over(sure', S)
    <3>1. \A k \in T : sure'[k] \in Int
      BY <2>4
    <3> HIDE DEF S, T
    <3> QED
      BY <1>2, <2>3, <3>1, OverRemove
  <2>6. Over(sure', S) = Over(sure, S)
    <3>1. \A k \in S : sure'[k] = sure[k]
      BY <2>3, <2>4
    <3> HIDE DEF S, T
    <3> QED
      BY <1>2, <2>3, <3>1, OverAgree
  <2>7. Over(sure, S) <= sum
    BY <2>2 DEF ReadSoFar
  <2>8. /\ sure[h] <= IF h \in alive THEN flt[h] ELSE 0
        /\ sure[h] \in Nat /\ flt[h] \in Nat /\ Over(sure, S) \in Nat
    BY <1>1, <1>2, <2>1 DEF ReadSoFar
  <2>9. Over(sure', T) <= sum'
    <3> HIDE DEF S, T
    <3> QED
      BY <1>1, <2>4, <2>5, <2>6, <2>7, <2>8
  <2>10. \A k \in Pids : sure'[k] <= IF k \in alive' THEN flt'[k] ELSE 0
    <3> TAKE k \in Pids
    <3>1. sure[k] <= (IF k \in alive THEN flt[k] ELSE 0) /\ flt[k] \in Nat /\ sure[k] \in Nat
      BY <1>1 DEF ReadSoFar
    <3>2. sure'[k] \in {sure[k], 0}
      BY <2>4
    <3> QED
      BY <2>2, <3>1, <3>2
  <2> QED
    BY <2>2, <2>9, <2>10 DEF ReadSoFar
<1>9. CASE FirstNow \/ CpuRead \/ CpuReadFail \/ CpuNow \/ AppendSample
  BY <1>9 DEF FirstNow, CpuRead, CpuReadFail, CpuNow, AppendSample, container, tracker,
     reading, ReadSoFar
<1>10. CASE Tick \/ Remove \/ UNCHANGED vars
  BY <1>3, <1>10 DEF Tick, Remove, vars, tracker, reading
<1> QED
  BY <1>4, <1>5, <1>6, <1>7, <1>8, <1>9, <1>10 DEF Next, Container, Sampler

\* However many processes exit between the list and the reading, a sample has
\* at least what the survivors had when they were listed (cgroup.go:80-106).
THEOREM Survivors == Spec => []SampleHasTheLiving
<1>1. Init => ReadSoFar
  BY DEF Init, ReadSoFar
<1>2. SInv /\ ReadSoFar => SampleHasTheLiving
  <2> SUFFICES ASSUME SInv, ReadSoFar, pc = "read", todo = {}
               PROVE  sum >= Total(sure)
    BY DEF SampleHasTheLiving
  <2>1. Pids \ todo = Pids /\ DOMAIN sure = Pids
    BY DEF SInv, TypeOK
  <2>2. Total(sure) = Over(sure, Pids \ todo)
    BY <2>1, TotalIsOver
  <2>3. Total(sure) \in Nat /\ sum \in Nat
    <3>1. \A h \in Pids : sure[h] \in Nat
      BY DEF SInv, TypeOK
    <3> QED
      BY <2>1, <2>2, <3>1, PidAssumption, OverNat DEF SInv, TypeOK
  <2> QED
    BY <2>2, <2>3 DEF ReadSoFar
<1> QED
  BY <1>1, <1>2, SamplerInvariance, ReadSoFarStep, PTL DEF Spec

-----------------------------------------------------------------------------
(* RisesAreReal: what the rises of a series add up to was shown, process by *)
(* process, and a process that has been shown and lives was in the sample   *)
(* before, so that the next one cannot count it again.  A process that a    *)
(* failed read misses counts as not shown from then on.                     *)

LastFlt(s) == IF s = <<>> THEN 0 ELSE s[Len(s)].flt
Above(a, b) == IF b > a THEN b - a ELSE 0

LEMMA RisesAppend ==
  ASSUME NEW s \in Seq(Samples), NEW e \in Samples
  PROVE  /\ Total(Rises(s)) \in Nat /\ LastFlt(s) \in Nat
         /\ Total(Rises(Append(s, e))) = Total(Rises(s)) + Above(LastFlt(s), e.flt)
         /\ LastFlt(Append(s, e)) = e.flt
<1> DEFINE n == Len(s)
           t == Append(s, e)
<1>1. /\ n \in Nat /\ DOMAIN s = 1 .. n /\ DOMAIN t = 1 .. n + 1
      /\ \A i \in 1 .. n : s[i] \in Samples /\ t[i] = s[i]
      /\ t[n + 1] = e /\ t # <<>> /\ Len(t) = n + 1
      /\ s = <<>> <=> n = 0
  OBVIOUS
<1> HIDE DEF n, t
<1>2. IsFiniteSet(1 .. n)
  BY <1>1, FS_Interval
<1>3. e.flt \in Nat /\ \A i \in 1 .. n : s[i].flt \in Nat /\ t[i].flt = s[i].flt
  BY <1>1 DEF Samples
<1>4. LastFlt(s) \in Nat /\ LastFlt(t) = e.flt
  BY <1>1, <1>3 DEF LastFlt, n
<1>5. DOMAIN Rises(s) = 1 .. n /\ DOMAIN Rises(t) = 1 .. n + 1
  BY <1>1 DEF Rises
<1>6. \A i \in 1 .. n : Rises(s)[i] \in Nat /\ Rises(t)[i] = Rises(s)[i]
  <2> TAKE i \in 1 .. n
  <2>1. i \in 1 .. n + 1 /\ (i = 1 \/ i - 1 \in 1 .. n)
    BY <1>1
  <2> QED
    BY <1>1, <1>3, <2>1 DEF Rises
<1>7. Rises(t)[n + 1] = Above(LastFlt(s), e.flt) /\ Above(LastFlt(s), e.flt) \in Nat
  <2>1. CASE n = 0
    BY <1>1, <1>3, <2>1 DEF Rises, Above, LastFlt
  <2>2. CASE n # 0
    <3>1. /\ n + 1 \in 1 .. n + 1 /\ n + 1 # 1 /\ (n + 1) - 1 = n /\ n \in 1 .. n
          /\ LastFlt(s) = s[n].flt
      BY <1>1, <2>2 DEF LastFlt, n
    <3> QED
      BY <1>1, <1>3, <3>1 DEF Rises, Above
  <2> QED
    BY <2>1, <2>2
<1>8. Total(Rises(s)) \in Nat
  BY <1>2, <1>5, <1>6, TotalIsOver, OverNat
<1>9. Over(Rises(t), 1 .. n + 1) = Over(Rises(s), 1 .. n) + Rises(t)[n + 1]
  <2>1. /\ n \in Nat /\ Rises(t)[n + 1] \in Int
        /\ \A i \in 1 .. n : Rises(s)[i] \in Int /\ Rises(t)[i] = Rises(s)[i]
    BY <1>1, <1>6, <1>7
  <2> QED
    BY <2>1, OverNext
<1> QED
  BY <1>4, <1>5, <1>7, <1>8, <1>9, TotalIsOver DEF t

\* seen: the faults of each process that a sample has shown and no failed read
\* has lost since; cur: those that the sample being taken has counted; listed:
\* the processes it has counted or will find alive, or gone.
Shows(seen, cur, listed) ==
  /\ \A h \in Pids : seen[h] <= flt[h] /\ cur[h] <= flt[h]
  /\ Total(Rises(series)) <= Over(seen, Pids) + again
  /\ pc # "read" /\ up => Over(seen, alive) <= LastFlt(series)
  /\ pc = "read" =>
       /\ todo \subseteq listed /\ Over(seen, listed) <= LastFlt(series)
       /\ sum = Over(cur, Pids)
       /\ \A h \in Pids : h \notin listed \ todo => cur[h] = 0
       /\ \A h \in listed \ todo : seen[h] <= cur[h]
       /\ up => \A h \in alive \ listed : seen[h] = 0

Shown ==
  /\ \A h \in Pids \ born : flt[h] = 0
  /\ \E seen, cur \in [Pids -> Nat], listed \in SUBSET Pids : Shows(seen, cur, listed)

\* Sums over the processes.
LEMMA PidsOver ==
  ASSUME NEW f, f \in [Pids -> Nat], NEW S \in SUBSET Pids
  PROVE  /\ IsFiniteSet(S) /\ Over(f, S) \in Nat
         /\ \A T \in SUBSET S : IsFiniteSet(T) /\ Over(f, T) \in Nat /\ Over(f, T) <= Over(f, S)
<1>1. \A T \in SUBSET Pids : IsFiniteSet(T) /\ Over(f, T) \in Nat
  <2> TAKE T \in SUBSET Pids
  <2>1. IsFiniteSet(T) /\ \A h \in T : f[h] \in Nat
    BY PidAssumption, FS_Subset
  <2> QED
    BY <2>1, OverNat
<1>2. ASSUME NEW T \in SUBSET S PROVE Over(f, T) <= Over(f, S)
  <2> DEFINE e == [h \in Pids |-> IF h \in T THEN f[h] ELSE 0]
  <2>1. e \in [Pids -> Nat] /\ \A h \in S \ T : e[h] = 0
    OBVIOUS
  <2>2. (\A h \in T : e[h] = f[h]) /\ \A h \in S : e[h] \in Int /\ f[h] \in Int /\ e[h] <= f[h]
    OBVIOUS
  <2> HIDE DEF e
  <2>3. Over(e, S) = Over(e, T)
    BY <1>1, <2>1, <2>2, OverPart
  <2>4. Over(e, T) = Over(f, T)
    <3>1. IsFiniteSet(T)
      BY <1>1
    <3> QED
      BY <2>2, <3>1, OverAgree
  <2>5. Over(e, S) <= Over(f, S)
    BY <1>1, <2>2, OverMonotonic
  <2> QED
    BY <2>3, <2>4, <2>5
<1> QED
  BY <1>1, <1>2

\* The container goes on: a new process has taken no fault yet, one that exits
\* is not counted again.
LEMMA ShownContainer ==
  ASSUME SInv, Container, \A h \in Pids \ born : flt[h] = 0,
         NEW seen \in [Pids -> Nat], NEW cur \in [Pids -> Nat], NEW listed \in SUBSET Pids,
         Shows(seen, cur, listed)
  PROVE  Shows(seen, cur, listed)'
<1>1. /\ alive \subseteq Pids /\ born \subseteq Pids /\ flt \in [Pids -> Nat]
      /\ series \in Seq(Samples)
  BY DEF SInv, TypeOK, Samples
<1>2. LastFlt(series) \in Nat
  <2>1. [du |-> 0, dt |-> 0, flt |-> 0] \in Samples
    BY DEF Samples
  <2> QED
    BY <1>1, <2>1, RisesAppend
<1>3. CASE Fork
  <2>1. PICK h \in Pids \ born : alive' = alive \cup {h}
    BY <1>3 DEF Fork
  <2>2. seen[h] = 0
    <3>1. seen[h] <= flt[h] /\ flt[h] = 0 /\ seen[h] \in Nat
      BY <2>1 DEF Shows
    <3> QED
      BY <3>1
  <2>3. Over(seen, alive') = Over(seen, alive)
    <3>1. /\ alive' \in SUBSET Pids /\ alive \in SUBSET alive'
          /\ \A k \in alive' \ alive : seen[k] = 0
          /\ \A k \in alive' : seen[k] \in Int
      BY <1>1, <2>1, <2>2
    <3>2. IsFiniteSet(alive')
      BY <3>1, PidsOver
    <3> QED
      BY <3>1, <3>2, OverPart
  <2>4. UNCHANGED <<flt, up, pc, todo, sum, again, series>>
    BY <1>3 DEF Fork, reading
  <2> QED
    BY <2>1, <2>2, <2>3, <2>4 DEF Shows
<1>4. ASSUME NEW h \in Pids, Fault(h) PROVE Shows(seen, cur, listed)'
  <2>1. \A k \in Pids : flt'[k] \in Nat /\ flt[k] \in Nat /\ flt[k] <= flt'[k]
    BY <1>1, <1>4 DEF Fault
  <2>2. \A k \in Pids : seen[k] <= flt'[k] /\ cur[k] <= flt'[k]
    BY <2>1 DEF Shows
  <2>3. UNCHANGED <<alive, up, pc, todo, sum, again, series>>
    BY <1>4 DEF Fault, reading
  <2> QED
    BY <2>2, <2>3 DEF Shows
<1>5. ASSUME NEW h \in Pids, Exit(h) PROVE Shows(seen, cur, listed)'
  <2>1. Over(seen, alive') <= Over(seen, alive) /\ Over(seen, alive') \in Nat
        /\ Over(seen, alive) \in Nat
    <3>1. alive' \in SUBSET alive
      BY <1>5 DEF Exit
    <3> QED
      BY <1>1, <3>1, PidsOver
  <2>2. alive' \subseteq alive /\ UNCHANGED <<flt, up, pc, todo, sum, again, series>>
    BY <1>5 DEF Exit
  <2>3. pc' # "read" /\ up' => Over(seen, alive') <= LastFlt(series')
    BY <1>2, <2>1, <2>2 DEF Shows
  <2>4. up' => \A k \in alive' \ listed : pc' = "read" => seen[k] = 0
    BY <2>2 DEF Shows
  <2> QED
    BY <2>2, <2>3, <2>4 DEF Shows
<1>6. CASE Tick
  BY <1>6 DEF Tick, reading, Shows
<1>7. CASE Remove
  BY <1>7 DEF Remove, reading, Shows
<1> QED
  BY <1>3, <1>4, <1>5, <1>6, <1>7 DEF Container

\* What was shown of some processes is given up: it was at most their faults.
LEMMA GivenUp ==
  ASSUME NEW f, f \in [Pids -> Nat], NEW seen \in [Pids -> Nat], NEW T \in SUBSET Pids,
         \A h \in T : seen[h] <= f[h]
  PROVE  \E s \in [Pids -> Nat] :
           /\ \A h \in T : s[h] = 0
           /\ \A h \in Pids \ T : s[h] = seen[h]
           /\ Over(s, Pids) \in Nat /\ Over(seen, Pids) <= Over(s, Pids) + Over(f, T)
<1>1. PICK s \in [Pids -> Nat] : s = [h \in Pids |-> IF h \in T THEN 0 ELSE seen[h]]
  OBVIOUS
<1>2. PICK d \in [Pids -> Nat] : d = [h \in Pids |-> IF h \in T THEN seen[h] ELSE 0]
  OBVIOUS
<1>3. /\ \A h \in T : s[h] = 0 /\ d[h] = seen[h]
      /\ \A h \in Pids \ T : s[h] = seen[h] /\ d[h] = 0
  BY <1>1, <1>2
<1>4. Over(seen, Pids) = Over(s, Pids) + Over(d, Pids)
  <2>1. \A h \in Pids : s[h] \in Int /\ d[h] \in Int /\ seen[h] = s[h] + d[h]
    <3> TAKE h \in Pids
    <3>1. s[h] \in Nat /\ d[h] \in Nat /\ seen[h] \in Nat
      OBVIOUS
    <3> QED
      BY <1>3, <3>1
  <2> QED
    BY <2>1, PidAssumption, OverPlus
<1>5. IsFiniteSet(T) /\ Over(f, T) \in Nat /\ Over(d, T) \in Nat
  BY PidsOver
<1>6. Over(d, Pids) = Over(d, T)
  <2>1. \A h \in Pids : d[h] \in Int
    OBVIOUS
  <2> QED
    BY <1>3, <2>1, PidAssumption, OverPart
<1>7. Over(d, T) <= Over(f, T)
  <2>1. \A h \in T : d[h] \in Int /\ f[h] \in Int /\ d[h] <= f[h]
    BY <1>3
  <2> QED
    BY <1>5, <2>1, OverMonotonic
<1>8. Over(s, Pids) \in Nat
  BY PidsOver
<1> QED
  BY <1>3, <1>4, <1>5, <1>6, <1>7, <1>8

\* The list is read: all that live are on it, and what was shown of them was in
\* the sample before.  Or it cannot be read, and what was shown of those that
\* live will be shown again.
LEMMA ShownList ==
  ASSUME SInv, List,
         NEW seen \in [Pids -> Nat], NEW cur \in [Pids -> Nat], NEW listed \in SUBSET Pids,
         Shows(seen, cur, listed)
  PROVE  \E s, c \in [Pids -> Nat], l \in SUBSET Pids : Shows(s, c, l)'
<1>1. /\ alive \in SUBSET Pids /\ flt \in [Pids -> Nat] /\ series \in Seq(Samples)
      /\ [du |-> 0, dt |-> 0, flt |-> 0] \in Samples /\ again \in Nat
  BY DEF SInv, TypeOK, Samples
<1>2. LastFlt(series) \in Nat /\ Total(Rises(series)) \in Nat
  BY <1>1, RisesAppend
<1>3. PICK zero \in [Pids -> Nat] : \A h \in Pids : zero[h] = 0
  <2>1. [h \in Pids |-> 0] \in [Pids -> Nat]
    OBVIOUS
  <2> QED
    BY <2>1
<1>4. PICK l \in SUBSET Pids : l = todo'
  BY <1>1 DEF List, ReadList
<1>5. /\ todo' = l /\ sum' = 0 /\ pc = "list" /\ pc' = "read"
      /\ UNCHANGED <<alive, flt, up, series>>
  BY <1>4 DEF List, container
<1>6. Over(zero, Pids) = 0
  BY <1>3, PidAssumption, OverZero
<1>7. \A h \in Pids : zero[h] <= flt[h]
  BY <1>1, <1>3
<1>8. ASSUME NEW s \in [Pids -> Nat], \A h \in Pids : s[h] <= flt[h],
             Over(s, l) <= LastFlt(series),
             Total(Rises(series)) <= Over(s, Pids) + again',
             up => \A h \in alive \ l : s[h] = 0
      PROVE  Shows(s, zero, l)'
  BY <1>3, <1>5, <1>6, <1>7, <1>8 DEF Shows
<1>9. CASE todo' = (IF up THEN alive ELSE {}) /\ again' = again
  <2>1. Over(seen, l) <= LastFlt(series)
    <3>1. CASE up
      BY <1>4, <1>5, <1>9, <3>1 DEF Shows
    <3>2. CASE ~ up
      BY <1>2, <1>4, <1>9, <3>2, OverEmpty
    <3> QED
      BY <3>1, <3>2
  <2>2. up => alive \ l = {}
    BY <1>4, <1>9
  <2>3. Shows(seen, zero, l)'
    BY <1>8, <1>9, <2>1, <2>2 DEF Shows
  <2> QED
    BY <2>3
<1>10. CASE todo' = {} /\ again' = again + Total([h \in alive |-> flt[h]])
  <2>1. again' = again + Over(flt, alive) /\ Over(flt, alive) \in Nat
    BY <1>10, FaultsOfTheLiving DEF SInv
  <2>2. \A h \in Pids : seen[h] <= flt[h]
    BY DEF Shows
  <2>3. PICK s \in [Pids -> Nat] :
          /\ \A h \in alive : s[h] = 0
          /\ \A h \in Pids \ alive : s[h] = seen[h]
          /\ Over(s, Pids) \in Nat
          /\ Over(seen, Pids) <= Over(s, Pids) + Over(flt, alive)
    BY <1>1, <2>2, GivenUp
  <2>4. \A h \in Pids : s[h] <= flt[h]
    <3> TAKE h \in Pids
    <3>1. flt[h] \in Nat /\ s[h] \in {0, seen[h]}
      BY <1>1, <2>3
    <3> QED
      BY <2>2, <3>1
  <2>5. Over(s, l) <= LastFlt(series)
    BY <1>2, <1>4, <1>10, OverEmpty
  <2>6. Total(Rises(series)) <= Over(s, Pids) + again'
    <3>1. Total(Rises(series)) <= Over(seen, Pids) + again
      BY DEF Shows
    <3>2. Over(seen, Pids) \in Nat
      BY PidsOver
    <3> QED
      BY <1>1, <1>2, <2>1, <2>3, <3>1, <3>2
  <2>7. Shows(s, zero, l)'
    BY <1>8, <2>3, <2>4, <2>5, <2>6
  <2> QED
    BY <2>7
<1> QED
  BY <1>9, <1>10 DEF List, ReadList

\* One process is read, or found gone, or cannot be read.
LEMMA ShownReadNext ==
  ASSUME SInv, ReadNext,
         NEW seen \in [Pids -> Nat], NEW cur \in [Pids -> Nat], NEW listed \in SUBSET Pids,
         Shows(seen, cur, listed)
  PROVE  \E s, c \in [Pids -> Nat], l \in SUBSET Pids : Shows(s, c, l)'
<1>1. /\ alive \subseteq Pids /\ flt \in [Pids -> Nat] /\ series \in Seq(Samples)
      /\ [du |-> 0, dt |-> 0, flt |-> 0] \in Samples /\ sum \in Nat /\ again \in Nat
  BY DEF SInv, TypeOK, Samples
<1>2. LastFlt(series) \in Nat /\ Total(Rises(series)) \in Nat
  BY <1>1, RisesAppend
<1>3. PICK h \in todo :
        /\ todo' = todo \ {h}
        /\ \/ h \in alive /\ sum' = sum + flt[h] /\ again' = again
           \/ h \notin alive /\ sum' = sum /\ again' = again
           \/ h \in alive /\ sum' = sum /\ again' = again + flt[h]
  BY DEF ReadNext
<1>4. pc = "read" /\ UNCHANGED <<alive, flt, up, pc, series>>
  BY DEF ReadNext, container
<1>5. /\ todo \subseteq listed /\ h \in Pids /\ cur[h] = 0 /\ sum = Over(cur, Pids)
      /\ Over(seen, listed) <= LastFlt(series)
  BY <1>3, <1>4 DEF Shows
<1>6. CASE h \in alive /\ sum' = sum + flt[h] /\ again' = again
  <2>1. PICK c \in [Pids -> Nat] : c = [cur EXCEPT ![h] = flt[h]]
    BY <1>1, <1>5
  <2>2. c[h] = flt[h] /\ \A k \in Pids \ {h} : c[k] = cur[k]
    BY <1>5, <2>1
  <2>3. Over(c, Pids) = (Over(cur, Pids) - cur[h]) + c[h]
    <3>1. /\ cur[h] \in Int /\ c[h] \in Int
          /\ \A k \in Pids \ {h} : cur[k] \in Int /\ c[k] = cur[k]
      BY <1>5, <2>2
    <3> QED
      BY <1>5, <3>1, PidAssumption, OverChange
  <2>4. sum' = Over(c, Pids)
    BY <1>1, <1>3, <1>5, <1>6, <2>2, <2>3
  <2>5. \A k \in Pids : c[k] <= flt[k] /\ seen[k] <= flt[k]
    <3>1. \A k \in Pids : cur[k] <= flt[k] /\ seen[k] <= flt[k]
      BY DEF Shows
    <3>2. flt[h] <= flt[h]
      BY <1>1, <1>5
    <3> QED
      BY <2>2, <3>1, <3>2
  <2>6. \A k \in Pids : k \notin listed \ todo' => c[k] = 0
    BY <1>3, <1>4, <1>5, <2>2 DEF Shows
  <2>7. \A k \in listed \ todo' : seen[k] <= c[k]
    BY <1>3, <1>4, <1>5, <2>2, <2>5 DEF Shows
  <2>8. Shows(seen, c, listed)'
    BY <1>3, <1>4, <1>5, <1>6, <2>4, <2>5, <2>6, <2>7 DEF Shows
  <2> QED
    BY <2>8
<1>7. CASE h \notin alive /\ sum' = sum /\ again' = again
  <2>1. PICK l \in SUBSET Pids : l = listed \ {h}
    OBVIOUS
  <2>2. l \ todo' = listed \ todo /\ todo' \subseteq l
    BY <1>3, <1>5, <2>1
  <2>3. Over(seen, l) <= LastFlt(series)
    <3>1. Over(seen, l) <= Over(seen, listed) /\ Over(seen, l) \in Nat /\ Over(seen, listed) \in Nat
      BY <2>1, PidsOver
    <3> QED
      BY <1>2, <1>5, <3>1
  <2>4. up => \A k \in alive \ l : seen[k] = 0
    BY <1>4, <1>7, <2>1 DEF Shows
  <2>5. sum' = Over(cur, Pids)
    BY <1>3, <1>5, <1>7
  <2>6. Shows(seen, cur, l)'
    BY <1>4, <1>7, <2>2, <2>3, <2>4, <2>5 DEF Shows
  <2> QED
    BY <2>6
<1>8. CASE sum' = sum /\ again' = again + flt[h]
  <2>1. PICK l \in SUBSET Pids : l = listed \ {h}
    OBVIOUS
  <2>2. l \ todo' = listed \ todo /\ todo' \subseteq l /\ h \notin l
    BY <1>3, <1>5, <2>1
  <2>3. \A k \in Pids : seen[k] <= flt[k] /\ cur[k] <= flt[k]
    BY DEF Shows
  <2>4. Over(flt, {h}) = flt[h]
    <3>1. IsFiniteSet({h}) /\ flt[h] \in Nat /\ {h} \ {h} = {}
      BY <1>1, <1>5, PidAssumption, FS_Subset
    <3>2. Over(flt, {h}) = flt[h] + Over(flt, {h} \ {h})
      BY <3>1, OverRemove
    <3> QED
      BY <3>1, <3>2, OverEmpty
  <2>5. PICK s \in [Pids -> Nat] :
          /\ s[h] = 0 /\ \A k \in Pids \ {h} : s[k] = seen[k]
          /\ Over(s, Pids) \in Nat /\ Over(seen, Pids) <= Over(s, Pids) + flt[h]
    <3>1. {h} \in SUBSET Pids /\ \A k \in {h} : seen[k] <= flt[k]
      BY <1>5, <2>3
    <3>2. \E s \in [Pids -> Nat] :
            /\ \A k \in {h} : s[k] = 0
            /\ \A k \in Pids \ {h} : s[k] = seen[k]
            /\ Over(s, Pids) \in Nat /\ Over(seen, Pids) <= Over(s, Pids) + Over(flt, {h})
      BY <1>1, <3>1, GivenUp
    <3> QED
      BY <2>4, <3>2
  <2>6. \A k \in Pids : s[k] <= flt[k] /\ s[k] <= seen[k]
    <3> TAKE k \in Pids
    <3>1. flt[k] \in Nat /\ seen[k] \in Nat /\ s[k] \in {0, seen[k]}
      BY <1>1, <2>5
    <3> QED
      BY <2>3, <3>1
  <2>7. Over(s, l) <= LastFlt(series)
    <3>1. Over(seen, l) <= Over(seen, listed) /\ Over(seen, l) \in Nat
          /\ Over(seen, listed) \in Nat /\ IsFiniteSet(l)
      BY <2>1, PidsOver
    <3>2. Over(s, l) <= Over(seen, l) /\ Over(s, l) \in Nat
      <4>1. \A k \in l : s[k] \in Int /\ seen[k] \in Int /\ s[k] <= seen[k]
        BY <2>6
      <4> QED
        BY <3>1, <4>1, OverMonotonic, PidsOver
    <3> QED
      BY <1>2, <1>5, <3>1, <3>2
  <2>8. Total(Rises(series)) <= Over(s, Pids) + again'
    <3>1. Total(Rises(series)) <= Over(seen, Pids) + again
      BY DEF Shows
    <3>2. Over(seen, Pids) \in Nat /\ flt[h] \in Nat
      BY <1>1, <1>5, PidsOver
    <3> QED
      BY <1>1, <1>2, <1>8, <2>5, <3>1, <3>2
  <2>9. /\ \A k \in Pids : k \notin l \ todo' => cur[k] = 0
        /\ \A k \in l \ todo' : s[k] <= cur[k]
        /\ up => \A k \in alive \ l : s[k] = 0
    <3>1. /\ \A k \in Pids : k \notin listed \ todo => cur[k] = 0
          /\ \A k \in listed \ todo : seen[k] <= cur[k]
          /\ up => \A k \in alive \ listed : seen[k] = 0
      BY <1>4 DEF Shows
    <3>2. \A k \in l \ todo' : s[k] = seen[k]
      BY <2>2, <2>5
    <3>3. \A k \in alive \ l : k = h \/ (k \in alive \ listed /\ s[k] = seen[k])
      BY <1>1, <2>1, <2>5
    <3> QED
      BY <2>2, <2>5, <3>1, <3>2, <3>3
  <2>10. Shows(s, cur, l)'
    BY <1>4, <1>5, <1>8, <2>2, <2>3, <2>6, <2>7, <2>8, <2>9 DEF Shows
  <2> QED
    BY <2>10
<1> QED
  BY <1>3, <1>6, <1>7, <1>8

\* The sample is complete: what it shows above the one before was not shown
\* then.
LEMMA ShownAppend ==
  ASSUME SInv, AppendSample,
         NEW seen \in [Pids -> Nat], NEW cur \in [Pids -> Nat], NEW listed \in SUBSET Pids,
         Shows(seen, cur, listed)
  PROVE  \E s \in [Pids -> Nat] : Shows(s, cur, listed)'
<1> DEFINE e == [du |-> du, dt |-> dt, flt |-> sum]
<1>1. /\ alive \subseteq Pids /\ series \in Seq(Samples) /\ sum \in Nat
      /\ e \in Samples /\ e.flt = sum
  BY DEF SInv, TypeOK, Samples
<1>2. /\ todo = {} /\ pc = "read" /\ pc' = "cpu" /\ series' = Append(series, e)
      /\ UNCHANGED <<alive, flt, up, todo, sum, again>>
  BY DEF AppendSample, container, reading
<1> HIDE DEF e
<1>3. /\ Total(Rises(series)) \in Nat /\ LastFlt(series) \in Nat
      /\ Total(Rises(series')) = Total(Rises(series)) + Above(LastFlt(series), sum)
      /\ LastFlt(series') = sum
  BY <1>1, <1>2, RisesAppend
<1>4. /\ Over(seen, listed) <= LastFlt(series) /\ Total(Rises(series)) <= Over(seen, Pids) + again
      /\ sum = Over(cur, Pids)
      /\ \A h \in Pids \ listed : cur[h] = 0
      /\ \A h \in listed : seen[h] <= cur[h]
      /\ up => \A h \in alive \ listed : seen[h] = 0
  BY <1>2 DEF Shows
<1>5. PICK d \in [Pids -> Nat] :
        d = [h \in Pids |-> IF h \in listed THEN cur[h] - seen[h] ELSE 0]
  <2>1. \A h \in Pids : (IF h \in listed THEN cur[h] - seen[h] ELSE 0) \in Nat
    BY <1>4
  <2> QED
    BY <2>1
<1>6. PICK s \in [Pids -> Nat] : s = [h \in Pids |-> seen[h] + d[h]]
  <2>1. \A h \in Pids : seen[h] + d[h] \in Nat
    OBVIOUS
  <2> QED
    BY <2>1
<1>7. /\ \A h \in Pids : s[h] = seen[h] + d[h]
      /\ \A h \in Pids \ listed : d[h] = 0
      /\ \A h \in listed : cur[h] = seen[h] + d[h]
  BY <1>5, <1>6
<1>8. Over(s, Pids) = Over(seen, Pids) + Over(d, Pids)
  <2>1. \A h \in Pids : seen[h] \in Int /\ d[h] \in Int /\ s[h] = seen[h] + d[h]
    BY <1>7
  <2> QED
    BY <2>1, PidAssumption, OverPlus
<1>9. IsFiniteSet(listed) /\ \A h \in Pids : d[h] \in Int /\ cur[h] \in Int /\ seen[h] \in Int
  BY PidsOver
<1>10. Over(d, Pids) = Over(d, listed) /\ Over(cur, Pids) = Over(cur, listed)
  BY <1>4, <1>7, <1>9, PidAssumption, OverPart
<1>11. Over(cur, listed) = Over(seen, listed) + Over(d, listed)
  <2>1. \A h \in listed : seen[h] \in Int /\ d[h] \in Int /\ cur[h] = seen[h] + d[h]
    BY <1>7
  <2> QED
    BY <1>9, <2>1, OverPlus
<1>12. /\ Over(seen, Pids) \in Nat /\ Over(seen, listed) \in Nat /\ Over(d, listed) \in Nat
       /\ again \in Nat /\ again' = again
  BY <1>2, PidsOver DEF SInv, TypeOK
<1>13. Total(Rises(series')) <= Over(s, Pids) + again'
  BY <1>1, <1>3, <1>4, <1>8, <1>10, <1>11, <1>12 DEF Above
<1>14. up => Over(s, alive) <= sum
  <2> SUFFICES ASSUME up PROVE Over(s, alive) <= sum
    OBVIOUS
  <2>1. \A h \in alive : s[h] \in Int /\ cur[h] \in Int /\ s[h] <= cur[h]
    <3> TAKE h \in alive
    <3>1. h \in Pids
      BY <1>1
    <3>2. CASE h \in listed
      BY <1>7, <3>1, <3>2
    <3>3. CASE h \notin listed
      <4>1. s[h] = seen[h] + d[h] /\ seen[h] = 0 /\ d[h] = 0 /\ cur[h] = 0
        BY <1>4, <1>7, <3>1, <3>3
      <4> QED
        BY <4>1
    <3> QED
      BY <3>2, <3>3
  <2>2. IsFiniteSet(alive) /\ Over(cur, alive) \in Nat /\ Over(s, alive) \in Nat
    BY <1>1, PidsOver
  <2>3. Over(s, alive) <= Over(cur, alive)
    BY <2>1, <2>2, OverMonotonic
  <2>4. Over(cur, alive) <= Over(cur, Pids)
    BY <1>1, PidsOver
  <2> QED
    BY <1>1, <1>4, <2>2, <2>3, <2>4
<1>15. \A h \in Pids : s[h] <= flt[h] /\ cur[h] <= flt[h]
  <2>1. \A h \in Pids : seen[h] <= flt[h] /\ cur[h] <= flt[h]
    BY DEF Shows
  <2>2. \A h \in Pids : s[h] = IF h \in listed THEN cur[h] ELSE seen[h]
    BY <1>7
  <2> QED
    BY <2>1, <2>2
<1>16. Shows(s, cur, listed)'
  BY <1>2, <1>3, <1>13, <1>14, <1>15 DEF Shows
<1> QED
  BY <1>16

LEMMA ShownInit == Init => Shown
<1> SUFFICES ASSUME Init PROVE Shown
  OBVIOUS
<1>1. /\ series = <<>> /\ pc = "first" /\ alive \subseteq Pids /\ again = 0
      /\ \A h \in Pids : flt[h] = 0
  BY DEF Init
<1>2. PICK zero \in [Pids -> Nat] : \A h \in Pids : zero[h] = 0
  <2>1. [h \in Pids |-> 0] \in [Pids -> Nat]
    OBVIOUS
  <2> QED
    BY <2>1
<1>3. Total(Rises(series)) = 0 /\ LastFlt(series) = 0
  <2>1. DOMAIN Rises(<<>>) = {}
    BY DEF Rises
  <2> QED
    BY <1>1, <2>1, TotalIsOver, OverEmpty DEF LastFlt
<1>4. Over(zero, Pids) = 0 /\ Over(zero, alive) = 0
  <2>1. IsFiniteSet(alive) /\ \A h \in alive : zero[h] = 0
    BY <1>1, <1>2, PidAssumption, FS_Subset
  <2> QED
    BY <1>2, <2>1, PidAssumption, OverZero
<1>5. Shows(zero, zero, {})
  BY <1>1, <1>2, <1>3, <1>4 DEF Shows
<1> QED
  BY <1>1, <1>2, <1>5 DEF Shown

LEMMA ShownStep ==
  ASSUME SInv, Shown, [Next]_vars PROVE Shown'
<1>1. PICK seen \in [Pids -> Nat], cur \in [Pids -> Nat], listed \in SUBSET Pids :
        Shows(seen, cur, listed)
  BY DEF Shown
<1>2. \A h \in Pids \ born' : flt'[h] = 0
  <2>1. \A h \in Pids \ born : flt[h] = 0
    BY DEF Shown
  <2>2. ASSUME NEW h \in Pids, Fault(h) PROVE \A k \in Pids \ born' : flt'[k] = 0
    BY <2>1, <2>2 DEF Fault, SInv, TypeOK
  <2>3. CASE Fork
    BY <2>1, <2>3 DEF Fork
  <2> QED
    BY <2>1, <2>2, <2>3 DEF Next, Container, Sampler, Exit, Tick, Remove, FirstNow, CpuRead,
       CpuReadFail, CpuNow, List, ReadNext, AppendSample, container, vars
<1>3. \E s, c \in [Pids -> Nat], l \in SUBSET Pids : Shows(s, c, l)'
  <2>1. CASE Container
    BY <1>1, <2>1, ShownContainer DEF Shown
  <2>2. CASE List
    BY <1>1, <2>2, ShownList
  <2>3. CASE ReadNext
    BY <1>1, <2>3, ShownReadNext
  <2>4. CASE AppendSample
    BY <1>1, <2>4, ShownAppend
  <2>5. CASE FirstNow \/ CpuRead \/ CpuReadFail \/ CpuNow \/ UNCHANGED vars
    <3>1. Shows(seen, cur, listed)'
      BY <1>1, <2>5 DEF FirstNow, CpuRead, CpuReadFail, CpuNow, vars, container, reading, Shows
    <3> QED
      BY <1>1, <3>1
  <2> QED
    BY <2>1, <2>2, <2>3, <2>4, <2>5 DEF Next, Sampler
<1> QED
  BY <1>2, <1>3 DEF Shown

\* However processes are born and die while they are read one after the other,
\* the faults the analyzer counts over a run are faults they took, and at most
\* those that failed reads let it count again
\* (cgroup.go:80-106, classifier.go:58-62).
THEOREM RealFaults == Spec => []RisesAreReal
<1>1. SInv /\ Shown => RisesAreReal
  <2> SUFFICES ASSUME SInv, Shown PROVE Total(Rises(series)) <= Total(flt) + again
    BY DEF RisesAreReal
  <2>1. PICK seen \in [Pids -> Nat], cur \in [Pids -> Nat], listed \in SUBSET Pids :
          Shows(seen, cur, listed)
    BY DEF Shown
  <2>2. flt \in [Pids -> Nat] /\ \A h \in Pids : seen[h] <= flt[h]
    BY <2>1 DEF Shows, SInv, TypeOK
  <2>3. Over(seen, Pids) <= Over(flt, Pids)
    BY <2>2, PidAssumption, OverMonotonic
  <2>4. Over(seen, Pids) \in Nat /\ Over(flt, Pids) \in Nat
    BY <2>2, PidsOver
  <2>5. Total(Rises(series)) \in Nat /\ Total(Rises(series)) <= Over(seen, Pids) + again /\ again \in Nat
    <3>1. [du |-> 0, dt |-> 0, flt |-> 0] \in Samples /\ series \in Seq(Samples)
      BY DEF SInv, TypeOK, Samples
    <3> QED
      BY <2>1, <3>1, RisesAppend DEF Shows, SInv, TypeOK
  <2>6. Total(flt) = Over(flt, Pids)
    BY <2>2, TotalIsOver
  <2> QED
    BY <2>3, <2>4, <2>5, <2>6
<1> QED
  BY <1>1, SamplerInvariance, ShownInit, ShownStep, PTL DEF Spec
=============================================================================

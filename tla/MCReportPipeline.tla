------------------------- MODULE MCReportPipeline -------------------------
(* Instances of ReportPipeline for TLC: the workloads. *)
EXTENDS ReportPipeline

NoMem  == [sign |-> "", whole |-> 0, fraction |-> FALSE, unit |-> "", tail |-> ""]
NoCpu  == [hundredths |-> 0, percent |-> FALSE]
HalfCore == [hundredths |-> 5000, percent |-> TRUE]

Quiet == [gap |-> {1}, cpu |-> {50}, rss |-> {1}, rd |-> {0}, wr |-> {0}, flt |-> {0},
          mem |-> NoMem, quota |-> NoCpu, fails |-> {}, samples |-> 4]

\* Counters that lose exited processes, and intervals of no length.
Faulting == [Quiet EXCEPT !.gap = {-1, 0, 1, 2}, !.flt = {0, 3}, !.samples = 3]

\* Low and high CPU, little, some and much I/O.
Rules == [Quiet EXCEPT !.cpu = {20, 100}, !.wr = {0, 1, 12}, !.fails = {"cpu"}]

\* The same with memory below and at its limit.
Pressing == [Quiet EXCEPT !.cpu = {20, 100}, !.rss = {5, 10}, !.wr = {0, 12},
                          !.mem.whole = 10, !.quota = HalfCore, !.samples = 3]

\* Long enough for quarters, and for spikes, with reads that fail.
Growing == [Quiet EXCEPT !.rss = {1, 2}, !.fails = {"mem"}, !.samples = 5]
Spiky == [Quiet EXCEPT !.wr = {1, 4}, !.fails = {"io"}, !.samples = 5]

\* A clock that stands still, with low and high levels.
Stalled == [Quiet EXCEPT !.gap = {0, 1}, !.cpu = {20, 100}, !.rss = {5, 10}, !.mem.whole = 10]

\* Every kind of limit text, on a run that ends before its first sample, with
\* numbers within and beyond what signed and unsigned integers hold.
Texts == [sign : {"", "+", "-"}, whole : {0, 1, 3, Long \div 2, Long + 1, 2 * Long},
          fraction : BOOLEAN, unit : Units, tail : {"", "blank", "b"}]
Limited == {[Quiet EXCEPT !.mem = t, !.samples = 0] : t \in Texts}

AllWorkloads == {Faulting, Rules, Pressing, Growing, Spiky, Stalled} \cup Limited

\* Three levels of CPU, for the rules that look at one of two conditions.
Levelled == {[Quiet EXCEPT !.cpu = {20, 60, 100}, !.wr = {0, 1, 12}]}
=============================================================================

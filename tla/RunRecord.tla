----------------------------- MODULE RunRecord -----------------------------
(***************************************************************************)
(* What cspip run and cspip report promise of a run's record, as           *)
(* internal/store and cmdRun mean it: samples are taken until the sampler  *)
(* has finished; the record is stored once, with all of the samples or     *)
(* with none; a report shows what was stored, and nothing before that.     *)
(***************************************************************************)
EXTENDS Naturals, Sequences

VARIABLES taken, finished, stored, shown

(* Nothing, or the number of samples. *)
Absent == <<>>

Init == taken = 0 /\ finished = FALSE /\ stored = Absent /\ shown = Absent

Take == /\ ~finished /\ taken' = taken + 1
        /\ UNCHANGED <<finished, stored, shown>>

Finish == /\ ~finished /\ finished' = TRUE
          /\ UNCHANGED <<taken, stored, shown>>

Store == /\ stored = Absent
         /\ stored' \in {<<0>>} \cup (IF finished THEN {<<taken>>} ELSE {})
         /\ UNCHANGED <<taken, finished, shown>>

Show == /\ stored # Absent /\ shown' = stored
        /\ UNCHANGED <<taken, finished, stored>>

Next == Take \/ Finish \/ Store \/ Show

vars == <<taken, finished, stored, shown>>

Spec == Init /\ [][Next]_vars
=============================================================================

-------------------------- MODULE ResearchPrograms --------------------------
(***************************************************************************)
(* The programs of src/conicshield/experimental that decide something: the *)
(* safety filter with its gate, the shadow studies and the observatory of  *)
(* gradients.  Each is started on its own, in a process that ends with it, *)
(* and shares no state with the others: the variables of those that were   *)
(* not started keep their initial values.                                  *)
(***************************************************************************)
EXTENDS Stage4Gate, ShadowStudy, GradientObservatory

researchVars == <<vars, gate, studyVars, gradVars>>

ResearchInit == Init /\ GateInit /\ StudyInit /\ GradInit

\* None of a program's variables has been written.
NoFilter == phase = "idle" /\ gate = NoGate
NoStudy == stage = "none"
NoObservation == doing = "none"

\* The program came to its end, or raised.
Ended == \/ stage = "done"
         \/ doing \in {"observed", "agreed"}

ResearchNext ==
  \/ NoStudy /\ NoObservation /\ GatedNext /\ UNCHANGED <<studyVars, gradVars>>
  \/ NoFilter /\ NoObservation /\ StudyStep /\ UNCHANGED <<vars, gate, gradVars>>
  \/ NoFilter /\ NoStudy /\ GradStep /\ UNCHANGED <<vars, gate, studyVars>>
  \/ Ended /\ UNCHANGED researchVars

ResearchSpec == ResearchInit /\ [][ResearchNext]_researchVars
=============================================================================

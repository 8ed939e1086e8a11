------------------------ MODULE MCExperimentProgress ------------------------
(* Instances of ExperimentProgress for TLC. *)
EXTENDS ExperimentProgress, TLC

CONSTANTS i1, i2, i3

Essay == [type |-> "ESSAY", required |-> TRUE]
Question == [type |-> "QUESTION", required |-> TRUE]
Needed == [type |-> "SURVEY", required |-> TRUE]
Optional == [type |-> "SURVEY", required |-> FALSE]

Plan(mode, consent, items) ==
  [mode |-> mode, consent |-> consent, neutral |-> Len(items) > 1, items |-> items]

One == {i1}
Two == {i1, i2}
Three == {i1, i2, i3}

\* Every progression, with the surveys where ExperimentPlanForm allows them.
StrictPlans ==
  { Plan("STRICT", TRUE, <<Needed, Essay, Optional>>),
    Plan("STRICT", FALSE, <<Question, Essay>>),
    Plan("STRICT", TRUE, <<Essay>>) }
FreePlans ==
  { Plan("FREE", FALSE, <<Needed, Essay, Question>>),
    Plan("FREE", FALSE, <<Essay, Question, Optional>>) }
ReviewPlans ==
  { Plan("REVIEW", FALSE, <<Essay, Question>>),
    Plan("REVIEW", FALSE, <<Question, Needed>>) }
EveryMode == StrictPlans \union FreePlans \union ReviewPlans \union {NoPlan}
Raced ==
  { Plan("STRICT", FALSE, <<Needed, Question, Optional>>),
    Plan("STRICT", FALSE, <<Optional, Essay>>),
    Plan("FREE", FALSE, <<Essay, Question>>),
    Plan("REVIEW", FALSE, <<Question, Essay>>) }

LooseSurveys ==
  { Plan("FREE", FALSE, <<Needed, Question>>), Plan("REVIEW", FALSE, <<Needed, Question>>) }
NoSurveyPlan == {Plan("STRICT", FALSE, <<Question, Question>>)}
EssayOnly == {Plan("STRICT", FALSE, <<Essay>>)}
SkippableFirst == {Plan("REVIEW", FALSE, <<Optional, Question>>)}

Anonymous == Permutations(Requests)
=============================================================================

------------------------------ MODULE Pipeline ------------------------------
(***************************************************************************)
(* The pipeline of a connection (caller/call/pipeline.cpp and              *)
(* pipelinestage.hpp): stages in a doubly linked list between a first and  *)
(* a last one, and who is told next of an event.                           *)
(*                                                                         *)
(* Activation, inactivity and exceptions go to the next stage; writes and  *)
(* their completions to the next one that writes; what is read, and the    *)
(* completion of a read, to the previous one that reads. A stage with an   *)
(* executor is told by a task of it, and then what was to be read or       *)
(* written is replaced by pipelineInactive.                                *)
(***************************************************************************)
EXTENDS Naturals, Sequences, SequencesExt

CONSTANTS
    FirstStage, LastStage,
    Stages,     \* the stages that users append
    Reading,    \* those of StageTypeIn or StageTypeBoth
    Writing,    \* those of StageTypeOut or StageTypeBoth
    Remote,     \* those with an executor
    NoStage     \* a null pointer

AllStages == Stages \cup {FirstStage, LastStage}

\* The ends are those that IOPipelineContext gives to a pipeline.
ASSUME PipelineAssumption ==
    /\ FirstStage # LastStage /\ NoStage \notin AllStages
    /\ {FirstStage, LastStage} \cap Stages = {}
    /\ Reading \cup Writing = AllStages
    /\ FirstStage \in Reading \ Writing
    /\ LastStage \in Reading \cap Writing
    /\ Remote \subseteq Stages

Events == {"active", "inactive", "writeComplete", "readComplete", "read", "write",
           "exception"}

\* The list of a new pipeline.
make ==
    [stages |-> <<>>,
     next |-> [s \in AllStages |-> IF s = FirstStage THEN LastStage ELSE NoStage],
     prev |-> [s \in AllStages |-> IF s = LastStage THEN FirstStage ELSE NoStage]]

\* A stage goes behind those that were appended before it, and in front of the
\* last one.
append(pipe, stage) ==
    LET penultimate == IF pipe.stages = <<>> THEN FirstStage ELSE Last(pipe.stages)
    IN  [stages |-> Append(pipe.stages, stage),
         next |-> [pipe.next EXCEPT ![penultimate] = stage, ![stage] = LastStage],
         prev |-> [pipe.prev EXCEPT ![stage] = penultimate, ![LastStage] = stage]]

Built(appended) ==
    LET after[n \in 0..Len(appended)] ==
            IF n = 0 THEN make ELSE append(after[n - 1], appended[n])
    IN  after[Len(appended)]

findWritableStage(pipe, stage) ==
    LET walk[s \in AllStages \cup {NoStage}] ==
            IF s \in Writing \cup {NoStage} THEN s ELSE walk[pipe.next[s]]
    IN  walk[pipe.next[stage]]

findReadableStage(pipe, stage) ==
    LET walk[s \in AllStages \cup {NoStage}] ==
            IF s \in Reading \cup {NoStage} THEN s ELSE walk[pipe.prev[s]]
    IN  walk[pipe.prev[stage]]

\* The stage that invoke... of a stage tells.
Following(pipe, event, stage) ==
    CASE event \in {"active", "inactive", "exception"} -> pipe.next[stage]
      [] event \in {"write", "writeComplete"} -> findWritableStage(pipe, stage)
      [] event \in {"read", "readComplete"} -> findReadableStage(pipe, stage)

\* What a stage with an executor is told.
RemoteEvent(event) == IF event \in {"read", "write"} THEN "inactive" ELSE event

\* Mutant: the first stage is told of exceptions too.
EntryOfAll(pipe, event) ==
    CASE event \in {"active", "inactive", "writeComplete"} -> <<FirstStage>>
      [] event \in {"read", "readComplete"} -> <<LastStage>>
      [] event = "write" -> <<Head(Append(pipe.stages, LastStage))>>
      [] event = "exception" -> <<FirstStage>> \o Append(pipe.stages, LastStage)

\* The stages that Pipeline tells itself, in this order, whatever their
\* executors. The first stage is never told of an exception.
Entry(pipe, event) ==
    CASE event \in {"active", "inactive", "writeComplete"} -> <<FirstStage>>
      [] event \in {"read", "readComplete"} -> <<LastStage>>
      [] event = "write" -> <<Head(Append(pipe.stages, LastStage))>>
      [] event = "exception" -> Append(pipe.stages, LastStage)

==============================================================================

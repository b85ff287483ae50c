-------------------------- MODULE MCMemoryPipeline --------------------------
(* An artifact and a decision of one concept, and a task of another.           *)
EXTENDS MemoryPipeline

RoleOf == [e \in Entity |-> CASE e = 1 -> "artifact" [] e = 2 -> "decision" [] OTHER -> "task"]
TopicOf == [e \in Entity |-> IF e < 3 THEN "env" ELSE "build"]
HumanPagesOf == {{}, {<<"decision", "s2">>, <<"concept", "s1">>}}
NameSlugOf == [e \in Entity |-> "s1"]
=============================================================================

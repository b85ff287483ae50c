--------------------------- MODULE MCProcessDriver ---------------------------
(* Instances of ProcessDriver: a process that does a task, waits for its merge  *)
(* request, asks for an approval and waits again.                               *)
EXTENDS ProcessDriver

SmallProcess ==
    <<[kind |-> "task", types |-> {}], [kind |-> "event", types |-> {"merged"}],
      [kind |-> "gate", types |-> {}], [kind |-> "event", types |-> {"merged", "failed"}]>>
=============================================================================

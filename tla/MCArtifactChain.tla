-------------------------- MODULE MCArtifactChain --------------------------
(* Three of the shipped pipelines, by what a handoff asks of them.         *)
EXTENDS RunTools

Shipped ==
  [investigate |-> [inputs |-> {"request"}, optional |-> {}, gate |-> FALSE,
                    exports |-> FALSE, results |-> {"findings"}],
   specCreation |-> [inputs |-> {"request", "findings"},
                     optional |-> {"findings"}, gate |-> TRUE,
                     exports |-> TRUE, results |-> {"findings"}],
   develop |-> [inputs |-> {"plan"}, optional |-> {}, gate |-> FALSE,
                exports |-> FALSE, results |-> {}]]

=============================================================================

-------------------------- MODULE MCSessionEngine --------------------------
(* TLC instances of SessionEngine. *)
EXTENDS SessionEngine, TLC

\* Identities of a kind are interchangeable: nothing orders them.
Symmetry == Permutations(Jobs) \cup Permutations(Workers) \cup Permutations(Clients)
              \cup Permutations(Tools)

\* TaskOf of a plan without steps, with one step, and with a task each for two.
NoSteps == <<>>
OneStep == <<"recon">>
TwoSteps == <<"recon", "report">>
=============================================================================

------------------------------ MODULE Examples ------------------------------
(***************************************************************************)
(* The functions of examples/ that need no solver to be right: the         *)
(* circuits, the packet views and the usage snippets.  Each makes its own  *)
(* context, variables and buffers, so that a behaviour is one of them.     *)
(***************************************************************************)
EXTENDS Circuits, PacketView, Snippets

vars == <<circuitVars, viewVars, snippetVars>>

-----------------------------------------------------------------------------
\* What is not part of the example at hand stays as it is at its start.
NoCircuit ==
    /\ circuit = "none" /\ a = 0 /\ b = 0 /\ row = 0 /\ j = 0
    /\ carry = 0 /\ part = 0 /\ upper = 0 /\ low = 0 /\ r = <<>>
NoView    == buffer = {} /\ call = <<>> /\ writes = MaxWrites
NoSnippet == line = "none" /\ operands = <<>> /\ declared = UInt(1) /\ result = Term(1, FALSE, 0)

Init ==
    \/ CircuitInit /\ NoView /\ NoSnippet
    \/ ViewInit /\ NoCircuit /\ NoSnippet
    \/ SnippetInit /\ NoCircuit /\ NoView

Next ==
    \/ CircuitNext /\ UNCHANGED <<viewVars, snippetVars>>
    \/ ViewNext /\ UNCHANGED <<circuitVars, snippetVars>>
    \/ SnippetNext /\ UNCHANGED <<circuitVars, viewVars>>

Spec == Init /\ [][Next]_vars
=============================================================================

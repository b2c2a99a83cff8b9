--------------------------- MODULE MCToolGateway ---------------------------
(* Three tools, two of which escalate; a request and two operators beside the drives. *)
EXTENDS ToolGateway, TLC

MCScripts == {<<"drop", "drop">>, <<"fetch", "drop">>, <<"fetch", "fetch">>}

\* A crash or the end of a breaker's open time, not both: the crash forgets the breaker.
\* What follows a torn approval is left out: the properties of approvals except it.
Focus == crashes + now <= 1 /\ ~ torn

Symmetry == Permutations(Operators)
===========================================================================

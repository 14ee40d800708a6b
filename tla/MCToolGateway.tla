--------------------------- MODULE MCToolGateway ---------------------------
(* Small instances of ToolGateway for TLC. *)
EXTENDS ToolGatewaySafety, TLC

CONSTANTS p1, p2, a1

\* Two refunds in two sessions.
Call(op, tool, session, approval) ==
    [op |-> op, tool |-> tool, session |-> session, approval |-> approval]

Pay == Call("pay", "FINANCIAL", "s1", a1)
PayAgain == Call("pay", "FINANCIAL", "s2", a1)

ClaimCalls == {Pay, PayAgain}

MCApprovalOp == [a \in Approvals |-> "pay"]

\* They are named as the theorems about claims suppose.
ASSUME CallsAreNamed == OneCallEach

CallerSymmetry == Permutations(Callers)
=============================================================================

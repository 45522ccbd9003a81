----------------------------- MODULE AdiServer -----------------------------
(***************************************************************************)
(* What an ADIv5 controller (JTAG or SWD) promises its client: the         *)
(* commands written are carried out in order, and each one is answered     *)
(* once, in that order, but for those that only reset the line, which are  *)
(* not answered.  A reset of the controller drops everything.              *)
(***************************************************************************)
EXTENDS Sequences

CONSTANTS
    Req,          \* the commands
    Silent(_),    \* commands without an answer
    Answer        \* the answers

VARIABLES
    todo,   \* commands written and not completed
    resp    \* answers the client has not read

vars == <<todo, resp>>

Init == todo = <<>> /\ resp = <<>>

Write == \E r \in Req : todo' = Append(todo, r) /\ UNCHANGED resp

Read == resp # <<>> /\ resp' = Tail(resp) /\ UNCHANGED todo

Serve ==
    /\ todo # <<>>
    /\ todo' = Tail(todo)
    /\ IF Silent(Head(todo)) THEN UNCHANGED resp
       ELSE \E a \in Answer : resp' = Append(resp, a)

Reset == todo' = <<>> /\ resp' = <<>>

Next == Write \/ Read \/ Serve \/ Reset

Spec == Init /\ [][Next]_vars
=============================================================================

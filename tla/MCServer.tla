------------------------------ MODULE MCServer ------------------------------
(* The server and the clients it may lose: the possibilities handed out       *)
(* (work) and the control channel (control).  A behaviour is about one of     *)
(* them.  Work: the tree of MCWorkDistribution.  Control: two clients, of one *)
(* machine or of two, and three connections: a client that reconnects while   *)
(* its old session is still served.                                           *)
EXTENDS MCWorkDistribution, ControlChannel

CONSTANTS c1, c2, m1, m2
VARIABLE part   \* "work" or "control"

Nothing == [links |-> 3, orders |-> 0, work |-> 0, polls |-> 0, stops |-> 0,
         saves |-> 0, restarts |-> 0, restores |-> 0]
MCMode == (c1 :> "search") @@ (c2 :> "prune")
MCLabel == (c1 :> "a") @@ (c2 :> "a")
Apart == (c1 :> m1) @@ (c2 :> m2)
Together == (c1 :> m1) @@ (c2 :> m1)
Behaviour(clients, machineOf, kinds, start) ==
  [clients |-> clients, machineOf |-> machineOf, kinds |-> kinds, left |-> start]
MCSettings ==
  { \* one client that reconnects; orders to the fleet and to a session
    Behaviour({c1}, Apart, {"all", "to"}, [Nothing EXCEPT !.links = 2, !.orders = 2]),
    Behaviour({c1}, Apart, {"roles"}, [Nothing EXCEPT !.links = 2, !.orders = 2]),
    Behaviour({c1}, Apart, {"all"}, [Nothing EXCEPT !.links = 2, !.orders = 2, !.stops = 1]),
    \* the slot and the number of a client that left
    Behaviour({c1, c2}, Apart, {"to"}, [Nothing EXCEPT !.links = 2, !.orders = 1]),
    \* the register of machines, with one place, and three connections
    Behaviour({c1, c2}, Apart, {}, Nothing),
    Behaviour({c1, c2}, Together, {}, Nothing),
    Behaviour({c2}, Apart, {}, [Nothing EXCEPT !.work = 1, !.polls = 2]),
    Behaviour({c1, c2}, Together, {"roles", "auto"}, [Nothing EXCEPT !.links = 2, !.orders = 1]),
    Behaviour({c1, c2}, Apart, {}, [Nothing EXCEPT !.links = 2, !.saves = 1, !.restarts = 1]) }

-----------------------------------------------------------------------------
\* A step A of one of the two, the other being left alone.
InWork(A) == part = "work" /\ A /\ UNCHANGED <<part, ctlVars>>
InControl(A) == part = "control" /\ A /\ UNCHANGED <<part, vars>>

MCInit ==
  /\ part \in {"work", "control"} /\ Init /\ CtlInit
  /\ part = "work" => ctlSet = CHOOSE s \in CtlSettings : TRUE
MCNext == InWork(Next) \/ InControl(CtlNext)
MCSpec == MCInit /\ [][MCNext]_<<part, vars, ctlVars>>
MCFairSpec ==
  /\ MCInit /\ [][MCNext]_<<part, vars, ctlVars>>
  /\ \A s \in Slot : WF_vars(InWork(SessionEnds(s)))
  /\ \A k \in Client : WF_vars(InWork(CtrlClosed(k)))
  /\ WF_vars(InWork(LeasePass))
  /\ \A k \in Link : WF_ctlVars(InControl(ServerStep(k)))

\* DeadClientRecovered and SlotsFreed, each in the behaviours about its part: what
\* a client that is gone holds, a possibility or a session's slot, is taken back.
HeldByGone ==
  \/ part = "work" /\ DeadClientHolds
  \/ part = "control" /\ ClosedIsServed
GoneIsReleased == HeldByGone ~> ~ HeldByGone
=============================================================================

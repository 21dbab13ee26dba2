----------------------------- MODULE PanelLife -----------------------------
(***************************************************************************)
(* What a configuration panel promises its user: once opened it says that  *)
(* it is invoking the configuration, and it does not say so forever: the   *)
(* menu comes up or the panel closes.  A closed panel stays closed.        *)
(***************************************************************************)
CONSTANT Panel

VARIABLE life

TypeOK == life \in [Panel -> {"new", "invoking", "ready", "closed"}]

Init == life = [p \in Panel |-> "new"]

Open(p) ==
    /\ life[p] = "new"
    /\ life' = [life EXCEPT ![p] = "invoking"]

Ready(p) ==
    /\ life[p] = "invoking"
    /\ life' = [life EXCEPT ![p] = "ready"]

Close(p) ==
    /\ life[p] \in {"invoking", "ready"}
    /\ life' = [life EXCEPT ![p] = "closed"]

Next == \E p \in Panel : Open(p) \/ Ready(p) \/ Close(p)

Invoked(p) == life[p] = "invoking" /\ (Ready(p) \/ Close(p))

Safe == Init /\ [][Next]_life

Spec == Safe /\ \A p \in Panel : WF_life(Invoked(p))
=============================================================================

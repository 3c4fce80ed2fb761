------------------------- MODULE TemplateRegister -------------------------
(***************************************************************************)
(* What the template side of the service promises: the template of a group *)
(* is always one whole definition that somebody applied, and it is hidden  *)
(* or shown by the switch alone. TemplateStore implements it.              *)
(***************************************************************************)
CONSTANTS
    Groups,       \* template groups of one service
    Definitions   \* for each group, the definitions clients and seeds apply

VARIABLE templates

Absent == [active |-> FALSE]

Init == templates = [g \in Groups |-> Absent]

\* A new template is active; a known one stays as it was switched.
Apply(g, d) ==
    templates' = [templates EXCEPT ![g] =
        [label  |-> d.label,
         fields |-> d.fields,
         active |-> @ = Absent \/ @.active]]

Switch(g, on) ==
    /\ templates[g] # Absent
    /\ templates' = [templates EXCEPT ![g].active = on]

Next == \E g \in Groups :
    \/ \E d \in Definitions[g] : Apply(g, d)
    \/ \E on \in BOOLEAN : Switch(g, on)

Spec == Init /\ [][Next]_templates
=============================================================================

------------------------- MODULE MCAddressEditModal -------------------------
(* Two namespaces with an app of the same name, that declares the same       *)
(* address, in one as pub/sub, a second name, and another row of the form.   *)
EXTENDS AddressEditModal

CONSTANTS a, b, untrimmedA, s, n1, n2, x, y, c1, untrimmedC1

MCTexts == {a, b, untrimmedA, Blank}
MCTrim == [t \in MCTexts |-> IF t = untrimmedA THEN a ELSE t]
MCSelectors == {c1, untrimmedC1}
MCTrimSelectors ==
    [c \in MCSelectors \cup {NoSelector} |-> IF c = untrimmedC1 THEN c1 ELSE c]

MCDeclared ==
    [app \in {n1, n2} \X {x, y} |->
        CASE app = <<n1, x>> -> {[address |-> a, pubSub |-> TRUE]}
          [] app = <<n2, x>> -> {[address |-> a, pubSub |-> FALSE]}
          [] OTHER -> {}]
MCApps == {n1, n2} \X {x, y}

MCOthers == <<[NewRow EXCEPT !.address = b]>>

MCOpenedRows ==
    {NewRow,
     [NewRow EXCEPT !.address = a, !.ownership = "external", !.app = <<n1, x>>,
                    !.pubSub = TRUE]}

=============================================================================

-------------------------- MODULE MCAddressManager --------------------------
(* Three families of CRs: of entries as the form writes them, up to one      *)
(* owned address and two entries in each list of the capability; of          *)
(* addresses spelled in any way, up to two owned ones; and of entries with   *)
(* routing and selectors that the form does not write.  And edits of up to   *)
(* two rows.  Three texts more may be typed in the YAML view.                *)
EXTENDS AddressManager

CONSTANTS a, b, untrimmedA, s, x, y, c1, untrimmedC1

MCNames == {a, b}
MCTexts == {a, b, untrimmedA, Blank}
MCTrim == [t \in MCTexts |-> IF t = untrimmedA THEN a ELSE t]
MCSelectors == {c1, untrimmedC1}
MCTrimSelectors ==
    [c \in MCSelectors \cup {NoSelector} |-> IF c = untrimmedC1 THEN c1 ELSE c]

(* a gets any row of one app; the others are rows of x, consumed or both. *)
MCPayloads ==
    {r \in Row : /\ r.app # y
                 /\ r.address # a => /\ r.ownership = "external" /\ r.app = x
                                     /\ r.direction \in {"consumes", "both"}
                                     /\ r.address # b => ~r.pubSub}

Spec1 == [address : {a}, pubSub : BOOLEAN, subscriptions : SUBSET {s}, selectors : {NoSelector}]
Producers == [address : {a}, app : {NoApp, x, y}, pubSub : BOOLEAN, subscriptions : {{}}]
                 \cup [address : {b}, app : {x, y}, pubSub : BOOLEAN, subscriptions : {{}}]
Consumers == [address : {a}, app : {NoApp, x}, pubSub : {FALSE}, subscriptions : SUBSET {s}]
                 \cup [address : {b}, app : {x}, pubSub : {FALSE}, subscriptions : SUBSET {s}]

WrittenCRs == [addresses : SeqOf(Spec1, 1), producerOf : SeqOf(Producers, 2),
               consumerOf : SeqOf(Consumers, 2), further : {FALSE}]

SpelledCRs ==
    {c \in
    [addresses : SeqOf([address : {a, untrimmedA, Blank}, pubSub : {FALSE},
                        subscriptions : {{}}, selectors : {NoSelector}], 2),
     producerOf : SeqOf([address : {a, untrimmedA, Blank}, app : {x}, pubSub : {FALSE},
                         subscriptions : {{}}], 2),
     consumerOf : SeqOf([address : {a, untrimmedA}, app : {x}, pubSub : {FALSE},
                         subscriptions : SUBSET {s}], 1),
     further : {FALSE}] : Len(c.addresses) + Len(c.producerOf) + Len(c.consumerOf) <= 3}

AnyMatch == [address : {a}, app : {NoApp, x}, pubSub : BOOLEAN, subscriptions : SUBSET {s}]

UnwrittenCRs ==
    [addresses : SeqOf([address : {a}, pubSub : {FALSE}, subscriptions : {{}},
                        selectors : MCSelectors \cup {NoSelector}], 1),
     producerOf : SeqOf(AnyMatch, 1), consumerOf : SeqOf(AnyMatch, 1), further : BOOLEAN]

MCLoadedCRs == WrittenCRs \cup SpelledCRs \cup UnwrittenCRs

NewSpec(n) == [address |-> n, pubSub |-> FALSE, subscriptions |-> {}, selectors |-> NoSelector]

ProducerOf(n) == [address |-> n, app |-> x, pubSub |-> FALSE, subscriptions |-> {}]

(* One text the rows can say, one that spells a in two ways, and one that     *)
(* declares it twice, which is refused.                                       *)
MCTypedCRs ==
    {[addresses |-> <<[address |-> a, pubSub |-> TRUE, subscriptions |-> {s},
                       selectors |-> c1]>>,
      producerOf |-> <<ProducerOf(b)>>,
      consumerOf |-> <<[address |-> b, app |-> x, pubSub |-> FALSE, subscriptions |-> {s}],
                       [address |-> a, app |-> NoApp, pubSub |-> FALSE, subscriptions |-> {s}]>>,
      further |-> FALSE],
     [addresses |-> <<NewSpec(untrimmedA)>>, producerOf |-> <<ProducerOf(a)>>,
      consumerOf |-> <<>>, further |-> FALSE],
     [addresses |-> <<NewSpec(untrimmedA), NewSpec(a)>>, producerOf |-> <<>>,
      consumerOf |-> <<>>, further |-> FALSE]}

=============================================================================

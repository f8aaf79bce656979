---------------------------- MODULE MCConsolePages ----------------------------
(* Both forms: two rows, more after a merge or a copy; an inherited key and    *)
(* two ordinary ones.  The form of a BrokerService: up to two variables, whose *)
(* name may be typed with a blank.  The section: a service whose apps come and *)
(* go in two namespaces, and an app that consumes from none, from one in its   *)
(* namespace or from one in another.  The star: two tabs on one page and one   *)
(* on another.                                                                 *)
EXTENDS ConsolePages, TLC

CONSTANTS
    j, k, constructor, v, q, n1, n2, x, y, a, queue, t1, t2, t3, f, g, untrimmedF,
    refusedText, n, untrimmedN, m1, m2

Label(key, value) == [key |-> key, value |-> value]

MCEnvNameTexts == {n, untrimmedN, NoEnvName}
MCTrimEnvName == [t \in MCEnvNameTexts |-> IF t = untrimmedN THEN n ELSE t]

Variable(name) == [name |-> name, value |-> v]

Document(l, m, more, e) == [labels |-> l, memory |-> m, further |-> more, env |-> e]

MCClusterServices ==
    {Document(<<>>, NoMemory, FALSE, <<>>),
     Document(<<Label(k, v)>>, OtherMemory, TRUE, <<Variable(n)>>),
     Document(<<Label(constructor, v), Label(k, v)>>, m1, FALSE, <<>>),
     Document(<<Label(k, v)>>, ZeroMemory, FALSE, <<>>)}

MCServiceTexts ==
    {Document(<<Label(k, NoValue)>>, m2, FALSE, <<>>),
     Document(<<Label(constructor, v)>>, OtherMemory, FALSE, <<>>),
     Document(<<>>, m1, TRUE, <<Variable(untrimmedN), Variable(n)>>)}

Cpu(quantity) == [cpu |-> quantity]

MCClusterApps ==
    {[selector |-> <<Label(k, v)>>, resources |-> [limits |-> Cpu(q)]],
     [selector |-> <<Label(constructor, v), Label(k, NoValue)>>,
      resources |-> [requests |-> [memory |-> q, storage |-> q], claims |-> q]]}

MCAppTexts ==
    {[selector |-> <<>>, resources |-> NoObject],
     [selector |-> <<Label(constructor, NoValue)>>, resources |-> [limits |-> Cpu(BadQuantity)]],
     [selector |-> <<Label(k, NoValue)>>, resources |-> [claims |-> q]]}

MCServiceLabels == {<<>>, <<Label(k, v)>>, <<Label(constructor, v), Label(k, v), Label(j, NoValue)>>}

Ref(namespace, name) == [namespace |-> namespace, name |-> name]

Service(refs) == [kind |-> "service", namespace |-> n1, provisionedApps |-> refs]

App(consumed) ==
    [kind |-> "app", ref |-> Ref(n1, x),
     consumerOf |-> {[app |-> ref, address |-> a, subscribes |-> FALSE] : ref \in consumed}
                    \cup {[app |-> Ref(n2, x), address |-> a, subscribes |-> TRUE]}]

MCObjects ==
    {Service({Ref(n1, x)}), Service({Ref(n2, x), Ref(n2, y)}), Service({Ref(n1, x), Ref(n2, y)}),
     App({}), App({Ref(n1, y)}), App({Ref(n2, y)})}

Series(namespace, label) == [namespace |-> namespace, label |-> label]

(* Queues of the app in n1 are named as the queue of the app it consumes from; *)
(* one of them is in two results, as after a restart of the broker pod.        *)
MCAnswers ==
    n1 :> {<<Series(n1, <<queue>>), Series(n1, <<n1, y, queue>>), Series(n1, <<n2, y, queue>>),
             Series(n1, <<queue>>)>>}
    @@ n2 :> {<<Series(n2, <<queue>>), Series(Undefined, <<queue>>), Series(n1, <<queue>>)>>}

MCPageOf == [t \in Tabs |-> IF t = t3 THEN "broker" ELSE "app"]
MCTrimName == [t \in NameTexts |-> IF t = untrimmedF THEN f ELSE t]
MCDefaultName == [t \in Tabs |-> f]

=============================================================================

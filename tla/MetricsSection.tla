--------------------------- MODULE MetricsSection ---------------------------
(***************************************************************************)
(* The Metrics section of the details page of a BrokerService or BrokerApp: *)
(* which queries its charts run in which namespaces, the access reviews of  *)
(* those namespaces, the chain of polls below each chart, and the lines     *)
(* that are made of their answers.                                          *)
(*                                                                         *)
(* The watch changes the object of the page while reviews and queries are   *)
(* on their way.  A name is a sequence of its pieces, so that what          *)
(* toChartSeries appends to a name can be told from, and can coincide with, *)
(* what the data brings.                                                    *)
(***************************************************************************)
EXTENDS Integers, FiniteSets, SequencesExt

CONSTANTS
    Objects,        \* the states of the resource that the watch may show
    SectionGroups,  \* the groups of charts
    AllGroups,      \* no filter
    Undefined,      \* a label, legend or app that is not given
    Pieces,         \* what names are made of, those of resources and those in the data
    Answers,        \* of each namespace: the responses that a query sent to it may get
    MaxLinks,       \* bound on the queries of a chart
    MaxChanges      \* bound on the changes of the namespaces that the watch shows

VARIABLES
    object,         \* what the watch shows
    group,          \* the filter of the toolbar
    links,          \* of each chart that is mounted: its chain of polls
    reviews,        \* the rounds of access reviews, each with its answers so far
    refused         \* the state of useNamespacesWithoutMetricsAccess

metricsVars == <<object, group, links, reviews, refused>>

-----------------------------------------------------------------------------
(* The charts of an object. *)
Query(namespace, key, legend) == [namespace |-> namespace, key |-> key, legend |-> legend]

(* Array.from(new Set(...)).sort(): each once.  Model values have no order; *)
(* the sequence of an object's namespaces is any fixed one.                 *)
SortedOnce(namespaces) == SetToSeq(namespaces)

BoundAppNamespaces(service) == SortedOnce({ref.namespace : ref \in service.provisionedApps})

ChartIds == {"pod", "queues"}

(* useServiceCharts: the charts of the broker pod, of which there are two,  *)
(* and those of the queues, of which there are two as well.                 *)
ServiceCharts(service) ==
    [pod |-> [group |-> "pod", queries |->
                 <<Query(service.namespace, <<service.namespace, "pod">>, Undefined)>>],
     queues |-> [group |-> "broker", queries |->
         LET namespaces == BoundAppNamespaces(service)
         IN  [i \in DOMAIN namespaces |->
                Query(namespaces[i], <<namespaces[i], "apps">>, Undefined)]]]

(* consumedAddresses: those of another app, named, and not by subscription. *)
ConsumedAddresses(app) ==
    {m \in app.consumerOf : m.app \notin {Undefined, app.ref} /\ ~m.subscribes}

(* appQueueReads: the app's own queues, then those of each app it consumes from. *)
AppQueueReads(app) == <<app.ref>> \o SetToSeq({m.app : m \in ConsumedAddresses(app)})

(* appQueueQueries and useAppCharts: two charts that are alike.  A query names *)
(* the app, and the addresses that are read if it is another one.              *)
AppCharts(app) ==
    LET reads == AppQueueReads(app)
        addresses(ref) == {m.address : m \in {m \in ConsumedAddresses(app) : m.app = ref}}
    IN  [queues |-> [group |-> "broker", queries |->
           [i \in DOMAIN reads |->
              Query(reads[i].namespace,
                    <<reads[i].namespace, reads[i].name, addresses(reads[i])>>,
                    IF i = 1 THEN <<>> ELSE <<reads[i].namespace, reads[i].name>>)]]]

Charts(o) == IF o.kind = "service" THEN ServiceCharts(o) ELSE AppCharts(o)

AppRef == [namespace : DOMAIN Answers, name : Pieces]

(* One result of a response: the labels that matter. *)
Result == [namespace : DOMAIN Answers \cup {Undefined}, label : Seq(Pieces)]

InNamespace(namespace) == [namespace |-> namespace]
Numbered(n) == [nth |-> n]

(* The appended "#n" is no piece of a name that the data brings. *)
ASSUME SectionAssumption ==
    /\ \A o \in Objects :
         \/ /\ o.kind = "service" /\ o.namespace \in DOMAIN Answers
            /\ IsFiniteSet(o.provisionedApps) /\ o.provisionedApps \subseteq AppRef
         \/ /\ o.kind = "app" /\ o.ref \in AppRef
            /\ IsFiniteSet(o.consumerOf)
            /\ \A m \in o.consumerOf : m.app \in AppRef \cup {Undefined}
    /\ \A n \in DOMAIN Answers : n \in Pieces /\ Answers[n] \subseteq Seq(Result)
    /\ Pieces \cap [nth : Nat] = {}
    /\ \A o \in Objects : \A c \in DOMAIN Charts(o) : Len(Charts(o)[c].queries) <= MaxLinks
    /\ MaxChanges \in Nat

(* chartNamespaces, of all charts, whichever are shown. *)
ChartNamespaces(o) ==
    {q.namespace : q \in UNION {ToSet(Charts(o)[c].queries) : c \in DOMAIN Charts(o)}}

(* chartsInGroup. *)
VisibleCharts(o, g) ==
    {c \in DOMAIN Charts(o) : g = AllGroups \/ Charts(o)[c].group = g}

-----------------------------------------------------------------------------
(* The chain of polls of a chart: a link per query, keyed by it below the     *)
(* links before it.  answeredTo is history: the key that was asked for.       *)
FreshLink(query) ==
    [query |-> query, results |-> <<>>, answeredTo |-> query.key, done |-> FALSE, asked |-> TRUE]

(* Variant: links are kept by their place alone. *)
VariantNoKeys(chain, queries) ==
    [i \in DOMAIN queries |->
        IF i <= Len(chain) THEN [chain[i] EXCEPT !.query = queries[i], !.asked = TRUE]
                           ELSE FreshLink(queries[i])]

(* A link goes on while all keys from the first to its own are the same. *)
Rendered(chain, queries) ==
    [i \in DOMAIN queries |->
        IF i <= Len(chain) /\ \A j \in 1..i : chain[j].query.key = queries[j].key
        THEN [chain[i] EXCEPT !.query = queries[i]]
        ELSE FreshLink(queries[i])]

(* The charts that are shown after a render; a chart that was not mounted    *)
(* begins with no link.                                                      *)
RenderedCharts(o, g) ==
    [c \in VisibleCharts(o, g) |->
        Rendered(IF c \in DOMAIN links THEN links[c] ELSE <<>>, Charts(o)[c].queries)]

Mounted(c, i) == c \in DOMAIN links /\ i \in DOMAIN links[c]

(* usePrometheusPoll answers: the response replaces the one before it. *)
QueryAnswers(c, i) ==
    /\ Mounted(c, i) /\ links[c][i].asked
    /\ \E results \in Answers[links[c][i].query.namespace] :
         links' = [links EXCEPT ![c][i] =
                     [@ EXCEPT !.results = results, !.answeredTo = links[c][i].query.key,
                               !.done = TRUE, !.asked = FALSE]]
    /\ UNCHANGED <<object, group, reviews, refused>>

(* It fails: the response there was stays. *)
QueryFails(c, i) ==
    /\ Mounted(c, i) /\ links[c][i].asked
    /\ links' = [links EXCEPT ![c][i] = [@ EXCEPT !.done = TRUE, !.asked = FALSE]]
    /\ UNCHANGED <<object, group, reviews, refused>>

(* External: the hook asks again, on the interval it was given or one of its *)
(* own if it was given none.                                                 *)
Poll(c, i) ==
    /\ Mounted(c, i) /\ ~links[c][i].asked
    /\ links' = [links EXCEPT ![c][i].asked = TRUE]
    /\ UNCHANGED <<object, group, reviews, refused>>

-----------------------------------------------------------------------------
(* toChartSeries over the chain of a chart: the results of a link that are  *)
(* not dropped, by their places.                                            *)
ProperResults(link) ==
    {p \in DOMAIN link.results : link.results[p].namespace \in {Undefined, link.query.namespace}}

(* seriesName: what the legend says, else what was measured, under its         *)
(* namespace if there are several.                                             *)
SeriesName(query, label, several) ==
    IF query.legend # Undefined THEN query.legend \o label
    ELSE IF several THEN <<query.namespace>> \o label
    ELSE label

NameAt(chain, i, p) ==
    SeriesName(chain[i].query, chain[i].results[p].label,
               \E j \in DOMAIN chain : chain[j].query.namespace # chain[i].query.namespace)

(* The results of the query that are summed into one series with that at p. *)
Merged(chain, i, p) == {r \in ProperResults(chain[i]) : NameAt(chain, i, r) = NameAt(chain, i, p)}

(* A series per query and name, at the place where the name appears first. *)
SeriesAt(chain, i, p) ==
    [query |-> i, at |-> p, name |-> NameAt(chain, i, p),
     namespace |-> chain[i].query.namespace, results |-> Merged(chain, i, p)]

MergedSeries(chain) ==
    UNION {{SeriesAt(chain, i, p) : p \in {p \in ProperResults(chain[i]) :
                                             \A r \in Merged(chain, i, p) : p <= r}}
             : i \in DOMAIN chain}

(* The order of the series is that of their appearance. *)
NotAfter(t, s) == t.query < s.query \/ (t.query = s.query /\ t.at <= s.at)

(* sharedNames. *)
Shared(names, s) == \E t \in DOMAIN names \ {s} : names[t] = names[s]

(* The name of each line: with its namespace if another has it too, numbered *)
(* if that is not enough.                                                    *)
ByNamespace(series) ==
    LET names == [s \in series |-> s.name]
    IN  [s \in series |-> IF Shared(names, s) THEN Append(s.name, InNamespace(s.namespace))
                                              ELSE s.name]

LineNames(series) ==
    LET names == ByNamespace(series)
        NthOf(s) == Cardinality({t \in series : names[t] = names[s] /\ NotAfter(t, s)})
    IN  [s \in series |-> IF Shared(names, s) THEN Append(names[s], Numbered(NthOf(s)))
                                              ELSE names[s]]

(* MetricsPlot: a spinner until every query answered or failed. *)
Drawn(chain) == \A i \in DOMAIN chain : chain[i].done

-----------------------------------------------------------------------------
(* useNamespacesWithoutMetricsAccess. *)
NewRound(namespaces) == [namespaces |-> namespaces, answers |-> [n \in namespaces |-> "pending"]]

RoundDone(r) == \A n \in r.namespaces : r.answers[n] \in {"allowed", "refused"}

RefusedIn(r) == {n \in r.namespaces : r.answers[n] = "refused"}

(* The effect: only the round begun last is current, and no round is begun *)
(* for no namespaces.                                                      *)
IsCurrent(i) == i = Len(reviews) /\ reviews[i].namespaces = ChartNamespaces(object)

(* Variant: an answer counts whenever it comes. *)
VariantAnyRound(i, r) == IF RoundDone(r) THEN [for |-> r.namespaces, namespaces |-> RefusedIn(r)]
                                         ELSE refused

(* Promise.all(...).then: the state is set by the current round's last answer. *)
RefusedAfter(i, r) ==
    IF RoundDone(r) /\ IsCurrent(i) THEN [for |-> r.namespaces, namespaces |-> RefusedIn(r)]
                                    ELSE refused

(* Variant: a review that fails rejects the whole round. *)
VariantFailureRejects(answer) == answer

(* A review that fails counts as allowed. *)
Outcome(answer) == IF answer = "failed" THEN "allowed" ELSE answer

ReviewEnds(i, n) ==
    /\ reviews[i].answers[n] = "pending"
    /\ \E answer \in {"allowed", "refused", "failed"} :
         LET r == [reviews[i] EXCEPT !.answers[n] = Outcome(answer)]
         IN  /\ reviews' = [reviews EXCEPT ![i] = r]
             /\ refused' = RefusedAfter(i, r)
    /\ UNCHANGED <<object, group, links>>

(* The namespaces of the warning. *)
Warned == IF refused.for = ChartNamespaces(object) THEN refused.namespaces ELSE {}

-----------------------------------------------------------------------------
MetricsInit ==
    /\ object \in Objects
    /\ group = AllGroups
    /\ links = [c \in VisibleCharts(object, AllGroups) |->
                   Rendered(<<>>, Charts(object)[c].queries)]
    /\ reviews = <<NewRound(ChartNamespaces(object))>>
    /\ refused = [for |-> {}, namespaces |-> {}]

(* The watch shows another state of the resource; at most MaxChanges of them *)
(* bring other namespaces.                                                   *)
WatchShows(o) ==
    /\ o # object
    /\ o.kind = object.kind
    /\ object' = o
    /\ links' = RenderedCharts(o, group)
    /\ IF ChartNamespaces(o) = ChartNamespaces(object)
       THEN UNCHANGED reviews
       ELSE /\ Len(reviews) <= MaxChanges
            /\ reviews' = Append(reviews, NewRound(ChartNamespaces(o)))
    /\ UNCHANGED <<group, refused>>

(* The filter lists the groups of the object's charts. *)
FilterByGroup(g) ==
    /\ g \in {AllGroups} \cup {Charts(object)[c].group : c \in DOMAIN Charts(object)}
    /\ group' = g
    /\ links' = RenderedCharts(object, g)
    /\ UNCHANGED <<object, reviews, refused>>

(* CHANGE_TIME_RANGE and CHANGE_REFRESH_INTERVAL: every link asks again. *)
ChangeTime ==
    /\ links' = [c \in DOMAIN links |->
                   [i \in DOMAIN links[c] |-> [links[c][i] EXCEPT !.asked = TRUE]]]
    /\ UNCHANGED <<object, group, reviews, refused>>

QueryEnds(c, i) == QueryAnswers(c, i) \/ QueryFails(c, i)

ReviewStep == \E i \in DOMAIN reviews : \E n \in reviews[i].namespaces : ReviewEnds(i, n)

MetricsNext ==
    \/ \E o \in Objects : WatchShows(o)
    \/ \E g \in SectionGroups \cup {AllGroups} : FilterByGroup(g)
    \/ ChangeTime
    \/ \E c \in ChartIds, i \in 1..MaxLinks : QueryEnds(c, i) \/ Poll(c, i)
    \/ ReviewStep

-----------------------------------------------------------------------------
(* The section shows the charts of its object under its filter, each with one  *)
(* link per query, and the hook has a round of reviews for its namespaces.     *)
MetricsTypeOK ==
    /\ object \in Objects
    /\ group \in SectionGroups \cup {AllGroups}
    /\ DOMAIN links = VisibleCharts(object, group)
    /\ \A c \in DOMAIN links :
         /\ [i \in DOMAIN links[c] |-> links[c][i].query] = Charts(object)[c].queries
         /\ \A i \in DOMAIN links[c] :
              links[c][i].results # <<>> => links[c][i].done
    /\ \A i \in DOMAIN reviews :
         reviews[i].answers \in [reviews[i].namespaces -> {"pending", "allowed", "refused"}]
    /\ Last(reviews).namespaces = ChartNamespaces(object)
    /\ refused.namespaces \subseteq refused.for

(* The warning is what the last round of reviews says, as soon as it has       *)
(* answered, however late the rounds before it answer; until then it says      *)
(* nothing, or what an earlier round said of the very same namespaces.         *)
WarnsOfTheLastRound ==
    IF RoundDone(Last(reviews))
    THEN Warned = RefusedIn(Last(reviews))
    ELSE Warned # {} => \E i \in DOMAIN reviews :
                           /\ reviews[i].namespaces = ChartNamespaces(object)
                           /\ RoundDone(reviews[i])
                           /\ Warned = RefusedIn(reviews[i])

(* "One series per query and name, each named apart from the others": no two   *)
(* lines of a chart that is drawn have one name, and the lines of a query show *)
(* each result that this very query was answered in its namespace, once, and   *)
(* nothing that another query was answered.                                    *)
LinesApart(chain) ==
    LET series == MergedSeries(chain)
    IN  /\ IsInjective(LineNames(series))
        /\ \A i \in DOMAIN chain :
             /\ \A p \in ProperResults(chain[i]) :
                  \E s \in series : \A t \in series : t.query = i /\ p \in t.results <=> t = s
             /\ \A s \in series : s.query = i => s.results \subseteq ProperResults(chain[i])
             /\ chain[i].results # <<>> => chain[i].answeredTo = chain[i].query.key

EveryChartToldApart == \A c \in DOMAIN links : Drawn(links[c]) => LinesApart(links[c])

(* Nothing is left to wait for: the warning is final and no chart spins. *)
Settled ==
    /\ RoundDone(Last(reviews))
    /\ \A c \in DOMAIN links : Drawn(links[c])

=============================================================================

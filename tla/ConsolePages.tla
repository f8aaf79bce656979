----------------------------- MODULE ConsolePages -----------------------------
(***************************************************************************)
(* What the plugin shows outside the editing session proper: the forms of a *)
(* BrokerService and of a BrokerApp, the Metrics section of a details page, *)
(* and the star of the details pages in several tabs.  The console mounts   *)
(* one page at a time and a page keeps nothing when it is left; the four    *)
(* share no state, so that each behavior is one of one of them.             *)
(***************************************************************************)
EXTENDS BrokerServiceForm, BrokerAppForm, MetricsSection, Favorites

CONSTANT NotMounted     \* the state of a page that is not shown

VARIABLE page           \* what is shown

vars == <<page, serviceVars, appVars, metricsVars, favoriteVars>>

Pages == {"service", "app", "metrics", "star"}

NoServiceForm ==
    /\ service = NotMounted /\ labels = NotMounted /\ memory = NotMounted
    /\ envVars = NotMounted /\ serviceHasChanges = NotMounted /\ foreignMemory = NotMounted

NoAppForm ==
    /\ matchLabels = NotMounted /\ app = NotMounted
    /\ appHasChanges = NotMounted /\ copying = NotMounted

NoMetrics ==
    /\ object = NotMounted /\ group = NotMounted /\ links = NotMounted
    /\ reviews = NotMounted /\ refused = NotMounted

NoStar ==
    /\ preference = NotMounted /\ favorites = NotMounted
    /\ preferenceSeen = NotMounted /\ naming = NotMounted

Init ==
    /\ page \in Pages
    /\ IF page = "service" THEN ServiceInit ELSE NoServiceForm
    /\ IF page = "app" THEN AppInit ELSE NoAppForm
    /\ IF page = "metrics" THEN MetricsInit ELSE NoMetrics
    /\ IF page = "star" THEN FavoritesInit ELSE NoStar

ServiceStep ==
    /\ page = "service"
    /\ ServiceNext
    /\ UNCHANGED <<page, appVars, metricsVars, favoriteVars>>

AppStep ==
    /\ page = "app"
    /\ AppNext
    /\ UNCHANGED <<page, serviceVars, metricsVars, favoriteVars>>

MetricsStep ==
    /\ page = "metrics"
    /\ MetricsNext
    /\ UNCHANGED <<page, serviceVars, appVars, favoriteVars>>

StarStep ==
    /\ page = "star"
    /\ FavoritesNext
    /\ UNCHANGED <<page, serviceVars, appVars, metricsVars>>

Next == ServiceStep \/ AppStep \/ MetricsStep \/ StarStep

(* Every request of the Metrics section ends: the browser resolves or rejects *)
(* it, and the hook that sent it renders again.                               *)
Fairness ==
    /\ WF_vars(page = "metrics" /\ ReviewStep
                 /\ UNCHANGED <<page, serviceVars, appVars, favoriteVars>>)
    /\ \A c \in ChartIds, i \in 1..MaxLinks :
         WF_vars(page = "metrics" /\ QueryEnds(c, i)
                   /\ UNCHANGED <<page, serviceVars, appVars, favoriteVars>>)

Spec == Init /\ [][Next]_vars /\ Fairness

-----------------------------------------------------------------------------
(* The state of the page that is shown has its types. *)
TypeOK ==
    /\ page \in Pages
    /\ page = "service" => ServiceTypeOK
    /\ page = "app" => AppTypeOK
    /\ page = "metrics" => MetricsTypeOK
    /\ page = "star" => FavoritesTypeOK

(* What Save sends of a BrokerService has each row with a key as a label, and  *)
(* no other label, inherited keys aside.                                       *)
SavedLabelsAreTheRows == page = "service" => LabelsAreTheRows

(* It names no environment variable twice, blanks around names aside, and      *)
(* leaves out no row with a name.                                              *)
SavedEnvIsUnambiguous == page = "service" => EnvIsUnambiguous

(* Back from the YAML view the form has the labels of the text, unless it had  *)
(* a key twice: then no row is lost and none comes in for a key it has.        *)
SwitchTakesLabels == [][page = "service" => TakesLabels]_vars

(* validation/k8s.ts:373 "values with other formats would be silently          *)
(* converted to defaults, so they are rejected here": while the memory that    *)
(* the form was given has another format, Save is disabled.                    *)
OtherFormatsRejected == page = "service" => RejectsOtherFormats

(* What Save sends of a BrokerApp is what the form shows: a selector that has  *)
(* each row with a key and nothing else, inherited keys aside, and no empty    *)
(* object that clearing fields left behind.  There is always a row to type in. *)
AppIsTheForm == page = "app" => SelectorIsTheRows

(* reducers/brokerapp/reducer.ts:62 "Keys that already exist in the form are   *)
(* skipped so existing choices are preserved": a copy loses no row with a key, *)
(* changes no label of the selector, and brings each label that was ticked.    *)
CopyKeepsChoices == [][page = "app" => CopyKeeps]_vars

(* The warning about namespaces without access is what the last round of       *)
(* reviews says, however late the rounds before it answer.                     *)
WarningOfTheLastRound == page = "metrics" => WarnsOfTheLastRound

(* The lines of a chart that is drawn have different names, and those of a     *)
(* query show all of what that query was answered and nothing else.            *)
LinesToldApart == page = "metrics" => EveryChartToldApart

(* Unless the watch or the user changes the charts again and again, there is   *)
(* always again a moment when the warning is final and no chart shows a        *)
(* spinner, whichever requests fail.                                           *)
SectionSettles ==
    \/ []<>(page = "metrics" => Settled)
    \/ []<><<page = "metrics" /\ <<object, group>>' # <<object, group>>>>_vars

(* Whatever the tabs write at once, no list of favorites has a name twice,     *)
(* though handleConfirmStar looks only at the list of its own last render.     *)
NamesStayUnique == page = "star" => NoNameTwice

=============================================================================

# Verification of the ArkMQ broker operator console plugin

This directory holds TLA+ models of the OpenShift console plugin in this repository, the TLC
runs that check them on small instances, and TLAPS proofs of what matters most.
`PROJECT.json` maps every definition that models code to its lines, names the runs, the
mutations of the code each property must detect, the hazards, the findings and the theorems.

Contents: 1 the system and its inventory, 2 modules and code, 3 properties and runs,
4 bounds, 5 fairness, 6 proofs, 7 findings, 8 abstractions and what is not modelled, 9 plan.

## 1. The system

The plugin adds pages to the OpenShift console for two custom resources of the ArkMQ
operator: `BrokerService` (a broker cluster) and `BrokerApp` (an application that asks for
addresses on a broker service). It runs in the browser, in one JavaScript thread: handlers
never interrupt each other. What makes it hard is everything that happens between handlers:

- promises of `k8sUpdate` and `k8sGet` that are answered late, with an error, or whose answer
  is lost although the API server did what was asked;
- a watch that delivers new versions of the resource at any time, or lags behind it;
- other writers of the same resource: the operator's status, `kubectl`, a second tab;
- access reviews and the watch's own state, which take a page away with calls in flight;
- a user who goes on editing meanwhile, in two views (form and YAML) of one document that are
  converted into each other, each view able to hold what the other cannot show.

### Inventory

| Component | State | Operations | Hard behaviour | What makes it correct |
|---|---|---|---|---|
| Editing session, `shared-components/ResourceFormEditor.tsx`, YAML change tracker | view, mounted YAML editor, `yamlContentRef`, `hasUnsavedYamlChanges`, dialogs, `isSubmitting`, alert; the reducer's CR and `hasChanges` | edit, type YAML, switch views, Save, Cancel, Reload, Reset to Default | a remounted YAML editor that has not emitted yet; flags set and reset on many paths | nothing unsaved is dropped without a dialog; the switch converts what is on screen |
| BrokerService edit page, `EditBrokerServicePage.tsx` | `isReloading`, reload error, the promises | open, `k8sUpdate`, `k8sGet`, navigation | the answer of a reload lands in a form that was edited meanwhile | no update overwrites a version it does not know; reloads never go back; controls come back |
| BrokerApp edit page, `EditBrokerAppPage.tsx` | the watched object, and whether the form shares its `spec.resources` | open, `k8sUpdate`, synchronous reload | in-place `delete` in an object the page still holds | as above; a reload shows the cluster |
| API server and watch (console SDK, external) | the stored object and its version, the delivered copy, one call | accept, refuse, lose an answer, deliver, other writers | any order of these | optimistic locking on `resourceVersion` is relied on |
| Address conversions of `reducers/brokerapp/reducer.ts` | rows, `spec.addresses`, `spec.capabilities` | `syncAddressesToCR`, `hydrateAddresses`, `UPDATE_ADDRESS` | rows and CR are two copies of one thing with different limits, one trimmed and one not | it is known which rows survive a look at the YAML and which CRs the form keeps |
| Address cards, `AddressManager.tsx` | `editingIndex`, `isNewEntry` | add, edit, remove, Done, Cancel | a new row exists before it is confirmed | Cancel restores the rows; nothing done here gives an address two rows |
| Address modal, `AddressEditModal.tsx`, `TypeaheadSelect.tsx` | typed and confirmed namespace and app, nine fields, the open list | typing, choosing, closing a list in three ways, Done | a typed value is confirmed on some ways out of a field only | an app is referenced in the namespace where it was named; its owner decides the routing |
| BrokerService form, `reducers/brokerservice/reducer.ts`, `BrokerServiceFormPage.tsx` | CR, label rows, memory, variable rows, `hasChanges` | one reducer action per input, `SET_MODEL` | rows that the CR cannot show (duplicates, no key, untrimmed names) | Save writes exactly the rows; switching keeps what the user must correct |
| BrokerApp form: match labels, quantities, `SelectorSection.tsx`, `ResourcesSection.tsx`, `CopyLabelsFromServiceModal.tsx` | CR, match label rows, the copy modal's service and ticks | add, type, select, remove; set or clear one of four quantities; copy ticked labels; `SET_MODEL` | a copy or a YAML text meets rows with duplicates and blanks; objects emptied by clearing | what Save sends is what the rows show; a copy preserves choices; no empty objects |
| Validation, `validation/k8s.ts`, `validation/yaml.ts` | none | predicates on CRs and texts | rules split over modal, conversion and YAML | what is saved is unambiguous |
| Create pages | as the session, from an empty CR | `k8sCreate` | a lost answer of a create that happened | one object per confirmed Save |
| Metrics: charts, access reviews, toolbar | per chart a chain of polls (one per query, each component inside the one before), the rounds of access reviews, filter, time range | answers and failures of polls, of reviews, filter, the watch | the watch changes namespaces and queries while both are on their way; React keeps or drops a poll by its key | the warning is that of the last round; lines belong to their query and are told apart; nothing spins for good |
| Details pages, bound apps, status | none beyond menus | watch | none of its own | presentation |
| Favorites, `ResourceDetailsFavoriteButton.tsx` | a user preference shared with the core console | star, name in a modal, unstar | a list is read at a render and written whole at a later click; several tabs | no name twice |
| Lists, paging | page, filter | watch | the page number outlives the list | a page with rows is shown |
| PKI setup, `scripts/chain-of-trust.js`, `scripts/setup-pki.js` | the cluster: issuers, certificates, secrets, the trust bundle | `setup`, `cleanup` and one command per kind of certificate, each a sequence of `kubectl` calls and waits | every call may fail, lose its answer or time out; cert-manager issues again what is deleted in the wrong order; two shells | one root signs all; what is cleaned stays away; what is reported is trusted; commands end |
| Build, translations, end-to-end tests | none | none | none | not part of the program |

### How the parts interact

An edit page watches its CR and, once access review and watch agree, mounts the editing
session with the reducer's state made from the watched object. Inputs dispatch reducer
actions; the reducer keeps rows beside the CR and writes them into it after each action. The
toggle dumps the CR as YAML, or parses, validates and dispatches the text as `SET_MODEL`.
Save hands the CR or the parsed text to `k8sUpdate` with the `resourceVersion` it came with:
that version is the only thing that protects other writers. Reload dispatches `SET_MODEL`
with a document of the cluster: of `k8sGet` for a BrokerService, of the watch for a
BrokerApp. The address cards live inside the BrokerApp form and mount the modal over the
page; the modal watches the BrokerApps to know who owns an address.

The details page of a resource mounts the Metrics section with the resource it watches: which
namespaces are queried follows from the apps bound to a service, or from the apps a BrokerApp
consumes from, so that one delivery of the watch changes charts and access reviews at once. The
star of the details pages writes a preference that other tabs and the console itself write too.
The PKI scripts share nothing with the plugin but the cluster that they prepare for it.

## 2. Modules and the code

```
EditedDocuments
  K8sResource, ResourceFormEditor          extend EditedDocuments
    EditPage                               extends both; Store == INSTANCE VersionedStore
      EditBrokerService, EditBrokerApp     extend EditPage (and their MC and Proofs modules)
Subsequences                             (lemmas in SubsequencesProofs)
  BrokerAppAddresses                       extends Subsequences
    AddressManager, AddressEditModal       extend BrokerAppAddresses (and their MC and Proofs
                                           modules)
  LabelRows, Favorites                     extend Subsequences
    BrokerServiceForm, BrokerAppForm       extend LabelRows
MetricsSection
ConsolePages                               extends BrokerServiceForm, BrokerAppForm,
                                           MetricsSection, Favorites (and its MC and Proofs
                                           modules)
PkiSetup                                   (and its MC and Proofs modules)
```

**EditedDocuments** gives the alphabet of the core: documents with a content, a
`resourceVersion` and, as history that no code reads, the version `base` their content was
derived from. A content is a class of texts that validation and conversion tell apart:
`FormContents` (what fields can produce), `CRContents` (what a CR can hold), `Convertible`
and `Saveable` (what `onSwitchToForm`, `isFormValid` and `onYamlSave` accept), and the
conversions `FromCluster`, `FromYaml`, `ToYaml` as functions. The theorems hold for every
choice of these sets and functions, within the assumptions listed in section 6.

**K8sResource** (external) is the object on the API server, the copy the watch delivered, and
the page's `k8sUpdate`: applied only if its `resourceVersion` is current, refused for any
reason, or applied with its answer lost.

**ResourceFormEditor** has one action per handler of the component. The YAML editor is
`pane`: absent, loading (mounted, nothing emitted yet), or ready with a baseline and a text,
as the change tracker sees it. `yamlContentRef` survives the editor, as the ref in the code
does. A disabled button, or one behind an open dialog, is a guard.

**EditPage** conjoins the session with `k8sUpdate` and states what both pages promise.
**EditBrokerService** adds the asynchronous Reload: spinner, error alert, the answer of
`k8sGet`, and calls abandoned when the page goes away. **EditBrokerApp** adds the synchronous
Reload, and the sharing of `spec.resources` between the held object and the form.
**VersionedStore** says what a page does to the resource with nothing of how an editor works.

**Subsequences** is what `filter` returns, and the loops that keep the first of several
entries: the elements of a list at a set of positions, in their order. Conversions are written
with it rather than with recursion, so that what they return can be stated of an element and
those before it, and proved (section 6).

**BrokerAppAddresses** is the two conversions between rows and the CR, the row rules, and what
validation asks of addresses. The entries of a CR are any entries of the types in `k8s/types.ts`:
an address is any text, trimmed or not, and an entry of a capability has both the routing of
producers and that of consumers, as `MatchAddress` has. `Sync` trims and drops, `Hydrate`
compares texts as they stand, `Validated` looks at trimmed addresses of `spec.addresses` alone.
**AddressManager** is the cards over the reducer. It does not contain the modal: it lets Done
send any row that `DoneMaySend` allows, and **AddressEditModal**, with every field, list and
confirmation of the modal, is checked to send nothing else (`SendsWhatTheFormExpects`). That
is how the two compose.

**LabelRows** is the key/value rows of the forms with `labelsToRecord`, which keeps the first
row of a key, and drops keys that `key in record` finds on `Object.prototype`, and with the
merge of `preserveLabels`. **BrokerServiceForm** is the BrokerService reducer: label rows,
memory, variables and the CR they are written to, `SET_MODEL` on Reload and on the switch
from YAML, and when Save is enabled.

**BrokerAppForm** is the other half of the BrokerApp reducer: the rows of the service selector
on `LabelRows`, the modal that copies labels of a service, the four quantities with
`cleanupResources`, `SET_MODEL` and Save's conditions. Row ids are positions. No action on
this half touches the addresses, except `SET_MODEL`, which replaces both halves.

**MetricsSection** has the charts as functions of the watched object (`useServiceCharts`,
`useAppCharts`), the chain of polls with the React keys that decide which links survive a
render (`Rendered`), the merging and naming of series of `toChartSeries` (`MergedSeries`,
`LineNames`), and `useNamespacesWithoutMetricsAccess` with every round of reviews kept, so that
any of them may answer at any time. A name is a sequence of pieces: what the code appends to a
name is told apart from what the data brings. A series is the set of results summed in it.

**Favorites** is the star and its modal in several tabs over one preference. **ConsolePages**
is the four side by side: the console mounts one page, `page`, and the variables of the
others are `NotMounted`. They share no state, so the composition adds no interaction; it is
one specification of what happens outside the editing session and the address cards.

**PkiSetup** has one sequence of steps per command of `chain-of-trust.js` (`SetupCompletePKI`,
`CleanupSteps`, `CreateCertificate`); a step is one `kubectl` call or one wait, with a success,
every way to fail, and for `applyYaml` the retry loop. A command stops at the first step that
fails, except that errors of the pattern deletions are ignored, as in the code. cert-manager
and trust-manager are external actions. A secret is the number of the root CA that signed it.

The `MC*` modules only give constants their values. Operators called `Variant...` are
plausible faults of the definition they stand before; each property is shown to be violated
when one of them replaces it, which is what the property can detect.

## 3. Properties and runs

**`edit_brokerservice`** (MCEditBrokerService, 757,473 states, about 95 s) and
**`edit_brokerapp`** (MCEditBrokerApp, 352,227 states, about 30 s). All interleavings of the
user, the answers, the watch and other writers.

- `NothingUnsavedWhenNotAsked`: when Cancel or Reload would skip its dialog, the form is what
  was loaded and a YAML editor shows the dump of it.
- `RefMatchesEditor` (service): a switch converts what is on screen, from the editor's first
  emission on.
- `NoLostUpdate`: an applied update replaces the very version its content came from, also when
  it repeats a save whose answer was lost, or passed through both views.
- `DocumentsTruthful` (app): a document's `resourceVersion` is that of the state its content
  was derived from, wherever it went. It is invariant of both pages and part of both proofs.
- `FlagsMatchCalls`, `LoadsMoveForward` (service): a call of a page that was closed is never
  taken for one of the next page; however late an answer is, it never loads an older version
  into an open form. The app's Reload reads the watch, which may lag: `LoadsMoveForward` is
  not claimed there.
- `ControlsComeBack`: Save and Reload are enabled again, whatever the answers.
- `ImplementsStore`: the page implements `VersionedStore`.

**`addresses`** (MCAddressManager, 93,436 states, about 30 s). Each of 24,671 CRs is opened
(section 4), texts are typed, and rows are added, edited, removed and cancelled.

- `OverlapsAreSpellings`: a CR that passes validation gives an address two rows *if and only if*
  it spells it in two ways, anywhere in its lists. Validation compares owned addresses with each
  other, hydration compares texts: neither says it alone.
- `RowsStayApart`: no step gives an address a second row, except a text of that kind. The modal,
  the removal of a card and both conversions add up to it.
- `SwitchingViewsKeepsRows`: who looks at the YAML and is let back finds his named rows, trimmed
  and none merged, *if and only if* no two of them had one address.
- `KeptExactlyIfRepresentable`: the form keeps addresses and capabilities of a CR that passes
  validation *if and only if* it has one capability, addresses and selectors without blanks
  around them, no address twice in a list, `pubSub` on producers and `subscriptions` on
  consumers only, entries of an address that agree, and subscriptions only where the producer
  side is pub/sub. The second half is as useful as the first: it says exactly which CRs lose
  something by being opened and saved, without an edit.
- `CancelDiscards`, `TypeOK` (the modal edits a row that exists; the CR is one the form writes).

**`address_modal`** (MCAddressEditModal, 738,508 states, about 20 s). Two namespaces, apps of
the same name in both, which declare one address with different routing.

- `AppNamedInItsNamespace`: no change of the namespace carries an app name over.
- `SendsWhatTheFormExpects`: the modal keeps to `DoneMaySend`.

**`console_pages`** (MCConsolePages, 515,919 states, about 90 s). The BrokerService form with
duplicate, empty and inherited keys, untrimmed names, memory without a number, with one that is
not positive, and of other formats; the selector and the quantities of the BrokerApp form; the
Metrics section; the star.

- `SavedLabelsAreTheRows`, `SavedEnvIsUnambiguous`: when Save of a BrokerService is enabled, the
  CR has every label and variable on screen and no other, none twice (inherited keys aside, see
  section 7).
- `SwitchTakesLabels`: coming back from YAML the form has the labels of the text; with a key
  twice in the rows, none of them is lost and only missing keys are added.
- `AppIsTheForm`: when Save is enabled, the selector has each row with a key and nothing else
  (inherited keys aside), there is always a row to type in, and clearing quantities leaves no
  empty object in a CR that had none.
- `CopyKeepsChoices`: the promise of `reducers/brokerapp/reducer.ts:62` for every state of the
  rows (duplicates, values without a key, blanks) and every choice of ticks.
- `WarningOfTheLastRound`: the access warning is what the round for the current namespaces
  said, however late the rounds of former namespaces answer.
- `LinesToldApart`: two lines of a chart that is drawn never have one name, however names meet
  within a namespace or across them; and each result of a query is in exactly one of its lines,
  which show what *that* query was answered in its namespace and nothing else, after any change
  of the queries above it in the chain.
- `SectionSettles` (liveness): unless charts change again and again, there is always again a
  moment without a spinner and with a final warning, whichever requests fail.
- `NamesStayUnique`: whatever several tabs do to the favorites with stale lists.

**`pki_setup`** (MCPkiSetup, 226,010 states, about 65 s). Setup, cleanup and a service
certificate in two shells, every call failing, timing out, being interrupted.

- `SignedByTheRoot`: a certificate that no cleanup left behind is signed by the current root.
- `CleanedStaysClean`: cert-manager issues nothing again behind a cleanup that ran alone.
- `ReportedIsTrusted`: "Certificate created" and "Setup Complete" are true of a certificate
  that no cleanup left behind or came upon too early.
- `EveryCommandEnds` (liveness): the retries of `applyYaml` end although every failure of the
  bundle counts as one of its webhook.
- `TypeOK`: attempts stay within `MAX_RETRIES`; a leaf was signed by a root that was made.

Six runs show a statement of the repository violated: `reload_race`, `reset_discards`,
`reload_shows_cluster`, `overlapping_addresses`, `owner_routing`, `other_memory` (section 7).

Deadlock is checked in every run. `pki_setup` and `console_pages` check `TypeOK` too; that of
the BrokerService form includes that CR and rows agree after each action.

## 4. Bounds

- Contents of the edit pages: two (service) or three (app) CRs the form can show, one or two
  it cannot or validation refuses, and forms with a duplicate row, whose CR shows less than
  the form. Every answer of validation and every pair of conversions occurs.
- `MaxVersion = 3`: an update of another writer *and* an own one must fit, for a stale base to
  be told from a current one twice; the violation runs need 2. The bound stops writers only;
  an update may be refused at it, so nothing waits.
- `MaxRows = 2` of the address cards: meeting rows need two. It bounds only `handleAdd`; a CR
  with more rows is loaded as it is.
- Two address names, an untrimmed spelling of one and the blank text; one subscription queue, two
  other apps, one selector and an untrimmed spelling of it: names only meet in comparisons of two.
- CRs of the address cards are of three families, since their product is too large.
  `WrittenCRs`: entries as the form writes them, up to one owned address and two entries in each
  list, of two addresses and two apps, which may disagree. `SpelledCRs`: three entries in all, up
  to two of them owned, with any spelling, the ones validation refuses included.
  `UnwrittenCRs`: routing in either list, untrimmed selectors, and a second capability.
  Three more are typed as texts: one the rows can say, one that spells an address in two ways,
  one that is refused. Edits make any row of one address, and rows of one app of the others.
- `console_pages`: `MaxLabelRows = 2` (a duplicate, or a row and a blank) bounds typing in both
  forms; a merge or copy exceeds it. `MaxQuantities = 2`: two in one part or one in each, so that
  clearing empties a part or all. `MaxLinks = 2` has one link above another, which is what the
  keys are about. `MaxChanges = 2`: a round of reviews, one for other namespaces, and a return to
  the first ones while both are open. Three tabs, two of them on one page, two names,
  `MaxFavoriteCount = 1`, so that the limit is met and exceeded.
- `pki_setup`: `MaxRetries = 2` has a first attempt, a retry and the last refusal. `MaxRoots = 2`:
  the root there is and the one before it. One namespace, one administrator and one shell that
  creates certificates; a second namespace (the operator moved between setup and cleanup) was
  checked with one shell, 1,115,157 states, and is too large for two.
- One writer's save at a time: `isSubmitting` disables Save, and a save abandoned with its page
  counts as a write of another writer from then on.

## 5. Fairness

Only what the browser and JavaScript guarantee: a request's promise resolves or rejects (the
connection succeeds or fails), and its continuation runs. Thus weak fairness on the API servers'
answers and on the continuations of Save and Reload, and on the list of BrokerApps reaching the
modal that waits for it. In the Metrics section each review and each query that is under way ends
(`ReviewStep`, `QueryEnds`); how often the SDK asks again is left open. In the PKI scripts each
step of a command ends (`CommandStep`): a `kubectl` process returns, and every wait of
`setup-pki.js` has a timeout, so it returns or throws. There is no fairness on the user, on other
writers, on watch deliveries to the pages, or on cert-manager and trust-manager.

## 6. Proofs

Every safety and action property of every passing run is a theorem for all values of the
constants, and so is the refinement; the runs show the same on small instances, and that each
property can fail. Liveness is model-checked.

### The edit pages

`EditPageProofs`, `EditBrokerServiceProofs` and `EditBrokerAppProofs` prove, for every set of
contents, every validation, every conversion and every bound on versions:

| Theorem | Service | App |
|---|---|---|
| the inductive invariant | `ServiceInvariant` | `AppInvariant` |
| types | `TypeCorrect` | `TypeCorrect` |
| `NothingUnsavedWhenNotAsked` | `NothingUnsavedUnasked` | `NothingUnsavedUnasked` |
| `RefMatchesEditor` | `RefFollowsEditor` | |
| `DocumentsTruthful` | (in `ServiceInvariant`) | `DocumentsStayTruthful` |
| `FlagsMatchCalls` | `FlagsAreOfCalls` | |
| `NoLostUpdate` | `UpdatesLoseNothing` | `UpdatesLoseNothing` |
| `LoadsMoveForward` | `ReloadsMoveForward` | |
| `ImplementsStore` | `Refinement` | `Refinement` |

*Assumptions.* `ContentsAssumption` (conversions map contents to contents, the YAML dump is
always a CR, what is convertible or saveable is a CR), `MaxVersionAssumption` (at least one
version), `NoYamlAssumption` (the empty text is no document), and for the app
`WithoutQuantityAssumption`. Nothing is assumed of how conversions relate to each other: that
a dump is parsed back to the same content is *not* needed.

*Argument.* `EditInv` is the part both pages share: types; `DocumentsTruthful`;
`FlagsFollowDocuments`; and that what is on the cluster or on its way is a CR.
`NothingUnsavedWhenNotAsked` alone is not inductive: it says nothing of the time while a flag
is set, and flags are reset on paths that do not look at the documents. `FlagsFollowDocuments`
adds that a ready YAML editor's baseline is the dump of the form, that an unset YAML flag means
the text is the baseline, and that dialogs and editors exist in one view only, so that a reload
agreed to in the form view cannot reset the flag of an edited text. `NoLostUpdate` follows from
`DocumentsTruthful` and from the API server's check of `resourceVersion`: a truthful document
with the current version is derived from the current state. The proof of it therefore shows
precisely what the page has to do for optimistic locking to work: carry content and version
together through the form, the YAML text, the ref and the request. For the service page
`CallsInv` adds that flags stand for calls of the mounted page and that the document of an
answered `k8sGet` is not older than what was loaded, without which `LoadsMoveForward` has no
inductive argument. The refinement maps each step to a step of `VersionedStore` or to a
stutter: Save to `Ask` (with `base`, not `resourceVersion`, as its origin), `ServerAccepts` to
`Replace`, which is where truthfulness is used.

### The address modal

`AddressEditModalProofs` proves `TypeCorrect` (`TypeOK`), `AppStaysInItsNamespace`
(`AppNamedInItsNamespace`) and `SendsOnlyWhatIsExpected` (`SendsWhatTheFormExpects`), for every
set of namespaces, apps, texts and declared addresses, from `ModalAssumption` and
`AddressAssumption`.

`TypeOK /\ AppNamedInItsNamespace` is inductive. The proof that Done sends only what
`DoneMaySend` accepts goes through what `isModalValid` asks of the fields and how the payload
is made of them, so it names the conditions of the button that the card list relies on.

### The address cards

`AddressManagerProofs` proves, for every set of names, texts, apps, selectors and queues, CRs of
any length, and any number of rows:

| Theorem | Property |
|---|---|
| `AddressManagerInvariant` | the inductive invariant |
| `AddressManagerTypes` | `TypeOK` |
| `OverlapsAreSpelled` | `OverlapsAreSpellings` |
| `NoAddressTwice` | `RowsStayApart` |
| `SwitchingViewsKeeps` | `SwitchingViewsKeepsRows` |
| `KeptExactly` | `KeptExactlyIfRepresentable` |
| `CancelDiscardsAlways` | `CancelDiscards` |

*Assumptions.* `AddressAssumption` (a trimmed text is a name or blank, trimming twice is trimming
once, for addresses and selectors, "no app" is no app) and `LoadedCRsAssumption`, which only gives
types: a CR has addresses that are texts, and entries of the types in `k8s/types.ts`. Validation is
not an assumption. `Load` has it as a guard, because the code refuses such a text, and
`OverlapsAreSpellings` and `KeptExactlyIfRepresentable` have it as a condition on what was loaded:
another client can write a CR that declares an address twice, it is opened all the same, and these
two say nothing of it. `RowsStayApart` and `SwitchingViewsKeepsRows` need no such condition on
the CR that was opened.

*Argument.* The invariant is that each row is one the form can hold, that the CR is `Sync` of the
rows, that the modal knows the rows from before it was opened (`ModalInv`), and that an unedited
form has the rows `Hydrate` made of the loaded CR (`LoadedInv`). That rows are distinct is no part
of it, because opening a CR may give an address two rows. It is kept for three reasons: what
`Hydrate` makes is distinct exactly when each address has one spelling (`RowsApart`), and the CR
the form writes has one (`ProperSpelledOnce`); the modal compares trimmed texts with the other
rows (`HandleDoneInv`); adding, removing and cancelling keep it (`StillDistinct`, `CancelApart`).

The two conversions are not related by recursion. `Subsequences` writes `filter` as the elements
at a set of positions; `RankGrows` and `RankIsABijection` show that counting positions numbers
them in order, and everything else about `SubSeqAt` follows from that: which elements it has
(`ElementsAt`), that it keeps an order and adds nothing twice (`NoneTwice`), its first and last,
what is left after a removal. `RoundTrip` is then a statement about sets of rows, since distinct
rows are known by their addresses: each row gives the entries that `RowComesBack` finds again.
`ComesBackIff` adds the converse: a CR that passes validation and has one spelling gives each
address one row, so that two rows of one address cannot both come back. `KeptIff` is proved in
both directions for CRs of entries that the form writes; entry by entry, `HydratedRow` says which
row an entry becomes and `CapabilityEntryKept` when the entry of the row is the same one again.
`KeptExactlyIff` extends it to any entries: what the form writes has the shape of its own entries
(`SyncType`), so that a CR with any other is neither kept nor representable.

### The pages of the console

`ConsolePagesProofs` proves, for labels, variables, quantities, documents, watched objects,
answers, tabs and lists of any number:

| Theorem | Property |
|---|---|
| `ConsolePagesInvariant` | the inductive invariant |
| `ConsoleTypes` | `TypeOK` |
| `LabelsSaved`, `VariablesSaved` | `SavedLabelsAreTheRows`, `SavedEnvIsUnambiguous` |
| `TextTaken` | `SwitchTakesLabels` |
| `AppSaved` | `AppIsTheForm` |
| `ChoicesKept` | `CopyKeepsChoices` |
| `WarningSaid` | `WarningOfTheLastRound` |
| `LinesKnown` | `LinesToldApart` |
| `NamesUnique` | `NamesStayUnique` |

*Assumptions.* `LabelAssumption` and `ServiceLabelAssumption` (labels of the cluster are a record:
no key twice, none empty), `ServiceFormAssumption` (the cluster's variables have trimmed names,
trimming is idempotent on names, the default memory is one the form offers), `AppFormAssumption`
(documents have no empty `limits` or `requests`), `FavoriteAssumption` (trimming twice is trimming
once), and `SectionAssumption`: a status names finitely many apps, results are lists, and no piece
of a name that the data brings is an appended number. The last is what section 7 describes the
failure of; nothing is assumed of appended namespaces, which names of the data may equal.

*Argument.* `ConsoleInv` has one part per page.

- *The BrokerService form* (`ServiceInv`): the CR is either what the reducer makes of the rows, or
  it is the cluster's and nothing was edited since (`CRAndRows`). `SavedLabelsAreTheRows` alone is
  not inductive, as it says nothing while Save is disabled. `RecordIsLabels` shows that the record
  of any rows is a record, `RecordOfDistinct` that of distinct rows it has all, and `MergedRows`
  what `preserveLabels` keeps and appends.
- *The BrokerApp form* (`AppInv`): there is a row, no part of the resources is empty, and the keys
  that are ticked in the copy modal are keys of the service that is chosen there. The last part is
  what makes a copy bring what was ticked (`CopyWrites`); the modal's reset when another service
  is chosen keeps it.
- *The charts* (`LinksInv`): each link holds nothing, or results answered to the query whose key
  it has; there is a link for each query of each visible chart, and none else. A render keeps a
  link only under the same key (`ChainRendered`), and results that were answered to another query
  go with it. For the names, series are ordered by query, then position. `NoNumberYet` says that
  no name has a number before the last step, so that two lines of one name had one name before it;
  their numbers count the series up to each of them (`NumberedIsNew`), which the order makes
  different.
- *The reviews* (`ReviewsInv`): the last round is for the namespaces of the object on screen, and
  once it is done it is the one that spoke (`SaidBy`); what an earlier round said carries the
  namespaces it was asked for, so that the page can tell that it is not its own.
- *The star* (`StarInv`): no name is twice in the list that is stored, or in one a tab still has
  from its last render, so that adding a name it does not find there keeps either apart.

### The PKI commands

`PkiSetupProofs` proves `TypeCorrect` (`TypeOK`), `OneRoot` (`SignedByTheRoot`),
`NothingComesBack` (`CleanedStaysClean`) and `ReportsAreTrue` (`ReportedIsTrusted`), for any
number of shells, administrators, namespaces, certificates, attempts and roots, from
`PkiAssumption`. TLC's instance has two shells and one administrator; the theorems say the same
of several cleanups and setups at once.

None of these properties is inductive: what makes them true is what a cleanup under way has
*already* deleted when it comes to the root. `PkiInv` reads that off the steps a cleanup has
left. A certificate that no step left deletes is gone (`Behind`), and so is its secret if no
step left deletes that, unless the certificate is missed; what comes to the cluster while a
cleanup runs is missed from then on. For this to be kept by each step the deletions must be in
an order (`Ordered`): a secret goes after its certificate, since cert-manager issues again what
is deleted while the certificate is there, and the root's secret goes last. `NewCleanup` shows
`CleanupSteps` to be in that order, `BehindNext` that each deletion keeps `Behind`, and
`HeadSecret` that when the root's secret is about to go, no leaf is left. Then a new root meets
no certificate of the old one. `ReportsAreTrue` needs in addition that a certificate is `Ready`
only with a secret, which the deletion of a secret keeps because its certificate is gone.

*Model-checked only.* `ControlsComeBack` on both edit pages, `SectionSettles` and
`EveryCommandEnds`: they are liveness properties, whose proof needs `ENABLED` of the fair actions,
which the provers do not handle. The six violations are counterexamples of TLC.

## 7. Findings

- **A reload that asked nothing discards later edits** (`reload_race`). `handleReload` looks at
  `hasChanges` before `k8sGet`, the fields stay enabled during the call, and its answer replaces
  the form. `ResourceFormEditor.tsx:70` promises the dialog for unsaved changes.
- **Reset to Default keeps the rejected text** (`reset_discards`). Until the remounted editor
  emits, `yamlContentRef` still has it, and a quick switch converts or rejects it again, though
  `ResourceFormEditor.tsx:144` says the edits are discarded.
- **Reload of a BrokerApp may not show the cluster** (`reload_shows_cluster`). Clearing a
  quantity deletes it in place from an object the form shares with the watched one, and Reload
  copies that one.
- **A text may give one address two rows** (`overlapping_addresses`). Validation compares owned
  addresses with each other only and hydration compares without trimming: a text that owns `" a"`
  and produces to `"a"` of another app is taken over as two rows of one address, against
  `k8s.ts:309-312`. The form then writes both trimmed, and the next look at the YAML finds one
  owned address: the reference to the other app is gone.
- **The owner does not always decide the routing** (`owner_routing`). An app that was typed becomes
  the confirmed one only through `onClose`. Done while its list is open goes before that: no owner
  is looked up, and the reference keeps the routing the row had for another app, which
  `AddressEditModal.tsx:417-418` says the operator would reject.
- **A memory limit of another format is silently replaced** (`other_memory`). A CR of the
  cluster is taken without the validation that `validation/k8s.ts:373-374` relies on; a reload, or
  any edit after opening it, writes 2Gi, and Save is enabled.

Smaller ones are listed as hazards: a label whose key is a property of `Object.prototype`
(such as `constructor`) is never written; Done accepts a blank address whose field was never
left; edits made while `k8sUpdate` runs are neither in it nor asked for.

Observed while modelling, and in the models where a behaviour is concerned:

- `cleanup` ignores errors of its pattern deletions (`chain-of-trust.js:137`) and looks for the
  operator's certificate in the namespace where the operator is at that moment. It then prints
  "Cleanup complete" although certificates may be left, while `README.md:268` of the repository
  says of it "removes all PKI resources". A later `setup` makes a new
  root and reports such a certificate as created with the former root's signature: these are
  the `missed` certificates that `SignedByTheRoot` and `ReportedIsTrusted` except.
- `isWebhookUnavailableError` matches every failed apply of the Bundle, because the error of
  `exec` repeats the command with the YAML, whose `apiVersion` names the webhook's domain. The
  retries are bounded, so the effect is a delay.
- `chain-of-trust.js setup --namespace` is documented (`README.md:277-278`,
  `chain-of-trust.js:23`) and ignored: the namespace is always detected.
- After a cleanup, `waitForSecret` may still find the bundle's target of the former root until
  trust-manager removes it, and lets a certificate command go on.
- `MetricsChart.tsx:108-109` names series apart by appending `#n`. Data that names a queue
  "X #1" beside two called X defeats it; `SectionAssumption` leaves such data out, and
  `LinesToldApart` is proved from it.
- Favorites: a tab adds to the list of its last render. Entries of other tabs are lost, a page
  can be in the list twice, and `MAX_FAVORITE_COUNT` can be exceeded by any number.
- A BrokerApp whose only label has an inherited key such as `constructor` can be saved, with an
  empty selector: `k8s.ts` counts the row, the record does not get it.
- With refresh off, `pollInterval` is left `undefined`, which leaves the interval to the SDK's
  hook; the model lets it ask again.

## 8. Abstractions, and what is not modelled

- Texts, labels of controls, error wording, layout and the "touched" state behind error texts.
- The console YAML editor's own Reload and Cancel: their effects are those of retyping the text
  and of leaving the page. A user who edits `resourceVersion` in the YAML defeats optimistic
  locking by intent; typed texts keep it.
- `useK8sWatchResource` returns the same object until it has a new version; this is what makes
  the sharing in EditBrokerApp matter.
- Parsing and printing of YAML, CEL and quantities: represented by the classes they produce.
- An app reference (namespace and name) and the two selectors of an owned address are one value
  in the conversions, which copy both parts together; the modal has namespace and name apart.
  Selectors of a CR are ones that `validateCelExpression` accepts; the modal has one it refuses.
- Options of a typeahead: any listed one may be chosen, whatever the filter shows.
- The order in which keys were ticked again in the copy modal, which only orders the new rows.
- Series over time (a series is the set of results that are summed in it), axis ticks, formats and
  the drawing of charts; a time range or interval is only that all queries are asked again.
- The texts of the YAML files and names of the PKI scripts; `prometheus-config.js`, which reads
  one secret and prints or applies one configuration.
- The request of the create pages (`k8sCreate`) and the access review before them. On it the form
  works as on the edit pages, with an empty CR, where `AppInit` also starts.
- The sections of the forms: inputs that dispatch one reducer action each, which the form modules
  have, beside the touched state of their error texts.
- Lists: filter, page and rows are functions of the watch and of PatternFly's pagination hook. The
  page number is not clamped when the list gets shorter, which is listed as a hazard.
- Details pages beyond the Metrics section and the star (presentation); build, translations and
  end-to-end tests.

## 9. Plan

The operations of the forms, the edit pages, the Metrics section, the star and the PKI commands are
all modelled, and their safety properties proved. What is left, most valuable first:

1. `CreatePage`: the session with `k8sCreate`, no Reload; abstract promise: at most one object per
   name, an error never hides an object that was created.
2. Lists: the page number against a list that gets shorter.

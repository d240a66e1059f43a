-------------------------------- MODULE Page --------------------------------
(***************************************************************************)
(* What View's model becomes in a browser: the elements of the first HTML  *)
(* page and of the patches that replace its live region (view.templ and    *)
(* the Go code generated from it), the scripts of the page and the policy  *)
(* they run under (csp.go), the expressions of the client-side filter      *)
(* (status.go), the gauges a scrape shows of the same response             *)
(* (metrics.go), and the tabs in which a visitor opens and closes the      *)
(* healthy section (page_scripts.templ, pageBootstrap).                    *)
(*                                                                         *)
(* An element is a record of what can differ between two renders; classes, *)
(* icons and wording are left out, and so are the trend and timeline       *)
(* cards, whose data Observation has.                                      *)
(***************************************************************************)
EXTENDS View

CONSTANTS
  Display,  \* the name a row shows: the check's own, or a shorter one
  Tab,      \* a visitor's tabs
  Setup     \* what New was given: View's configuration and the rest

Nonce == {"", "valid", "malformed"}

(* The options the page depends on, the visitor's tabs, and a bound on     *)
(* View's changes while they are open.                                     *)
Options ==
  [selfHosted : BOOLEAN,    \* DatastarSrc, else the CDN
   runtime    : BOOLEAN,    \* not WithNoDatastarRuntime
   css        : BOOLEAN,    \* CSSPath, else Tailwind's CDN
   persist    : BOOLEAN,    \* WithPersistCollapse
   threshold  : Nat,        \* WithHealthyGroupCollapse
   fixed      : Nonce,      \* WithNonce
   extracted  : Nonce,      \* what WithNonceExtractor finds in a request
   links      : SUBSET {"export", "trend", "metrics"},
   tabs       : SUBSET Tab,
   changes    : 0 .. MaxChanges]

(* A short form may be what another check is called (shortDisplayName).    *)
ASSUME PageAssumption ==
  /\ Display \in [Name -> {<<"name", n>> : n \in Name}]
  /\ \A s \in Setup : s.cfg \in Config /\ s.opts \in Options

VARIABLES
  opts,     \* Dashboard.cfg, the rest of it
  tab,      \* the healthy section in each tab
  stored,   \* localStorage: the collapse key
  pending,  \* tabs with a storage event to come
  choice    \* history: what the visitor last did to a section

browserVars == <<tab, stored, pending, choice>>
pageVars == <<opts, browserVars>>
allVars == <<vars, pageVars>>

SectionState == {"unloaded", "none", "open", "closed"}
Stored == {"unset", "open", "closed"}

PageTypeOK ==
  /\ TypeOK
  /\ opts \in Options
  /\ tab \in [Tab -> SectionState]
  /\ stored \in Stored /\ choice \in Stored
  /\ pending \subseteq Tab

PageInit ==
  /\ Init
  /\ \E s \in Setup : cfg = s.cfg /\ opts = s.opts
  /\ tab = [t \in Tab |-> "unloaded"]
  /\ stored = "unset" /\ choice = "unset"
  /\ pending = {}
-----------------------------------------------------------------------------
(* applyCollapsePolicy: the size of the healthy group decides, in severity *)
(* mode only.                                                              *)
Collapsed ==
  /\ cfg.grouping = "severity"
  /\ opts.threshold > 0
  /\ Cardinality(Rows(checks, 3)) >= opts.threshold

RequestNonce == IF opts.extracted # "" THEN opts.extracted ELSE opts.fixed

(* buildData: the model of the first page ...                              *)
PageModel ==
  [initial |-> TRUE, nonce |-> RequestNonce, public |-> cfg.public,
   collapsed |-> Collapsed, persist |-> opts.persist,
   filter |-> opts.selfHosted /\ opts.runtime, links |-> opts.links]

(* Mutant: the patch is rendered from the response as it is.               *)
PatchModelRaw ==
  [initial |-> FALSE, nonce |-> "", public |-> FALSE,
   collapsed |-> Collapsed, persist |-> opts.persist,
   filter |-> opts.selfHosted /\ opts.runtime, links |-> opts.links]

(* ... and renderPatch: of a patch, with no request to take a nonce from.  *)
PatchModel ==
  [initial |-> FALSE, nonce |-> "", public |-> cfg.public,
   collapsed |-> Collapsed, persist |-> opts.persist,
   filter |-> opts.selfHosted /\ opts.runtime, links |-> opts.links]

(* mapStatusToBadge                                                        *)
Badge(s) ==
  CASE s = "pass" -> "success" [] s = "warn" -> "warning"
    [] s = "fail" -> "error" [] OTHER -> "neutral"

(* groupCountTone                                                          *)
CountTone(s) == CASE s = "fail" -> "red" [] s = "warn" -> "amber" [] OTHER -> "gray"

(* displayName                                                             *)
RowText(m, n) == IF m.public THEN Label(checks, n) ELSE Display[n]

(* badgeForStatus: a green nobody has ever seen change is outlined.        *)
StatusBadge(n) ==
  [type |-> Badge(checks[n]), provisional |-> n \in page.unproven]

(* Mutant: the key is there only beside an error.                          *)
DetailsOnError(m, n) ==
  [error |-> checks[n] # "pass" /\ ~m.public,
   key |-> IF checks[n] = "pass" \/ m.public \/ Display[n] = <<"name", n>>
           THEN <<>> ELSE <<"name", n>>]

(* rowDetailsCell: the error, and the key where the name is a short form   *)
(* of it, as anonymizeViewModel has left them.                             *)
Details(m, n) ==
  [error |-> checks[n] # "pass" /\ ~m.public,
   key |-> IF m.public \/ Display[n] = <<"name", n>>
           THEN <<>> ELSE <<"name", n>>]

(* groupRows                                                               *)
Row(m, n) ==
  [name |-> RowText(m, n), status |-> StatusBadge(n), details |-> Details(m, n)]

(* Mutant: the link is there for failures only.                            *)
HasFailures == \E k \in DOMAIN page.cards : page.cards[k] = "fail"

HasProblems == \E k \in DOMAIN page.cards : page.cards[k] # "pass"

(* The group that gets the id group-problems: the first that is not green. *)
IsFirstProblem(k) ==
  /\ page.cards[k] # "pass"
  /\ \A j \in DOMAIN page.cards : page.cards[j] # "pass" => k <= j

(* storageKey: one key, so one section at most may use it.                 *)
KeepsState(m) == m.persist /\ cfg.grouping # "source"

(* A green group is a section that can be closed, any other a card.        *)
Card(m, k) ==
  LET green == page.cards[k] = "pass"
      rows == Rows(checks, k)
  IN  [title |-> IF m.public /\ cfg.grouping = "source"
                 THEN <<"group", Index(k, DOMAIN page.cards) + 1>>
                 ELSE <<"title", k>>,
       form |-> IF green THEN "section" ELSE "card",
       count |-> <<Cardinality(rows), CountTone(page.cards[k])>>,
       allPass |-> green /\ \A n \in rows : checks[n] = "pass",
       closed |-> green /\ m.collapsed,
       kept |-> green /\ KeepsState(m),
       anchor |-> IsFirstProblem(k)]

(* The age after "Updated": coarse in public, else one that a script keeps *)
(* up to date, which only the page may bring.                              *)
Stamp(m) == IF m.public THEN "coarse" ELSE IF m.initial THEN "script" ELSE "bare"

(* A count of nothing proves nothing.                                      *)
Strip == IF page.total > 0 THEN <<page.proven, page.total>> ELSE <<>>

Links(m) ==
  UNION {IF l = "export" THEN {"csv", "json"} ELSE {l} : l \in m.links}

(* The box, with the chips beside it and the hint below the cards where    *)
(* there is something to filter.                                           *)
Filter(m) ==
  IF ~m.filter THEN {}
  ELSE {"box"} \cup IF DOMAIN page.cards = {} THEN {} ELSE {"chips", "hint"}

(* dashboardContent: the live region.                                      *)
Region(m) ==
  [alert |-> <<page.issues, page.total>>,
   stamp |-> Stamp(m),
   strip |-> Strip,
   links |-> Links(m),
   jump |-> HasProblems,
   filter |-> Filter(m),
   cards |-> [k \in DOMAIN page.cards |-> Card(m, k)],
   rows |-> [n \in DOMAIN page.names |-> Row(m, n)]]
-----------------------------------------------------------------------------
(* The filter: query is what has been typed, <<>> or the text of one row,  *)
(* and chip the value of the signal statusFilter.                          *)
Chip == {"", "all", "problems", "pass"}
Query == {<<>>} \cup {<<"name", n>> : n \in Name} \cup {<<"check", 1>>}

(* filterHaystack: the name a row shows and its key.                       *)
Haystack(m, n) == {RowText(m, n)} \cup IF m.public THEN {} ELSE {<<"name", n>>}

(* isStatusFilterExpr                                                      *)
Pressed(chip) ==
  {c \in {"problems", "pass"} : c = chip}
    \cup (IF chip \in {"problems", "pass"} THEN {} ELSE {"all"})

(* rowFilterExpr                                                           *)
RowHidden(m, query, chip, n) ==
  \/ query # <<>> /\ query \notin Haystack(m, n)
  \/ chip = "problems" /\ checks[n] \notin {"warn", "fail"}
  \/ chip = "pass" /\ checks[n] # "pass"

(* Mutant: there is a pass to show when there is a green group.            *)
HintByCards(m, query, chip) ==
  \/ query # <<>> /\ \A n \in DOMAIN page.names : query \notin Haystack(m, n)
  \/ chip = "problems" /\ \A n \in DOMAIN page.names : checks[n] \notin {"warn", "fail"}
  \/ chip = "pass" /\ \A k \in DOMAIN page.cards : page.cards[k] # "pass"

(* filterEmptyExpr                                                         *)
HintShown(m, query, chip) ==
  \/ query # <<>> /\ \A n \in DOMAIN page.names : query \notin Haystack(m, n)
  \/ chip = "problems" /\ \A n \in DOMAIN page.names : checks[n] \notin {"warn", "fail"}
  \/ chip = "pass" /\ \A n \in DOMAIN page.names : checks[n] # "pass"
-----------------------------------------------------------------------------
(* The scripts of the page, where they come from and their nonce.          *)
Script == [src : {"inline", "self", "cdn"}, nonce : Nonce]

(* layout.Base, datastar.LiveRegion and display.RelativeTime bring inline  *)
(* scripts with the nonce they are given.                                  *)
LibraryScripts == {[src |-> "inline", nonce |-> RequestNonce]}

(* dashboardHead: the SDK, and without a stylesheet Tailwind and its       *)
(* configuration.                                                          *)
HeadScripts ==
  {[src |-> IF opts.selfHosted THEN "self" ELSE "cdn", nonce |-> RequestNonce]}
    \cup (IF opts.css THEN {}
          ELSE {[src |-> s, nonce |-> RequestNonce] : s \in {"cdn", "inline"}})

(* Mutant: the nonce of the configuration, not of the request.             *)
BootstrapFixed == {[src |-> "inline", nonce |-> opts.fixed]}

(* pageBootstrap                                                           *)
Bootstrap == {[src |-> "inline", nonce |-> RequestNonce]}

(* cspPolicy, script-src: 'self', and the nonce if it is one.              *)
Allowed(script, nonce) ==
  script.src = "self" \/ (nonce = "valid" /\ script.nonce = nonce)

(* Mutant: the gauge follows Rank, for which off and unknown are as good   *)
(* as pass.                                                                *)
GaugesByRank(c) ==
  [n \in DOMAIN c |->
     [label |-> IF cfg.public THEN <<"check", Index(n, DOMAIN c) + 1>>
                ELSE <<"name", n>>,
      value |-> IF Rank(c[n]) = 2 THEN 1 ELSE 0]]

(* renderMetrics: one gauge for each check, 1 only for a pass, labelled by *)
(* its place among all the names.                                          *)
Gauges(c) ==
  [n \in DOMAIN c |->
     [label |-> IF cfg.public THEN <<"check", Index(n, DOMAIN c) + 1>>
                ELSE <<"name", n>>,
      value |-> IF c[n] = "pass" THEN 1 ELSE 0]]
-----------------------------------------------------------------------------
(* The healthy section as the server renders it.                           *)
Served ==
  IF 3 \in DOMAIN page.cards /\ KeepsState(PageModel)
  THEN IF Collapsed THEN "closed" ELSE "open"
  ELSE "none"

(* applyStoredCollapse                                                     *)
Applied(section) ==
  IF section # "none" /\ stored # "unset" THEN stored ELSE section

(* Mutant: only the event that precedes the merge triggers it.             *)
MergedUnobserved(section) == section

(* A patch syncs the open attribute with the server's default, and the     *)
(* observer of that mutation applies what is stored.                       *)
Merged(section) == Applied(section)

(* The page is answered to tab t, whose bootstrap script then runs.        *)
Load(t) ==
  /\ Serve
  /\ tab' = [tab EXCEPT ![t] = Applied(Served)]
  /\ pending' = pending \ {t}
  /\ UNCHANGED <<opts, stored, choice>>

(* A patch reaches some of the tabs; the others' buffers are full.         *)
Patch ==
  /\ Serve
  /\ \E S \in SUBSET {t \in opts.tabs : tab[t] # "unloaded"} :
       tab' = [t \in Tab |-> IF t \in S THEN Merged(Served) ELSE tab[t]]
  /\ UNCHANGED <<opts, stored, pending, choice>>

Flip(section) == IF section = "open" THEN "closed" ELSE "open"

(* The visitor clicks the section's summary: the click listener stores     *)
(* what the section is about to be, and a changed value is told to the     *)
(* other tabs.  Browser and render share nothing, so a click need not fall *)
(* between the steps of a render.                                          *)
Click(t) ==
  /\ step = "idle"
  /\ tab[t] \in {"open", "closed"}
  /\ tab' = [tab EXCEPT ![t] = Flip(tab[t])]
  /\ stored' = Flip(tab[t])
  /\ choice' = Flip(tab[t])
  /\ pending' = IF stored' = stored THEN pending
                ELSE pending \cup {u \in opts.tabs \ {t} : tab[u] # "unloaded"}
  /\ UNCHANGED <<vars, opts>>

(* The storage event another tab's click has caused.                       *)
StorageEvent(t) ==
  /\ step = "idle"
  /\ t \in pending
  /\ tab' = [tab EXCEPT ![t] = Applied(tab[t])]
  /\ pending' = pending \ {t}
  /\ UNCHANGED <<vars, opts, stored, choice>>

PageNext ==
  \/ changes < opts.changes /\ (Evaluate \/ Judge) /\ UNCHANGED pageVars
  \/ (Witness \/ ReadResponse \/ Render \/ Prove) /\ UNCHANGED pageVars
  \/ \E t \in opts.tabs : Load(t) \/ Click(t) \/ StorageEvent(t)
  \/ Patch

PageSpec == PageInit /\ [][PageNext]_allVars
-----------------------------------------------------------------------------
(***************************************************************************)
(* A patch of the same response shows what the page shows, names, errors   *)
(* and sections alike, although another function fills in its model; only  *)
(* the age differs, and a patch brings no script (pusher.go, renderPatch:  *)
(* "Public mode must hold on the patch path too").                         *)
(***************************************************************************)
PatchAgreesWithPage ==
  step = "done" =>
    LET first == Region(PageModel)
        patch == Region(PatchModel)
    IN  /\ [first EXCEPT !.stamp = ""] = [patch EXCEPT !.stamp = ""]
        /\ patch.stamp # "script"
        /\ (first.stamp = "coarse") = (patch.stamp = "coarse")

(***************************************************************************)
(* A reader can tell any two rows apart, although short names coincide:    *)
(* the name, or the key below it, differs; in public mode the label does,  *)
(* unless a group has more rows than the labels set aside for one          *)
(* (status.go, shortDisplayName, hasShortDisplay and anonymizeViewModel).  *)
(***************************************************************************)
RowsToldApart ==
  step = "done" /\ (cfg.public => LabelsFit(checks)) =>
    LET r == Region(PatchModel).rows
    IN  \A m, n \in DOMAIN r :
          m # n => <<r[m].name, r[m].details.key>> # <<r[n].name, r[n].details.key>>

(***************************************************************************)
(* Every check is a row of a card, one whose status nobody knows too; none *)
(* with a problem is tucked away in a section that can be closed, whatever *)
(* grouping, verdicts and threshold do; and the link to the problems is    *)
(* there exactly when it leads to one card (status.go, groupChecks,        *)
(* groupChecksBy, hasProblems; view.templ, dashboardContent).              *)
(***************************************************************************)
ProblemsInSight ==
  step = "done" =>
    LET r == Region(PatchModel)
    IN  /\ DOMAIN r.rows = DOMAIN checks
        /\ \A n \in DOMAIN r.rows :
             /\ CardOf(checks, n) \in DOMAIN r.cards
             /\ r.rows[n].status.type \in {"warning", "error"} =>
                  r.cards[CardOf(checks, n)].form = "card"
        /\ r.jump = \E k \in DOMAIN r.cards :
                      /\ r.cards[k].anchor /\ r.cards[k].form = "card"
                      /\ \A j \in DOMAIN r.cards \ {k} : ~r.cards[j].anchor

(***************************************************************************)
(* The banner, the cards and a scrape tell the same story of a response.   *)
(* The banner counts issues exactly when a card is not green, except where *)
(* a source's verdict has made a card worse than its rows, or severity     *)
(* grouping has put a status nobody knows among the healthy; and the       *)
(* checks whose gauge is 0 are its issues and what is off (status.go,      *)
(* alertSummary and hasProblems; metrics.go, renderMetrics).               *)
(***************************************************************************)
AccountsAgree ==
  step = "done" =>
    LET problems == {k \in DOMAIN page.cards : page.cards[k] # "pass"}
        escalated == {k \in problems :
                        WorstGroupStatus(checks, Rows(checks, k)) = "pass"}
        gauges == Gauges(checks)
    IN  /\ page.issues = 0 => problems = escalated
        /\ page.issues # 0 => \/ problems # {}
                              \/ \E n \in DOMAIN checks : checks[n] = "unknown"
        /\ Cardinality({n \in DOMAIN gauges : gauges[n].value = 0}) =
             page.issues + Cardinality({n \in DOMAIN checks : checks[n] = "off"})

(***************************************************************************)
(* "No services match" is shown only over a table with every row hidden,   *)
(* and always when the query alone or a chip alone hides every row; and    *)
(* one chip is pressed, whatever the signal holds (status.go,              *)
(* filterEmptyExpr, rowFilterExpr and isStatusFilterExpr).                 *)
(***************************************************************************)
FilterHintTruthful ==
  step = "done" /\ "hint" \in Region(PageModel).filter =>
    \A query \in Query, chip \in Chip :
      LET hidden == \A n \in DOMAIN page.names : RowHidden(PageModel, query, chip, n)
          shown == HintShown(PageModel, query, chip)
      IN  /\ shown => hidden
          /\ hidden /\ (query = <<>> \/ Pressed(chip) = {"all"}) => shown
          /\ Cardinality(Pressed(chip)) = 1

(***************************************************************************)
(* Under RecommendedCSP with the nonce of the request every script of the  *)
(* page may run, whichever library or option brought it; without a valid   *)
(* nonce only what the server hosts itself may (csp.go, view.templ,        *)
(* page_scripts.templ).                                                    *)
(***************************************************************************)
PageScriptsAllowed ==
  LET scripts == LibraryScripts \cup HeadScripts \cup Bootstrap
  IN  /\ scripts \subseteq Script
      /\ RequestNonce = "valid" =>
           \A s \in scripts : Allowed(s, RequestNonce)
      /\ RequestNonce # "valid" =>
           \A s \in scripts : Allowed(s, RequestNonce) => s.src = "self"

(***************************************************************************)
(* Once the visitor has opened or closed the healthy section, every tab    *)
(* shows it so, through reloads, patches that carry the server's default,  *)
(* patches that are dropped, and sections that come and go, unless the     *)
(* event that tells the tab is still to come (page_scripts.templ).         *)
(***************************************************************************)
TabsFollowChoice ==
  \A t \in Tab \ pending :
    tab[t] \in {"open", "closed"} /\ choice # "unset" => tab[t] = choice
=============================================================================

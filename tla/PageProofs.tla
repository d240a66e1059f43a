----------------------------- MODULE PageProofs -----------------------------
(***************************************************************************)
(* What page and patch show, for any checks, sources, verdicts, names,     *)
(* options and number of tabs.                                             *)
(***************************************************************************)
EXTENDS Page, FiniteSetTheorems, WellFoundedInduction, TLAPS

(***************************************************************************)
(* What a tab shows is the visitor's choice as long as that is what is     *)
(* stored, and as long as every tab that shows anything is told of a       *)
(* change.                                                                 *)
(***************************************************************************)
TabTypes ==
  /\ opts \in Options
  /\ tab \in [Tab -> SectionState]
  /\ stored \in Stored /\ choice \in Stored
  /\ pending \subseteq Tab

TabInv ==
  /\ TabTypes
  /\ stored = choice
  /\ \A t \in Tab : tab[t] # "unloaded" => t \in opts.tabs
  /\ TabsFollowChoice

LEMMA InitTabInv == PageInit => TabInv
BY PageAssumption
   DEF PageInit, TabInv, TabTypes, TabsFollowChoice, SectionState, Stored

LEMMA AppliedSection ==
  ASSUME TabTypes, NEW s \in {"none", "open", "closed"}
  PROVE  /\ Applied(s) \in {"none", "open", "closed"}
         /\ Applied(s) # "none" /\ stored # "unset" => Applied(s) = stored
BY DEF TabTypes, Applied, Stored

LEMMA NextTabInv == TabInv /\ [PageNext]_allVars => TabInv'
<1> SUFFICES ASSUME TabInv, [PageNext]_allVars PROVE TabInv' OBVIOUS
<1>1. /\ Served \in {"none", "open", "closed"}
      /\ \A t \in Tab : tab[t] # "unloaded" => tab[t] \in {"none", "open", "closed"}
  BY DEF TabInv, TabTypes, SectionState, Served
<1>2. opts.tabs \subseteq Tab BY DEF TabInv, TabTypes, Options
<1>3. CASE UNCHANGED pageVars
  BY <1>3 DEF TabInv, TabTypes, TabsFollowChoice, pageVars, browserVars
<1>4. ASSUME NEW t \in opts.tabs, Load(t) PROVE TabInv'
  BY <1>1, <1>2, <1>4, AppliedSection
     DEF Load, TabInv, TabTypes, TabsFollowChoice, SectionState
<1>5. ASSUME NEW t \in opts.tabs, Click(t) PROVE TabInv'
  <2>1. Flip(tab[t]) \in {"open", "closed"} BY DEF Flip
  <2>2. TabTypes'
    BY <1>2, <1>5, <2>1 DEF Click, TabInv, TabTypes, SectionState, Stored
  <2>3. /\ stored' = choice'
        /\ \A u \in Tab : tab'[u] # "unloaded" => u \in opts'.tabs
    BY <1>2, <1>5 DEF Click, TabInv, TabTypes
  <2>4. TabsFollowChoice'
    BY <1>2, <1>5, <2>1 DEF Click, TabInv, TabTypes, TabsFollowChoice
  <2>5. QED BY <2>2, <2>3, <2>4 DEF TabInv
<1>6. ASSUME NEW t \in opts.tabs, StorageEvent(t) PROVE TabInv'
  BY <1>1, <1>2, <1>6
     DEF StorageEvent, Applied, TabInv, TabTypes, TabsFollowChoice, SectionState, Stored
<1>7. CASE Patch
  <2>1. PICK S \in SUBSET {t \in opts.tabs : tab[t] # "unloaded"} :
          tab' = [t \in Tab |-> IF t \in S THEN Applied(Served) ELSE tab[t]]
    BY <1>7 DEF Patch, Merged
  <2>2. QED
    BY <1>1, <1>2, <1>7, <2>1, AppliedSection
       DEF Patch, TabInv, TabTypes, TabsFollowChoice, SectionState
<1>8. QED
  BY <1>3, <1>4, <1>5, <1>6, <1>7 DEF PageNext, allVars

(***************************************************************************)
(* However many tabs there are, each shows the healthy section the way the *)
(* visitor last left it in any of them, or is about to be told             *)
(* (page_scripts.templ, pageBootstrap).                                    *)
(***************************************************************************)
THEOREM TabsKeepTheChoice == PageSpec => []TabsFollowChoice
<1>1. TabInv => TabsFollowChoice BY DEF TabInv
<1>2. QED BY <1>1, InitTabInv, NextTabInv, PTL DEF PageSpec
-----------------------------------------------------------------------------
(***************************************************************************)
(* Between Render and Serve the page is the one of the response that was   *)
(* read, and of verdicts and evidence as old as the steps that read them;  *)
(* before, it is empty.                                                    *)
(***************************************************************************)
ViewTypes ==
  /\ cfg \in Config
  /\ cached \in Response
  /\ verdicts \in Verdict
  /\ evidence \subseteq Name
  /\ changes \in 0 .. MaxChanges
  /\ step \in {"idle", "read", "rendered", "done"}
  /\ checks \in Response
  /\ DOMAIN page = {"cards", "names", "issues", "verdicts", "total", "proven",
                    "unproven", "known"}

PageIsEmpty == step \in {"idle", "read"} => page = EmptyPage

PageIsRendered ==
  step \in {"rendered", "done"} =>
    /\ page.verdicts \in Verdict
    /\ page.cards = [k \in Cards(checks) |-> CardStatus(checks, page.verdicts, k)]
    /\ page.names = [n \in UNION {Rows(checks, k) : k \in Cards(checks)} |->
                       RowName(checks, n)]
    /\ page.issues = Cardinality(Issues(checks))

PageIsUncounted == step = "rendered" => page.total = 0 /\ page.proven = 0

PageIsProven ==
  step = "done" =>
    /\ page.known \subseteq Name
    /\ page.total = Cardinality(Universe(checks))
    /\ page.proven = Cardinality(Universe(checks) \cap page.known)
    /\ page.unproven = {n \in DOMAIN page.names :
         checks[n] = "pass" /\ \A m \in page.known : page.names[n] # <<"name", m>>}

ViewInv ==
  ViewTypes /\ PageIsEmpty /\ PageIsRendered /\ PageIsUncounted /\ PageIsProven

LEMMA InitViewInv == PageInit => ViewInv
BY PageAssumption, ViewAssumption
   DEF PageInit, Init, ViewInv, ViewTypes, PageIsEmpty, PageIsRendered,
       PageIsUncounted, PageIsProven, EmptyPage

LEMMA RenderKeepsView ==
  ASSUME ViewInv, Render PROVE ViewInv'
<1> USE DEF Render, ViewInv, probeVars
<1>1. /\ cfg' = cfg /\ checks' = checks /\ evidence' = evidence /\ step' = "rendered"
      /\ verdicts \in Verdict /\ page = EmptyPage
      /\ page'.verdicts = verdicts
      /\ page'.cards = [k \in Cards(checks) |-> CardStatus(checks, verdicts, k)]
      /\ page'.names = [n \in UNION {Rows(checks, k) : k \in Cards(checks)} |->
                          RowName(checks, n)]
      /\ page'.issues = Cardinality(Issues(checks))
      /\ page'.total = page.total /\ page'.proven = page.proven
  BY DEF ViewTypes, PageIsEmpty
<1>2. ViewTypes' BY DEF ViewTypes
<1>3. PageIsRendered'
  BY <1>1 DEF PageIsRendered, Cards, CardStatus, Rows, CardOf, RowName, Label
<1>4. (PageIsEmpty /\ PageIsUncounted /\ PageIsProven)'
  BY <1>1 DEF PageIsEmpty, PageIsUncounted, PageIsProven, EmptyPage
<1>5. QED BY <1>2, <1>3, <1>4

LEMMA ProveKeepsView ==
  ASSUME ViewInv, Prove PROVE ViewInv'
<1> USE DEF Prove, ViewInv, probeVars
<1>1. /\ cfg' = cfg /\ checks' = checks /\ evidence' = evidence /\ step' = "done"
      /\ page'.cards = page.cards /\ page'.names = page.names
      /\ page'.issues = page.issues /\ page'.verdicts = page.verdicts
      /\ page'.known = evidence
      /\ page'.total = Cardinality(Universe(checks))
      /\ page'.proven = Cardinality(Universe(checks) \cap evidence)
      /\ page'.unproven = {n \in DOMAIN page.names :
           checks[n] = "pass" /\ \A m \in evidence : page.names[n] # <<"name", m>>}
  BY DEF ViewTypes, Proven
<1>2. ViewTypes' BY DEF ViewTypes
<1>3. PageIsRendered'
  BY <1>1 DEF PageIsRendered, Cards, CardStatus, Rows, CardOf, RowName, Label
<1>4. PageIsProven' BY <1>1 DEF PageIsProven, ViewTypes
<1>5. (PageIsEmpty /\ PageIsUncounted)'
  BY <1>1 DEF PageIsEmpty, PageIsUncounted
<1>6. QED BY <1>2, <1>3, <1>4, <1>5

LEMMA NextViewInv == ViewInv /\ [PageNext]_allVars => ViewInv'
<1> SUFFICES ASSUME ViewInv, [PageNext]_allVars PROVE ViewInv' OBVIOUS
<1> DEFINE Fixed == UNCHANGED <<cfg, renderVars>>
<1>1. ASSUME Fixed, cached' \in Response, verdicts' \in Verdict,
             evidence' \subseteq Name, changes' \in 0 .. MaxChanges
      PROVE ViewInv'
  <2>1. ViewTypes' BY <1>1 DEF ViewInv, ViewTypes, renderVars
  <2>2. (PageIsEmpty /\ PageIsUncounted /\ PageIsProven)'
    BY <1>1 DEF ViewInv, PageIsEmpty, PageIsUncounted, PageIsProven, renderVars
  <2>3. PageIsRendered'
    BY <1>1 DEF ViewInv, PageIsRendered, renderVars, Cards, CardStatus, Rows,
       CardOf, RowName, Label
  <2>4. QED BY <2>1, <2>2, <2>3 DEF ViewInv
<1>2. CASE UNCHANGED vars
  BY <1>1, <1>2 DEF vars, probeVars, ViewInv, ViewTypes
<1>3. CASE Evaluate \/ Judge
  BY <1>1, <1>3, ViewAssumption DEF Evaluate, Judge, ViewInv, ViewTypes
<1>4. CASE Witness
  BY <1>1, <1>4, ViewAssumption DEF Witness, Issues, probeVars, ViewInv, ViewTypes
<1>5. CASE ReadResponse
  BY <1>5 DEF ReadResponse, probeVars, ViewInv, ViewTypes, PageIsEmpty,
     PageIsRendered, PageIsUncounted, PageIsProven
<1>6. CASE Serve
  BY <1>6 DEF Serve, probeVars, ViewInv, ViewTypes, PageIsEmpty, EmptyPage,
     PageIsRendered, PageIsUncounted, PageIsProven
<1>7. QED
  BY <1>2, <1>3, <1>4, <1>5, <1>6, RenderKeepsView, ProveKeepsView
     DEF PageNext, Load, Click, StorageEvent, Patch, allVars
-----------------------------------------------------------------------------
(* What the statuses rank, and what card a check is a row of.              *)
LEMMA Ranks ==
  /\ Rank("fail") = 0 /\ Rank("warn") = 1
  /\ Rank("pass") = 2 /\ Rank("off") = 2 /\ Rank("unknown") = 2
BY DEF Rank

LEMMA Checked ==
  ASSUME ViewInv
  PROVE  /\ IsFiniteSet(DOMAIN checks) /\ DOMAIN checks \subseteq Name
         /\ \A n \in DOMAIN checks : checks[n] \in Status
         /\ \A n \in DOMAIN checks : CardOf(checks, n) \in Cards(checks)
         /\ Cards(checks) \subseteq Nat
<1> USE ViewAssumption DEF ViewInv, ViewTypes
<1>1. /\ DOMAIN checks \subseteq Name
      /\ \A n \in DOMAIN checks : checks[n] \in Status
  OBVIOUS
<1>2. IsFiniteSet(DOMAIN checks) BY <1>1, FS_Subset
<1>3. \A n \in DOMAIN checks : Severity(checks, n) \in 1 .. 3 BY DEF Severity
<1>4. \A n \in DOMAIN checks : CardOf(checks, n) \in Cards(checks)
  BY <1>1, <1>3 DEF CardOf, Cards, Rows
<1>5. QED BY <1>1, <1>2, <1>4 DEF Cards

LEMMA Made ==
  ASSUME ViewInv, step = "done"
  PROVE  /\ page.cards = [k \in Cards(checks) |-> CardStatus(checks, page.verdicts, k)]
         /\ DOMAIN page.names = DOMAIN checks
         /\ \A n \in DOMAIN checks : page.names[n] = RowName(checks, n)
<1>1. PageIsRendered BY DEF ViewInv
<1>2. UNION {Rows(checks, k) : k \in Cards(checks)} = DOMAIN checks
  BY Checked DEF Rows
<1>3. QED BY <1>1, <1>2 DEF PageIsRendered

(***************************************************************************)
(* Configuration, options, the render under way, its counts and the tabs   *)
(* keep their types (handlers.go, buildData; pusher.go, renderPatch).      *)
(***************************************************************************)
THEOREM PageTypeCorrect == PageSpec => []PageTypeOK
<1>1. ASSUME ViewInv, TabInv PROVE PageTypeOK
  <2> USE <1>1 DEF ViewInv
  <2>1. ASSUME NEW v \in Verdict, NEW k \in Cards(checks)
        PROVE  CardStatus(checks, v, k) \in Status
    <3>1. WorstGroupStatus(checks, Rows(checks, k)) \in Status
      BY DEF WorstGroupStatus, Status
    <3>2. k \in DOMAIN v => v[k] \in Status BY ViewAssumption
    <3>3. CASE cfg.grouping = "source" BY <3>1, <3>2, <3>3 DEF CardStatus, Escalate
    <3>4. CASE cfg.grouping # "source" BY <3>4 DEF CardStatus, Status
    <3>5. QED BY <3>3, <3>4
  <2>2. page.cards \in [DOMAIN page.cards -> Status]
    <3>1. CASE step \in {"idle", "read"}
      <4>1. page.cards = [k \in {} |-> "pass"] BY <3>1 DEF PageIsEmpty, EmptyPage
      <4>2. QED BY <4>1
    <3>2. CASE step \in {"rendered", "done"} BY <2>1, <3>2 DEF PageIsRendered
    <3>3. QED BY <3>1, <3>2 DEF ViewTypes
  <2>3. page.proven \in 0 .. page.total
    <3>1. CASE step \in {"idle", "read"} BY <3>1 DEF PageIsEmpty, EmptyPage
    <3>2. CASE step = "rendered" BY <3>2 DEF PageIsUncounted
    <3>3. CASE step = "done"
      <4>1. IsFiniteSet(Universe(checks)) BY Checked, FS_Subset DEF Universe
      <4>2. /\ Cardinality(Universe(checks)) \in Nat
            /\ Cardinality(Universe(checks) \cap page.known) \in Nat
            /\ Cardinality(Universe(checks) \cap page.known)
                 <= Cardinality(Universe(checks))
        BY <4>1, FS_Intersection, FS_CardinalityType
      <4>3. QED BY <3>3, <4>2 DEF PageIsProven
    <3>4. QED BY <3>1, <3>2, <3>3 DEF ViewTypes
  <2>4. QED BY <2>2, <2>3 DEF PageTypeOK, TypeOK, ViewTypes, TabInv, TabTypes
<1>2. QED BY <1>1, InitViewInv, NextViewInv, InitTabInv, NextTabInv, PTL DEF PageSpec

(***************************************************************************)
(* A card of a source is as bad as the worst of its rows and the source's  *)
(* verdict, and no worse (status.go, worstGroupStatus and                  *)
(* applySourceStatuses).                                                   *)
(***************************************************************************)
THEOREM CardsShowTheWorst == PageSpec => []CardIsWorstSignal
<1>1. ASSUME ViewInv PROVE CardIsWorstSignal
  <2> SUFFICES ASSUME cfg.grouping = "source", step \in {"rendered", "done"},
                      NEW k \in DOMAIN page.cards
               PROVE  LET rows == {IF checks[n] = "unknown" THEN "warn" ELSE checks[n] :
                                     n \in Rows(checks, k)}
                          signals == rows \cup
                            (IF k \in DOMAIN page.verdicts THEN {page.verdicts[k]} ELSE {})
                      IN  /\ \A s \in signals : Rank(page.cards[k]) <= Rank(s)
                          /\ \E s \in signals : Rank(page.cards[k]) = Rank(s)
    BY DEF CardIsWorstSignal
  <2> DEFINE rows == {IF checks[n] = "unknown" THEN "warn" ELSE checks[n] :
                        n \in Rows(checks, k)}
             worst == WorstGroupStatus(checks, Rows(checks, k))
  <2>1. /\ k \in Cards(checks)
        /\ page.cards[k] = Escalate(worst, page.verdicts, k)
        /\ page.verdicts \in Verdict
    BY <1>1 DEF ViewInv, PageIsRendered, CardStatus
  <2>2. /\ Rows(checks, k) # {}
        /\ \A n \in Rows(checks, k) : checks[n] \in Status
    BY <1>1, <2>1, Checked DEF Cards, Rows
  <2>3. /\ \A s \in rows : Rank(worst) <= Rank(s)
        /\ \E s \in rows : Rank(worst) = Rank(s)
        /\ worst \in Status
    BY <2>2, Ranks DEF WorstGroupStatus, Status
  <2>4. k \in DOMAIN page.verdicts => page.verdicts[k] \in Status
    BY <2>1, ViewAssumption
  <2>5. \A s \in Status : Rank(s) \in Nat BY Ranks DEF Status
  <2>6. \A s \in rows : s \in Status BY <2>2 DEF Status
  <2>7. QED BY <2>1, <2>3, <2>4, <2>5, <2>6 DEF Escalate
<1>2. QED BY <1>1, InitViewInv, NextViewInv, PTL DEF PageSpec

(* Records that differ in one field only do not once it is overwritten.    *)
LEMMA ButOneField ==
  ASSUME NEW r, NEW s, NEW f, NEW v, DOMAIN r = DOMAIN s,
         \A x \in DOMAIN r \ {f} : r[x] = s[x],
         r = [x \in DOMAIN r |-> r[x]], s = [x \in DOMAIN s |-> s[x]]
  PROVE  [r EXCEPT ![f] = v] = [s EXCEPT ![f] = v]
OBVIOUS

(***************************************************************************)
(* A patch shows what the page shows of the same response (handlers.go,    *)
(* buildData; pusher.go, renderPatch).                                     *)
(***************************************************************************)
THEOREM PatchesShowThePage == PageSpec => []PatchAgreesWithPage
<1>1. PatchAgreesWithPage
  <2> DEFINE first == Region(PageModel)
             patch == Region(PatchModel)
  <2>1. /\ PageModel.public = PatchModel.public
        /\ PageModel.collapsed = PatchModel.collapsed
        /\ PageModel.persist = PatchModel.persist
        /\ PageModel.filter = PatchModel.filter
        /\ PageModel.links = PatchModel.links
    BY DEF PageModel, PatchModel
  <2>2. \A k : Card(PageModel, k) = Card(PatchModel, k) BY <2>1 DEF Card, KeepsState
  <2>3. \A n : Row(PageModel, n) = Row(PatchModel, n)
    BY <2>1 DEF Row, RowText, Details
  <2>4. Links(PageModel) = Links(PatchModel) /\ Filter(PageModel) = Filter(PatchModel)
    BY <2>1 DEF Links, Filter
  <2>5. /\ first.alert = patch.alert /\ first.strip = patch.strip
        /\ first.links = patch.links /\ first.jump = patch.jump
        /\ first.filter = patch.filter /\ first.cards = patch.cards
        /\ first.rows = patch.rows
    BY <2>2, <2>3, <2>4 DEF Region
  <2>6. /\ DOMAIN first = {"alert", "stamp", "strip", "links", "jump", "filter",
                            "cards", "rows"}
        /\ DOMAIN patch = DOMAIN first
        /\ first = [x \in DOMAIN first |-> first[x]]
        /\ patch = [x \in DOMAIN patch |-> patch[x]]
    BY DEF Region
  <2>7. [first EXCEPT !.stamp = ""] = [patch EXCEPT !.stamp = ""]
    <3>1. \A x \in DOMAIN first \ {"stamp"} : first[x] = patch[x] BY <2>5, <2>6
    <3> HIDE DEF first, patch
    <3>2. QED BY <2>6, <3>1, ButOneField
  <2>8. patch.stamp # "script" /\ (first.stamp = "coarse") = (patch.stamp = "coarse")
    BY DEF Region, Stamp, PageModel, PatchModel
  <2>9. QED BY <2>7, <2>8 DEF PatchAgreesWithPage
<1>2. QED BY <1>1, PTL

(***************************************************************************)
(* "No services match" tells the truth of any filter over any page         *)
(* (status.go, filterEmptyExpr and rowFilterExpr).                         *)
(***************************************************************************)
THEOREM HintIsTruthful == PageSpec => []FilterHintTruthful
<1>1. ASSUME ViewInv PROVE FilterHintTruthful
  <2> SUFFICES ASSUME step = "done", "hint" \in Region(PageModel).filter,
                      NEW query \in Query, NEW chip \in Chip
               PROVE  LET hidden == \A n \in DOMAIN page.names :
                                      RowHidden(PageModel, query, chip, n)
                          shown == HintShown(PageModel, query, chip)
                      IN  /\ shown => hidden
                          /\ hidden /\ (query = <<>> \/ Pressed(chip) = {"all"}) => shown
                          /\ Cardinality(Pressed(chip)) = 1
    BY DEF FilterHintTruthful
  <2>1. DOMAIN page.names # {}
    <3>1. DOMAIN page.cards # {} BY DEF Region, Filter
    <3>2. QED BY <1>1, <3>1, Made DEF Cards, Rows
  <2>2. Pressed(chip) = {IF chip \in {"problems", "pass"} THEN chip ELSE "all"}
    BY DEF Pressed
  <2>3. Cardinality(Pressed(chip)) = 1 BY <2>2, FS_Singleton
  <2>4. QED BY <2>1, <2>2, <2>3 DEF RowHidden, HintShown, Chip
<1>2. QED BY <1>1, InitViewInv, NextViewInv, PTL DEF PageSpec

(***************************************************************************)
(* Under the nonce of the request every script of the page runs, without   *)
(* one only the server's own (csp.go, cspPolicy).                          *)
(***************************************************************************)
THEOREM ScriptsMayRun == PageSpec => []PageScriptsAllowed
<1>1. ASSUME TabInv PROVE PageScriptsAllowed
  <2>1. RequestNonce \in Nonce BY <1>1 DEF TabInv, TabTypes, Options, RequestNonce
  <2>2. QED
    BY <2>1 DEF PageScriptsAllowed, LibraryScripts, HeadScripts, Bootstrap, Script,
       Allowed
<1>2. QED BY <1>1, InitTabInv, NextTabInv, PTL DEF PageSpec
-----------------------------------------------------------------------------
LEMMA LeastOf ==
  ASSUME NEW S \in SUBSET Nat, S # {}
  PROVE  \E k \in S : \A j \in S : k <= j
<1>1. PICK k \in S : \A j \in S : <<j, k>> \notin OpToRel(<, Nat)
  BY NatLessThanWellFounded, WFMin
<1>2. \A j \in S : ~(j < k) BY <1>1 DEF OpToRel
<1>3. QED BY <1>2

(* The card of a row with a problem is not green.                          *)
LEMMA ProblemCard ==
  ASSUME ViewInv, step = "done", NEW n \in DOMAIN checks, checks[n] \in {"warn", "fail"}
  PROVE  /\ CardOf(checks, n) \in DOMAIN page.cards
         /\ page.cards[CardOf(checks, n)] # "pass"
<1> DEFINE k == CardOf(checks, n)
           worst == WorstGroupStatus(checks, Rows(checks, k))
<1>1. k \in Cards(checks) /\ page.cards[k] = CardStatus(checks, page.verdicts, k)
  BY Checked, Made
<1>2. n \in Rows(checks, k) BY DEF Rows
<1>3. CASE cfg.grouping = "source"
  <2>1. worst \in {"fail", "warn"} BY <1>2 DEF WorstGroupStatus
  <2>2. Rank(worst) \in {0, 1} BY <2>1, Ranks
  <2>3. page.cards[k] = Escalate(worst, page.verdicts, k) BY <1>1, <1>3 DEF CardStatus
  <2>4. page.cards[k] # "pass" BY <2>1, <2>2, <2>3, Ranks DEF Escalate
  <2>5. QED BY <1>1, <2>4, Made
<1>4. CASE cfg.grouping # "source"
  <2>1. k = IF checks[n] = "fail" THEN 1 ELSE 2 BY <1>4 DEF CardOf, Severity
  <2>2. page.cards[k] # "pass" BY <1>1, <1>4, <2>1 DEF CardStatus
  <2>3. QED BY <1>1, <2>2, Made
<1>5. QED BY <1>3, <1>4

(***************************************************************************)
(* No check is missing, none with a problem is in a section that can be    *)
(* closed, and the link to the problems leads to one card (status.go,      *)
(* groupChecks, groupChecksBy, hasProblems).                               *)
(***************************************************************************)
THEOREM ProblemsAreShown == PageSpec => []ProblemsInSight
<1>1. ASSUME ViewInv PROVE ProblemsInSight
  <2> SUFFICES ASSUME step = "done"
               PROVE  LET r == Region(PatchModel)
                      IN  /\ DOMAIN r.rows = DOMAIN checks
                          /\ \A n \in DOMAIN r.rows :
                               /\ CardOf(checks, n) \in DOMAIN r.cards
                               /\ r.rows[n].status.type \in {"warning", "error"} =>
                                    r.cards[CardOf(checks, n)].form = "card"
                          /\ r.jump = \E k \in DOMAIN r.cards :
                               /\ r.cards[k].anchor /\ r.cards[k].form = "card"
                               /\ \A j \in DOMAIN r.cards \ {k} : ~r.cards[j].anchor
    BY DEF ProblemsInSight
  <2> DEFINE r == Region(PatchModel)
  <2>1. /\ DOMAIN r.rows = DOMAIN page.names /\ DOMAIN r.cards = DOMAIN page.cards
        /\ \A n \in DOMAIN page.names : r.rows[n].status.type = Badge(checks[n])
        /\ \A k \in DOMAIN page.cards :
             /\ r.cards[k].form = IF page.cards[k] = "pass" THEN "section" ELSE "card"
             /\ r.cards[k].anchor = IsFirstProblem(k)
        /\ r.jump = HasProblems
    BY DEF Region, Row, StatusBadge, Card
  <2>2. DOMAIN page.names = DOMAIN checks /\ DOMAIN page.cards = Cards(checks)
    BY <1>1, Made
  <2>3. \A n \in DOMAIN checks :
          Badge(checks[n]) \in {"warning", "error"} => checks[n] \in {"warn", "fail"}
    BY DEF Badge
  <2>4. ASSUME NEW n \in DOMAIN checks
        PROVE  /\ CardOf(checks, n) \in DOMAIN r.cards
               /\ r.rows[n].status.type \in {"warning", "error"} =>
                    r.cards[CardOf(checks, n)].form = "card"
    BY <1>1, <2>1, <2>2, <2>3, Checked, ProblemCard
  <2>5. HasProblems = \E k \in DOMAIN page.cards :
          /\ IsFirstProblem(k) /\ page.cards[k] # "pass"
          /\ \A j \in DOMAIN page.cards \ {k} : ~IsFirstProblem(j)
    <3> DEFINE problems == {k \in DOMAIN page.cards : page.cards[k] # "pass"}
    <3>1. DOMAIN page.cards \subseteq Nat BY <1>1, <2>2, Checked
    <3>2. ASSUME HasProblems
          PROVE  \E k \in DOMAIN page.cards :
                   /\ IsFirstProblem(k) /\ page.cards[k] # "pass"
                   /\ \A j \in DOMAIN page.cards \ {k} : ~IsFirstProblem(j)
      <4>1. problems # {} /\ problems \subseteq Nat BY <3>1, <3>2 DEF HasProblems
      <4>2. PICK k \in problems : \A j \in problems : k <= j BY <4>1, LeastOf
      <4>3. IsFirstProblem(k) BY <4>2 DEF IsFirstProblem
      <4>4. \A j \in DOMAIN page.cards \ {k} : ~IsFirstProblem(j)
        BY <3>1, <4>2 DEF IsFirstProblem
      <4>5. QED BY <4>2, <4>3, <4>4
    <3>3. QED BY <3>2 DEF HasProblems
  <2>6. QED BY <2>1, <2>2, <2>4, <2>5
<1>2. QED BY <1>1, InitViewInv, NextViewInv, PTL DEF PageSpec

(* Two parts of a set of checks count as one.                              *)
LEMMA CountParts ==
  ASSUME ViewInv, NEW A \in SUBSET DOMAIN checks, NEW B \in SUBSET DOMAIN checks,
         A \cap B = {}
  PROVE  /\ Cardinality(A) \in Nat /\ Cardinality(B) \in Nat
         /\ Cardinality(A \cup B) = Cardinality(A) + Cardinality(B)
<1>1. IsFiniteSet(A) /\ IsFiniteSet(B) BY Checked, FS_Subset
<1>2. Cardinality(A) \in Nat /\ Cardinality(B) \in Nat BY <1>1, FS_CardinalityType
<1>3. Cardinality(A \cup B) = Cardinality(A) + Cardinality(B) - Cardinality(A \cap B)
  BY <1>1, FS_Union
<1>4. Cardinality(A \cap B) = 0 BY FS_EmptySet
<1>5. QED BY <1>2, <1>3, <1>4

(***************************************************************************)
(* Banner, cards and gauges give one account of a response (status.go,     *)
(* alertSummary; metrics.go, renderMetrics).                               *)
(***************************************************************************)
THEOREM OneAccount == PageSpec => []AccountsAgree
<1>1. ASSUME ViewInv PROVE AccountsAgree
  <2> SUFFICES ASSUME step = "done"
               PROVE  LET problems == {k \in DOMAIN page.cards : page.cards[k] # "pass"}
                          escalated == {k \in problems :
                                          WorstGroupStatus(checks, Rows(checks, k)) = "pass"}
                          gauges == Gauges(checks)
                      IN  /\ page.issues = 0 => problems = escalated
                          /\ page.issues # 0 =>
                               \/ problems # {}
                               \/ \E n \in DOMAIN checks : checks[n] = "unknown"
                          /\ Cardinality({n \in DOMAIN gauges : gauges[n].value = 0}) =
                               page.issues
                                 + Cardinality({n \in DOMAIN checks : checks[n] = "off"})
    BY DEF AccountsAgree
  <2> DEFINE problems == {k \in DOMAIN page.cards : page.cards[k] # "pass"}
             gauges == Gauges(checks)
             off == {n \in DOMAIN checks : checks[n] = "off"}
  <2>1. page.issues = Cardinality(Issues(checks))
    BY <1>1 DEF ViewInv, PageIsRendered
  <2>2. Issues(checks) \subseteq DOMAIN checks /\ off \subseteq DOMAIN checks
    BY DEF Issues
  <2>3. page.issues = 0 <=> Issues(checks) = {}
    BY <1>1, <2>1, <2>2, Checked, FS_Subset, FS_EmptySet
  <2>4. ASSUME page.issues = 0, NEW k \in problems
        PROVE  WorstGroupStatus(checks, Rows(checks, k)) = "pass"
    BY <2>3, <2>4 DEF Issues, Rows, WorstGroupStatus
  <2>5. ASSUME page.issues # 0
        PROVE  problems # {} \/ \E n \in DOMAIN checks : checks[n] = "unknown"
    <3>1. PICK n \in DOMAIN checks : checks[n] \notin {"pass", "off"}
      BY <2>3, <2>5 DEF Issues
    <3>2. checks[n] \in {"warn", "fail", "unknown"}
      BY <1>1, <3>1, Checked DEF Status
    <3>3. QED BY <1>1, <3>2, ProblemCard
  <2>6. {n \in DOMAIN gauges : gauges[n].value = 0} = Issues(checks) \cup off
    BY DEF Gauges, Issues
  <2>7. Issues(checks) \cap off = {} BY DEF Issues
  <2>8. Cardinality(Issues(checks) \cup off) = page.issues + Cardinality(off)
    BY <1>1, <2>1, <2>2, <2>7, CountParts
  <2>9. QED BY <2>4, <2>5, <2>6, <2>8
<1>2. QED BY <1>1, InitViewInv, NextViewInv, PTL DEF PageSpec

(***************************************************************************)
(* The checks that the strip does not call proven are the badges outlined  *)
(* and the failures nobody had noted (evidence.go, populateEvidence).      *)
(***************************************************************************)
THEOREM StripCountsTheBadges == PageSpec => []StripAgreesWithBadges
<1>1. ASSUME ViewInv PROVE StripAgreesWithBadges
  <2> SUFFICES ASSUME step = "done", ~cfg.public
               PROVE  page.total - page.proven =
                        Cardinality(page.unproven)
                          + Cardinality(Issues(checks) \ page.known)
    BY DEF StripAgreesWithBadges
  <2> DEFINE proven == Universe(checks) \cap page.known
  <2>1. /\ page.total = Cardinality(Universe(checks))
        /\ page.proven = Cardinality(proven)
    BY <1>1 DEF ViewInv, PageIsProven
  <2>2. \A n \in DOMAIN checks : page.names[n] = <<"name", n>>
    BY <1>1, Made DEF RowName
  <2>3. page.unproven = {n \in DOMAIN checks : checks[n] = "pass" /\ n \notin page.known}
    <3>1. page.unproven = {n \in DOMAIN checks :
            checks[n] = "pass" /\ \A m \in page.known : page.names[n] # <<"name", m>>}
      BY <1>1, Made DEF ViewInv, PageIsProven
    <3>2. QED BY <2>2, <3>1
  <2> DEFINE missed == Issues(checks) \ page.known
  <2>4. /\ page.unproven \cap missed = {}
        /\ page.unproven \subseteq DOMAIN checks /\ missed \subseteq DOMAIN checks
    BY <2>3 DEF Issues
  <2>5. /\ Universe(checks) = proven \cup (page.unproven \cup missed)
        /\ proven \cap (page.unproven \cup missed) = {}
        /\ proven \subseteq DOMAIN checks
    BY <1>1, <2>3, Checked DEF Universe, Issues, Status
  <2>6. /\ Cardinality(page.unproven) \in Nat /\ Cardinality(missed) \in Nat
        /\ Cardinality(page.unproven \cup missed) =
             Cardinality(page.unproven) + Cardinality(missed)
    BY <1>1, <2>4, CountParts
  <2>7. /\ Cardinality(proven) \in Nat
        /\ Cardinality(Universe(checks)) =
             Cardinality(proven) + Cardinality(page.unproven \cup missed)
    BY <1>1, <2>4, <2>5, CountParts
  <2>8. QED BY <2>1, <2>6, <2>7
<1>2. QED BY <1>1, InitViewInv, NextViewInv, PTL DEF PageSpec
-----------------------------------------------------------------------------
(* Places in a finite set of numbers.                                      *)
LEMMA Places ==
  ASSUME NEW S \in SUBSET Nat, IsFiniteSet(S), NEW i \in S, NEW j \in S
  PROVE  /\ Index(i, S) \in Nat
         /\ Index(i, S) < Cardinality(S)
         /\ i < j => Index(i, S) < Index(j, S)
<1> DEFINE Below(x) == {y \in S : y < x}
<1>1. ASSUME NEW x \in S
      PROVE  IsFiniteSet(Below(x)) /\ Cardinality(Below(x)) \in Nat
  BY FS_Subset, FS_CardinalityType
<1>2. ASSUME NEW x \in S, NEW T, IsFiniteSet(T), Below(x) \subseteq T,
             x \in T
      PROVE  Cardinality(Below(x)) < Cardinality(T)
  <2>1. Cardinality(Below(x)) <= Cardinality(T) /\ Cardinality(Below(x)) # Cardinality(T)
    BY <1>2, FS_Subset
  <2>2. QED BY <1>1, <1>2, <2>1, FS_CardinalityType
<1>3. Cardinality(Below(i)) < Cardinality(S) BY <1>2
<1>4. ASSUME i < j PROVE Cardinality(Below(i)) < Cardinality(Below(j))
  <2>1. i \in Nat /\ j \in Nat /\ \A y \in S : y \in Nat OBVIOUS
  <2>2. \A y \in S : y < i => y < j BY <1>4, <2>1
  <2>3. Below(i) \subseteq Below(j) /\ i \in Below(j) BY <1>4, <2>2
  <2>4. IsFiniteSet(Below(j)) BY <1>1
  <2> HIDE DEF Below
  <2>5. QED BY <1>2, <2>3, <2>4
<1>5. QED BY <1>1, <1>3, <1>4 DEF Index

LEMMA Strides ==
  ASSUME NEW a \in Nat, NEW c \in Nat, NEW b \in Nat, NEW d \in Nat,
         a < c, b < Stride
  PROVE  a * Stride + b + 1 # c * Stride + d + 1
<1>1. Stride \in Nat BY ViewAssumption
<1>2. PICK e \in Nat : c = a + 1 + e
  <2>1. c - a - 1 \in Nat /\ c = a + 1 + (c - a - 1) OBVIOUS
  <2>2. QED BY <2>1
<1>3. c * Stride = a * Stride + Stride + e * Stride BY <1>1, <1>2
<1>4. a * Stride \in Nat /\ e * Stride \in Nat /\ c * Stride \in Nat BY <1>1
<1>5. QED BY <1>1, <1>3, <1>4

LEMMA LabelsDiffer ==
  ASSUME ViewInv, LabelsFit(checks),
         NEW m \in DOMAIN checks, NEW n \in DOMAIN checks, m # n
  PROVE  Label(checks, m) # Label(checks, n)
<1> DEFINE group(x) == CardOf(checks, x)
           place(x) == Index(x, Rows(checks, group(x)))
           Cds == Cards(checks)
<1>1. /\ IsFiniteSet(DOMAIN checks) /\ DOMAIN checks \subseteq Nat
      /\ \A x \in DOMAIN checks : group(x) \in Cds
      /\ Cds \subseteq Nat
  BY Checked, ViewAssumption
<1>2. IsFiniteSet(Cds)
  <2> DEFINE f == [x \in DOMAIN checks |-> CardOf(checks, x)]
  <2>1. \A k \in Cds : \E x \in DOMAIN checks : f[x] = k BY DEF Cards, Rows
  <2>2. f \in Surjection(DOMAIN checks, Cds) BY <1>1, <2>1 DEF Surjection
  <2>3. QED BY <1>1, <2>2, FS_Surjection
<1>3. ASSUME NEW x \in DOMAIN checks
      PROVE  /\ x \in Rows(checks, group(x)) /\ Rows(checks, group(x)) \subseteq Nat
             /\ IsFiniteSet(Rows(checks, group(x)))
             /\ place(x) \in Nat /\ place(x) < Stride
             /\ Index(group(x), Cds) \in Nat
  <2>1. /\ x \in Rows(checks, group(x)) /\ Rows(checks, group(x)) \subseteq Nat
        /\ Rows(checks, group(x)) \subseteq DOMAIN checks
    BY <1>1 DEF Rows
  <2>2. IsFiniteSet(Rows(checks, group(x))) BY <1>1, <2>1, FS_Subset
  <2>3. Cardinality(Rows(checks, group(x))) <= Stride BY <1>1 DEF LabelsFit
  <2>4. place(x) \in Nat /\ place(x) < Cardinality(Rows(checks, group(x)))
    BY <2>1, <2>2, Places
  <2>5. Cardinality(Rows(checks, group(x))) \in Nat BY <2>2, FS_CardinalityType
  <2>6. Index(group(x), Cds) \in Nat BY <1>1, <1>2, Places
  <2>7. QED BY <2>1, <2>2, <2>3, <2>4, <2>5, <2>6, ViewAssumption
<1>4. CASE group(m) = group(n)
  <2>1. place(m) # place(n)
    <3>1. m < n \/ n < m BY <1>1
    <3>2. m \in Rows(checks, group(m)) /\ n \in Rows(checks, group(m))
      BY <1>3, <1>4
    <3>3. /\ m < n => place(m) < place(n)
          /\ n < m => place(n) < place(m)
      BY <1>3, <1>4, <3>2, Places
    <3>4. QED BY <1>3, <3>1, <3>3
  <2>2. Index(group(m), Cds) * Stride \in Nat BY <1>3, ViewAssumption
  <2>3. QED BY <1>3, <1>4, <2>1, <2>2 DEF Label
<1>5. CASE group(m) # group(n)
  <2>1. group(m) < group(n) \/ group(n) < group(m) BY <1>1, <1>5
  <2>2. /\ group(m) < group(n) => Index(group(m), Cds) < Index(group(n), Cds)
        /\ group(n) < group(m) => Index(group(n), Cds) < Index(group(m), Cds)
    BY <1>1, <1>2, Places
  <2>3. Index(group(m), Cds) * Stride + place(m) + 1
          # Index(group(n), Cds) * Stride + place(n) + 1
    BY <1>3, <2>1, <2>2, Strides
  <2>4. QED BY <2>3 DEF Label
<1>6. QED BY <1>4, <1>5

(***************************************************************************)
(* Any two rows can be told apart, by name and key or by label (status.go, *)
(* shortDisplayName and anonymizeViewModel).                               *)
(***************************************************************************)
THEOREM RowsDiffer == PageSpec => []RowsToldApart
<1>1. ASSUME ViewInv PROVE RowsToldApart
  <2> SUFFICES ASSUME step = "done", cfg.public => LabelsFit(checks)
               PROVE  LET r == Region(PatchModel).rows
                      IN  \A m, n \in DOMAIN r :
                            m # n => <<r[m].name, r[m].details.key>>
                                       # <<r[n].name, r[n].details.key>>
    BY DEF RowsToldApart
  <2> DEFINE key(x) == IF cfg.public \/ Display[x] = <<"name", x>>
                       THEN <<>> ELSE <<"name", x>>
             name(x) == IF cfg.public THEN Label(checks, x) ELSE Display[x]
             r == Region(PatchModel).rows
  <2>1. /\ DOMAIN r = DOMAIN checks
        /\ \A x \in DOMAIN r : r[x].name = name(x) /\ r[x].details.key = key(x)
    BY <1>1, Made DEF Region, Row, RowText, Details, PatchModel
  <2>2. ASSUME NEW m \in DOMAIN checks, NEW n \in DOMAIN checks, m # n
        PROVE  <<name(m), key(m)>> # <<name(n), key(n)>>
    <3>1. CASE cfg.public BY <1>1, <2>2, <3>1, LabelsDiffer
    <3>2. CASE ~cfg.public BY <2>2, <3>2
    <3>3. QED BY <3>1, <3>2
  <2>3. ASSUME NEW m \in DOMAIN r, NEW n \in DOMAIN r, m # n
        PROVE  <<r[m].name, r[m].details.key>> # <<r[n].name, r[n].details.key>>
    <3>1. /\ r[m].name = name(m) /\ r[m].details.key = key(m)
          /\ r[n].name = name(n) /\ r[n].details.key = key(n)
      BY <2>1, <2>3
    <3> HIDE DEF r, name, key
    <3>2. <<name(m), key(m)>> # <<name(n), key(n)>> BY <2>1, <2>2, <2>3
    <3>3. QED BY <3>1, <3>2
  <2>4. QED BY <2>3
<1>2. QED BY <1>1, InitViewInv, NextViewInv, PTL DEF PageSpec
=============================================================================

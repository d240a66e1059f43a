-------------------------------- MODULE View --------------------------------
(***************************************************************************)
(* The page: how a health response, the probe's per-source verdicts and    *)
(* the evidence log become the cards, the banner, the badges and the truth *)
(* strip (status.go, evidence.go).  The first HTML page (handlers.go,      *)
(* buildData) and every SSE patch (pusher.go, renderPatch) take the same   *)
(* steps in the same order; response, verdicts and evidence are three      *)
(* reads, and the probe and the recorders go on in between.  Page makes    *)
(* the behaviours of these actions and what follows them.                  *)
(*                                                                         *)
(* A check name is a number, so that names have their alphabetical order;  *)
(* so is a source.  A card is known by its place on the page before empty  *)
(* ones are left out.                                                      *)
(***************************************************************************)
EXTENDS Integers, FiniteSets

CONSTANTS
  Name,       \* check names
  Source,     \* sources of an aggregate; 0 stands for "Services"
  SourceOf,   \* the source prefix of a name
  Response,   \* functions from some names to a status
  Verdict,    \* what SourceStatuses may return
  Stride,     \* labels per group in public mode (100)
  MaxChanges  \* model bound on new responses and verdicts

Status == {"pass", "warn", "fail", "off", "unknown"}

ASSUME ViewAssumption ==
  /\ IsFiniteSet(Name) /\ Name \subseteq Nat
  /\ Source \subseteq Nat
  /\ SourceOf \in [Name -> Source]
  /\ \A c \in Response : DOMAIN c \subseteq Name /\ c \in [DOMAIN c -> Status]
  /\ \A v \in Verdict : DOMAIN v \subseteq Source /\ v \in [DOMAIN v -> Status]
  /\ Stride \in Nat \ {0}
  /\ MaxChanges \in Nat

(* WithGrouping and WithPublicMode                                         *)
Config == [grouping : {"severity", "source"}, public : BOOLEAN]

VARIABLES
  cfg,       \* Dashboard.cfg, fixed by New
  cached,    \* the checks of Probe.CachedResponse
  verdicts,  \* SourceStatuses
  evidence,  \* names the evidence log holds
  changes,   \* changes of cached and verdicts so far
  step,      \* the render under way
  checks,    \* the response it read
  page       \* what it has made of it

probeVars == <<cached, verdicts, changes>>
renderVars == <<step, checks, page>>
vars == <<cfg, probeVars, evidence, renderVars>>

(* health.Status.Rank: off and what is not known rank with pass.           *)
Rank(s) == CASE s = "fail" -> 0 [] s = "warn" -> 1 [] OTHER -> 2

Deviates(c) == {n \in DOMAIN c : c[n] \notin {"pass", "off"}}
-----------------------------------------------------------------------------
(* Mutant: the switch has no default.                                      *)
SeverityKnown(c, n) ==
  CASE c[n] = "fail" -> 1 [] c[n] = "warn" -> 2
    [] c[n] \in {"pass", "off"} -> 3 [] OTHER -> 0

(* groupChecks: failing, warning, and the rest as healthy.                 *)
Severity(c, n) == CASE c[n] = "fail" -> 1 [] c[n] = "warn" -> 2 [] OTHER -> 3

CardOf(c, n) == IF cfg.grouping = "source" THEN SourceOf[n] ELSE Severity(c, n)

Rows(c, k) == {n \in DOMAIN c : CardOf(c, n) = k}

(* groupChecksBy: empty groups are left out.                               *)
Cards(c) ==
  {k \in IF cfg.grouping = "source" THEN Source ELSE 1 .. 3 : Rows(c, k) # {}}

(* Mutant: what cannot be read counts as pass.                             *)
WorstReadable(c, rows) ==
  IF \E n \in rows : c[n] = "fail" THEN "fail"
  ELSE IF \E n \in rows : c[n] = "warn" THEN "warn" ELSE "pass"

(* worstGroupStatus: what cannot be read counts as warn.                   *)
WorstGroupStatus(c, rows) ==
  IF \E n \in rows : c[n] = "fail" THEN "fail"
  ELSE IF \E n \in rows : c[n] \in {"warn", "unknown"} THEN "warn" ELSE "pass"

(* Mutant: the source's verdict replaces that of its rows.                 *)
EscalateAlways(status, v, k) == IF k \in DOMAIN v THEN v[k] ELSE status

(* applySourceStatuses: only a worse verdict replaces that of the rows.    *)
Escalate(status, v, k) ==
  IF k \in DOMAIN v /\ Rank(v[k]) < Rank(status) THEN v[k] ELSE status

CardStatus(c, v, k) ==
  IF cfg.grouping = "source"
  THEN Escalate(WorstGroupStatus(c, Rows(c, k)), v, k)
  ELSE CASE k = 1 -> "fail" [] k = 2 -> "warn" [] OTHER -> "pass"

(* The place of i in a set of numbers, from zero.                          *)
Index(i, S) == Cardinality({j \in S : j < i})

(* Mutant: labels are numbered from the index of their group.              *)
LabelUnstrided(c, n) ==
  LET k == CardOf(c, n)
  IN  <<"check", Index(k, Cards(c)) + Index(n, Rows(c, k)) + 1>>

(* anonymizeViewModel: check-N, by group and row.                          *)
Label(c, n) ==
  LET k == CardOf(c, n)
  IN  <<"check", Index(k, Cards(c)) * Stride + Index(n, Rows(c, k)) + 1>>

RowName(c, n) == IF cfg.public THEN Label(c, n) ELSE <<"name", n>>

(* Mutant: an off check is reported as an issue.                           *)
IssuesWithOff(c) == {n \in DOMAIN c : c[n] # "pass"}

(* alertSummary: the services reporting issues.                            *)
Issues(c) == {n \in DOMAIN c : c[n] \notin {"pass", "off"}}

(* Mutant: off checks are in the evidence universe.                        *)
UniverseWithOff(c) == DOMAIN c

(* populateEvidence: off checks are outside the evidence universe.         *)
Universe(c) == {n \in DOMAIN c : c[n] # "off"}

(* Mutant: a check that has disappeared goes on counting.                  *)
ProvenEver(c) == evidence

(* everNonPass, against the current response's checks.                     *)
Proven(c) == Universe(c) \cap evidence

EmptyPage ==
  [cards |-> [k \in {} |-> "pass"], names |-> [n \in {} |-> <<"name", 0>>],
   issues |-> 0, verdicts |-> [k \in {} |-> "pass"],
   total |-> 0, proven |-> 0, unproven |-> {}, known |-> {}]

TypeOK ==
  /\ cfg \in Config
  /\ cached \in Response
  /\ verdicts \in Verdict
  /\ evidence \subseteq Name
  /\ changes \in 0 .. MaxChanges
  /\ step \in {"idle", "read", "rendered", "done"}
  /\ step # "idle" => checks \in Response
  /\ page.cards \in [DOMAIN page.cards -> Status]
  /\ page.proven \in 0 .. page.total

Init ==
  /\ cfg \in Config
  /\ cached \in Response
  /\ verdicts \in Verdict
  /\ evidence = {}
  /\ changes = 0
  /\ step = "idle"
  /\ checks = cached
  /\ page = EmptyPage
-----------------------------------------------------------------------------
(* The probe's next response, or its next verdict on a source.             *)
Evaluate ==
  /\ changes < MaxChanges
  /\ cached' \in Response \ {cached}
  /\ changes' = changes + 1
  /\ UNCHANGED <<cfg, verdicts, evidence, renderVars>>

Judge ==
  /\ changes < MaxChanges
  /\ verdicts' \in Verdict \ {verdicts}
  /\ changes' = changes + 1
  /\ UNCHANGED <<cfg, cached, evidence, renderVars>>

(* A recorder adds the cached response's deviations to the evidence (see   *)
(* Observation).                                                           *)
Witness ==
  /\ evidence' = evidence \cup Issues(cached)
  /\ UNCHANGED <<cfg, probeVars, renderVars>>

(* currentResponse                                                         *)
ReadResponse ==
  /\ step = "idle"
  /\ checks' = cached
  /\ step' = "read"
  /\ UNCHANGED <<cfg, probeVars, evidence, page>>

(* sourceStatuses, buildViewModelAtWithSourceStatuses, anonymizeViewModel. *)
Render ==
  /\ step = "read"
  /\ page' = [page EXCEPT
       !.cards = [k \in Cards(checks) |-> CardStatus(checks, verdicts, k)],
       !.names =
          [n \in UNION {Rows(checks, k) : k \in Cards(checks)} |->
             RowName(checks, n)],
       !.issues = Cardinality(Issues(checks)),
       !.verdicts = verdicts]
  /\ step' = "rendered"
  /\ UNCHANGED <<cfg, probeVars, evidence, checks>>

(* populateEvidence counts by the response's names; badgeForStatus looks   *)
(* the rows' names up. Both allow for a pusher that has no evidence log    *)
(* yet; but New makes the log, stamped with the time, so there always is   *)
(* one, Since is never zero, and a page before Start claims no proof.      *)
Prove ==
  /\ step = "rendered"
  /\ page' = [page EXCEPT
       !.total = Cardinality(Universe(checks)),
       !.proven = Cardinality(Proven(checks)),
       !.unproven = {n \in DOMAIN page.names :
          checks[n] = "pass" /\ \A m \in evidence : page.names[n] # <<"name", m>>},
       !.known = evidence]
  /\ step' = "done"
  /\ UNCHANGED <<cfg, probeVars, evidence, checks>>

(* The page or patch goes out.                                             *)
Serve ==
  /\ step = "done"
  /\ step' = "idle"
  /\ page' = EmptyPage
  /\ UNCHANGED <<cfg, probeVars, evidence, checks>>
-----------------------------------------------------------------------------
(***************************************************************************)
(* "The card must not read healthier than either signal agrees to"         *)
(* (status.go, applySourceStatuses), also when the verdicts are newer than *)
(* the response, nor healthier than a row that cannot be read              *)
(* (worstGroupStatus); and it is not worse than both.                      *)
(***************************************************************************)
CardIsWorstSignal ==
  cfg.grouping = "source" /\ step \in {"rendered", "done"} =>
    \A k \in DOMAIN page.cards :
      LET rows == {IF checks[n] = "unknown" THEN "warn" ELSE checks[n] :
                     n \in Rows(checks, k)}
          signals == rows \cup
            (IF k \in DOMAIN page.verdicts THEN {page.verdicts[k]} ELSE {})
      IN  /\ \A s \in signals : Rank(page.cards[k]) <= Rank(s)
          /\ \E s \in signals : Rank(page.cards[k]) = Rank(s)

(***************************************************************************)
(* The truth strip counts by the response, the badges look up the rows:    *)
(* they agree but for the failures that no recorder had noted when the     *)
(* page was made (evidence.go, populateEvidence; status.go,                *)
(* badgeForStatus).                                                        *)
(***************************************************************************)
StripAgreesWithBadges ==
  step = "done" /\ ~cfg.public =>
    page.total - page.proven =
      Cardinality(page.unproven) + Cardinality(Issues(checks) \ page.known)

(* No group has more rows than there are labels set aside for it.          *)
LabelsFit(c) == \A k \in Cards(c) : Cardinality(Rows(c, k)) <= Stride
=============================================================================

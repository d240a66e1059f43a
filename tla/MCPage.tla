------------------------------- MODULE MCPage -------------------------------
(***************************************************************************)
(* Model values for View and Page: two checks of source 1, the second of   *)
(* which reads like the first, and one of no source; every configuration   *)
(* of View around two changes of the probe, with different options each,   *)
(* and one with two tabs around one change.                                *)
(***************************************************************************)
EXTENDS Page
MCNames == 1 .. 3
MCSources == 0 .. 1
MCSourceOf == <<1, 1, 0>>
MCResponses ==
  {<<a, b, c>> : a \in {"pass", "fail"}, b \in {"pass", "unknown"},
                 c \in {"warn", "off"}}
    \cup {<<"pass", "pass", "pass">>, <<"fail", "fail", "pass">>,
          <<"off", "pass">>, <<>>}
MCVerdicts ==
  {[s \in {} |-> "pass"], [s \in {1} |-> "warn"], [s \in {1} |-> "off"]}
MCDisplay == [n \in MCNames |-> <<"name", IF n = 2 THEN 1 ELSE n>>]
MCTabs == {1, 2}
Defaults ==
  [selfHosted |-> TRUE, runtime |-> TRUE, css |-> TRUE, persist |-> FALSE,
   threshold |-> 2, fixed |-> "", extracted |-> "valid", links |-> {"export"},
   tabs |-> {}, changes |-> MaxChanges]
MCSetups ==
  {[cfg |-> [grouping |-> "severity", public |-> FALSE], opts |-> Defaults],
   [cfg |-> [grouping |-> "severity", public |-> FALSE],
    opts |-> [Defaults EXCEPT !.persist = TRUE, !.tabs = MCTabs, !.changes = 1]],
   [cfg |-> [grouping |-> "severity", public |-> TRUE],
    opts |-> [Defaults EXCEPT !.fixed = "valid", !.extracted = "",
                              !.selfHosted = FALSE, !.css = FALSE]],
   [cfg |-> [grouping |-> "source", public |-> FALSE],
    opts |-> [Defaults EXCEPT !.persist = TRUE, !.fixed = "malformed",
                              !.extracted = ""]],
   [cfg |-> [grouping |-> "source", public |-> TRUE],
    opts |-> [Defaults EXCEPT !.persist = TRUE, !.threshold = 0,
                              !.fixed = "malformed"]]}
=============================================================================

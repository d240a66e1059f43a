\* Both groupings, private and public, and two tabs.
SPECIFICATION PageSpec
CONSTANTS
  Name <- MCNames
  Source <- MCSources
  SourceOf <- MCSourceOf
  Response <- MCResponses
  Verdict <- MCVerdicts
  Stride = 2
  MaxChanges = 2
  Display <- MCDisplay
  Tab <- MCTabs
  Setup <- MCSetups
INVARIANTS
  CardIsWorstSignal
  AccountsAgree
  StripAgreesWithBadges
  PatchAgreesWithPage
  RowsToldApart
  ProblemsInSight
  FilterHintTruthful
  PageScriptsAllowed
  TabsFollowChoice

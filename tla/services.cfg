SPECIFICATION ServicesSpec
CONSTANTS
  c1 = c1  c2 = c2  usd = usd  eur = eur  acme = acme  s1 = s1  s2 = s2
  low = low  high = high
  Client = {c1, c2}
  Estimate = {low, high}
  FirstEstimate = low
  Given = {"hypothesis", "supporting_evidence", "invalidation_rule"}
  MaxVersion = 8
  Open = Open
  MaxInvestors = 2
  MaxJournals = 2
INVARIANTS ServicesTypeOK  HistoryIsComplete ActiveIsComplete IssueHistoryIsComplete PagesAreComplete RequestsAreBounded AnswersAreExact VersionsActivateInOrder RunsAreReproducible ComparisonsBelongTogether
PROPERTIES RecordsAreAtomic TerminalIsFinal StaleIsReported
SYMMETRY Alike
CHECK_DEADLOCK FALSE

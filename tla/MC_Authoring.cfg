SPECIFICATION Spec
CONSTANTS
  m1 = m1
  m2 = m2
  m3 = m3
  t1 = t1
  t2 = t2
  c1 = c1
  c2 = c2
  s1 = s1
  s2 = s2
  k1 = k1
  k2 = k2
  w1 = w1
  a1 = a1
  q1 = q1
  q2 = q2
  Media = {m1, m2, m3}
  Templates = {t1, t2}
  MaxVersion = 2
  Text = Text
  Lost = Lost
  NoRow = NoRow
  Gone = Gone
  Campaigns = {c1, c2}
  Steps = {s1, s2}
  Triggers = {k1, k2}
  Accounts = {a1}
  AccountOf <- OneAccount
  Words = {w1}
  MaxOrder = 2
  Requests = {q1, q2}
  MaxEdits = 4
  Established <- OneCampaign
SYMMETRY Symmetry
CHECK_DEADLOCK FALSE
INVARIANTS
  TypeOK
  TemplatesSendable
  HistoryEndsLive
  QueueIsSendable
  WordsLeadToOne

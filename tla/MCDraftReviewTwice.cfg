SPECIFICATION DraftSpec
CONSTANTS
  Drafts = {d1}
  Requests = {q1, q2, q3}
  Edits = {x, y}
  NoEdits = NoEdits
  Nobody = Nobody
INVARIANTS
  AtMostOneOfficial
CHECK_DEADLOCK FALSE

SPECIFICATION DraftSpec
CONSTANTS
  Drafts = {d1}
  Requests = {q1, q2, q3}
  Edits = {x, y}
  NoEdits = NoEdits
  Nobody = Nobody
INVARIANTS
  SavedMeansApplied
CHECK_DEADLOCK FALSE

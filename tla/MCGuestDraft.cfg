\* A draft checked before a submission is saved after it.
SPECIFICATION RegSpec
CONSTANTS
  p1 = p1
  p2 = p2
  blank = blank
  full = full
  other = other
  Devices = {p1, p2}
  Payloads = {blank, full, other}
  Complete = {full, other}
  NoPayload = NoPayload
  MaxTime = 3
PROPERTY SubmissionStays
SYMMETRY MCSymmetry

SPECIFICATION Spec
CONSTANTS
  p1 = p1
  p2 = p2
  s1 = s1
  html = html
  pdf = pdf
  d1 = d1
  d2 = d2
  Procs = {p1, p2}
  Slugs = {s1}
  Suffixes = {html, pdf}
  Docs = {d1, d2}
  Absent = Absent
  Torn = Torn
PROPERTY UnlinksOrphansOnly

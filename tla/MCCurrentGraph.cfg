SPECIFICATION Spec
CONSTANTS
  a = a  b = b  e = e  f = f  T = T  p = p  q = q  one = one  blob = blob
  Nodes = {a, b}
  Edges = {e, f}
  Labels = {T}
  Props = {p, q}
  Values = {one, blob}
  Scalars = {one}
  Absent = Absent
  Deployments <- OrdinaryUse
  MaxFaults = 1
  MaxInside = 1
  MaxCached = 1
INVARIANTS EntriesDescribeRecords LookupExact DeletedNodeUnreachable

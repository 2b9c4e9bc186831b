\* An updating helper and one that attaches or collects garbage, an outgoing
\* server that may be of an older version, one crash, before or now, gc or
\* deadline; of the windows t and n, and an initial one, each may fail to start.
CONSTANTS
  h1 = h1  h2 = h2  h0 = h0  s0 = s0  s1 = s1  t = t  u = u  n = n  f = f
  Helpers = {h0, h1, h2}
  Crashed = {h0}
  Updaters = {h1}
  Collectors = {h2}
  Servers = {s0, s1}
  Outgoing = s0
  Windows = {t, u, n}
  Workspaces <- MCWorkspaces
  NativeWindows = {n}
  Fragile = {t, n, f}
  FreshWindow = f
  NoPid = NoPid
  BindAttempts = 2
  MaxDisturbances = 1
SPECIFICATION FairSpec
INVARIANTS SessionTypes LockExclusion OneWorkspace WindowsSurvive
PROPERTIES Reachable
CHECK_DEADLOCK FALSE

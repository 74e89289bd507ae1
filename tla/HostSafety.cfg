SPECIFICATION HostSpec
CONSTANTS
  Guardians = {g1, g2}
  Keys = {key, other}
  Shapes = {{"process", "worktree", "lease"}, {"worktree"}}
  EnabledReasons = {"expired_fenced_identity", "deleted_worktree_without_live_owner",
                    "terminal_managed_child"}
  MaxRegistrations = 2
  MaxEpoch = 2
  MaxProposals = 1
  Contents = {this, that, more}
  Sinks = {sink1}
  MaxRecords = 2
  MaxReports = 5
  Sessions = {s1, s2}
  Hooks = {h1, h2}
  Levels = {0, 150, 250, 900}
  Responses = {0, 140}
  MaxCalls = 3
  Dispatches = {d1, d2}
  Unset = Unset
SYMMETRY Alike
CHECK_DEADLOCK FALSE
INVARIANTS
  HostTypeOK
  ReapsOnlyTheDead
  AuthorizedUnderItsLease
  EvidenceKept
  PostedOnce
  FinalStands
PROPERTIES
  ToldOfEachCrossingOnce

SPECIFICATION Spec
CONSTANTS
  NoVault = NoVault
  Procs = {server, cli}
  Requests = {r1}
  MaxSessions = 1
  Server = server
  Cli = cli
  Uses <- MCUses
  MaxGen = 3
  KeySources <- MCKeySources
  Faults = 1
\* With every process down and no login left nothing happens.
CHECK_DEADLOCK FALSE
INVARIANT OneRefresh
INVARIANT SessionKept
INVARIANT ApiMatchesVault
INVARIANT VaultReadable
INVARIANT LogoutSticks

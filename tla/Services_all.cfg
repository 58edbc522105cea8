SPECIFICATION ServicesSpec
CONSTANTS
  ToolThread = {t1, t2}
  ToolCommand = {"ls"}
  ToolConfigs <- MCToolConfigs
  MaxApprovals = 2
  MaxReloads = 1
  MaxProcs = 2
  McpServers <- MCMcpServers
  Permissions <- MCPermissions
  Chains <- MCChains
  MaxDiscover = 2
  AuthThread = {g1}
  Cli = cli
  Leeway = 0
  TokenLife = 1
  MaxGrants = 3
  MaxAuthTime = 2
  MaxAuthFails = 1
  PluginThread = {g1}
  PluginFolders <- MCPluginFolders
  PluginConfigs <- MCPluginConfigs
  PluginDefaults = {"p"}
  PluginNames <- MCPluginNames
  HookPlugins = {"low", "high"}
  HookPriority <- MCHookPriority
  MaxHooks = 2
  RpcThread = {g1}
  Paths = {"primary", "exec"}
  MaxChanges = 3
  SkillFiles <- MCSkillFiles
  MaxEdits = 1
  BrowserThread = {t1, t2}
  Hosts = {"lan", "site"}
  Blocked = {"lan"}
  Allowed = {}
  MaxCdp = 2
  MaxInits = 2
  MaxDrops = 1
SYMMETRY Symmetry
INVARIANTS
  ToolsSafe
  ToolboxSound
  AuthSafe
  PluginsSound
  ConfigCaughtUp
  SkillsSound
  RepliesMatched
CHECK_DEADLOCK FALSE

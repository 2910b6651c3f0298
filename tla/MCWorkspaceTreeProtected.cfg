CONSTANTS
  a = a
  b = b
  x = x
  y = y
  Agent = agent
  Shell = shell
  Names <- MCNames
  Layout <- MCLayout
  Payloads <- MCPayloads
  Paths <- MCPaths
  Named <- MCNamed
  Quota = 2
SPECIFICATION Spec

PROPERTIES DeletionRefused

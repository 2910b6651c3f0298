-------------------------- MODULE MCWorkspaceTree --------------------------
(* WorkspaceTree with two free names beside the runtime's, two levels deep. *)
EXTENDS WorkspaceTree

CONSTANTS a, b, x, y

MCNames    == {a, b, Agent, Shell}
MCLayout   == << <<>>, <<Shell>>, <<Agent>> >>
MCPayloads == {<<x>>, <<y>>}
MCNamed    == {<<>>, <<Agent>>, <<Shell>>, <<a>>, <<b>>, <<a, b>>, <<b, b>>}
MCPaths    == MCNamed \cup {<<a, b, a>>, <<a, b, b>>, <<a, b, a, b>>, <<a, b, a, b, b>>}
=============================================================================

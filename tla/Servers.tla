------------------------------- MODULE Servers -------------------------------
(***************************************************************************)
(* api and mcp_server: one REST connection and one MCP client, which share *)
(* nothing.                                                                *)
(***************************************************************************)
EXTENDS HttpConnection, McpServer

\* A connection and an MCP client get one answer to each request, in order.
AnswersInOrder == RequestsAnswered /\ LinesAnswered
=============================================================================

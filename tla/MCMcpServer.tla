---------------------------- MODULE MCMcpServer -----------------------------
(* Two proxies that write three records, and a client that sends two lines. *)
EXTENDS McpServer

CONSTANTS P, Q

MCBatches == (P :> << <<1, 2>> >>) @@ (Q :> << <<3>> >>)

\* Lines of every sort the server tells apart, with an id or without where
\* that makes a difference.
MCInput ==
  [ask : {"no JSON", "not an object", "notifications/initialized", "ping", "unknown method"},
   hasId : {FALSE}]
  \cup [ask : {"ping", "unknown method", "unknown tool", "bad arguments"} \cup Tools,
        hasId : {TRUE}]
=============================================================================

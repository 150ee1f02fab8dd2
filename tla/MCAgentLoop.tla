---------------------------- MODULE MCAgentLoop ----------------------------
(***************************************************************************)
(* AgentLoop with callers that send a user message, a system message of    *)
(* their own before it, or a history with a tool turn in it.  The window   *)
(* is 1000 tokens, so that three results of 1200 characters overflow the   *)
(* threshold of 800 and the verbatim tail is 300.  A message of 4000       *)
(* characters is over it alone, and at first there is nothing to summarize.*)
(***************************************************************************)
EXTENDS AgentLoop

MCIncoming ==
    [ session |->
        { <<Message("user", 20)>>,
          <<Message("system", 20), Message("user", 4000)>>,
          <<Message("user", 20), ToolCalls({<<0, 0, 1>>}, 20),
            ToolResult(<<0, 0, 1>>, 20)>> },
      messages |->
        { <<Message("system", 20), Message("user", 20)>>,
          <<Message("user", 20), ToolCalls({<<0, 0, 1>>}, 20),
            ToolResult(<<0, 0, 1>>, 1200), Message("user", 0)>> } ]
=============================================================================

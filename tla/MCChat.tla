------------------------------- MODULE MCChat -------------------------------
(* The product's two agents, with the names the tools are registered under:  *)
(* the file agent keeps execute_code, as the filter of file_access_agent.py  *)
(* looks for another name.  No tool the product registers is direct; the     *)
(* workflow class allows one, and the instance gives the second agent one.   *)
EXTENDS ChatRequest

MCHandoffTo == [a \in Agents |-> Agents \ {a}]
MCToolsOf == [a \in Agents |-> IF a = RootAgent THEN {"execute_code"}
                               ELSE {"execute_code", "report"}]
MCNames == {"execute_code", "report", "handoff"}
MCRealOut == <<0, 0>>
MCMaxCalls == <<2, 1, 0>>
MCDirect == {"report"}
=============================================================================

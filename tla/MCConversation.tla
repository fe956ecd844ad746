---------------------------- MODULE MCConversation ----------------------------
EXTENDS Conversation

CONSTANTS chat, rest

(* Each script has a race of its own in it: an issue asked for step by     *)
(* step, a command in the middle, an assistant over another, the single    *)
(* line commands, and the inputs handle_update() keeps.                    *)
MCScripts ==
    { <<"issue_ask", "text", "text", "text">>,
      <<"issue_ask", "text", "text", "/status", "text">>,
      <<"issue_ask", "changes_ask", "text", "text">>,
      <<"assign_ask", "text", "11", "stranger">>,
      <<"issue", "/start", "assign", "no_text">>,
      <<"changes", "merge", "text">> }

MCMessages == 1 .. MaxUpdates \cup {Api}

(* The person writes in one chat, the API's caller has a session of its own. *)
MCSessionOf(m) == IF m = Api THEN rest ELSE chat
===============================================================================

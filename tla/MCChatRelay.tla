---------------------------- MODULE MCChatRelay ----------------------------
(* Two kinds of traffic: short chats over two links and more identities than  *)
(* the bits kept of one can tell apart; and everything there is, at the       *)
(* smallest and the largest sizes, over one link.                             *)
EXTENDS ChatRelay

MCTraffics ==
  {[kinds |-> {"chat"}, lengths |-> {20}, seqOk |-> {TRUE},
    ids |-> 6, links |-> 2],
   [kinds |-> {"short", "login", "chat", "says"}, lengths |-> {640, 4000, 30000},
    seqOk |-> BOOLEAN, ids |-> 3, links |-> 1]}
=============================================================================

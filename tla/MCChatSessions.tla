--------------------------- MODULE MCChatSessions ---------------------------
(***************************************************************************)
(* A TLC instance of the chat sessions.                                    *)
(***************************************************************************)
EXTENDS ChatSessions

=============================================================================

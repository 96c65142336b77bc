--------------------------- MODULE MCMailDoorbell ---------------------------
(* A small instance of MailDoorbell. *)
EXTENDS MailDoorbell

(* Both clients write into the first pane. *)
OnFirst == [c \in Clients |-> {1}]

(* The agent of the first pane takes the token in two writes, the second is *)
(* a shell.                                                                 *)
OneAgent == <<2, 0>>
=============================================================================

---------------------------- MODULE MCMailThreads ----------------------------
(***************************************************************************)
(* Three mails in two threads.                                             *)
(***************************************************************************)
EXTENDS MailThreads

CONSTANTS m1, m2, m3, t1, t2

MCMails == {m1, m2, m3}
MCThreadOf == [m \in MCMails |-> IF m = m3 THEN t2 ELSE t1]
=============================================================================

---------------------------- MODULE MCAdminDesk ----------------------------
(***************************************************************************)
(* Every list page of the console.  The pages with modals start with one   *)
(* record, and a second fills a further page of the table when its limit   *)
(* is one; the pages whose rows share one flag start with two.             *)
(***************************************************************************)
EXTENDS AdminDesk

AllPages == DOMAIN Desk

FewItems == [p \in Pages |-> IF p \in {"webhooks", "subscribers", "logs"} THEN 2 ELSE 1]
=============================================================================

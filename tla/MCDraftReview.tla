---------------------------- MODULE MCDraftReview ----------------------------
(***************************************************************************)
(* One draft and three requests, each of which may edit or promote it: two *)
(* promotions that race each other and an edit that races both.  Requests  *)
(* about different drafts do not meet, except at a lock of their own draft.*)
(***************************************************************************)
EXTENDS DraftReview

===============================================================================

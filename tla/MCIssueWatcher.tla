--------------------------- MODULE MCIssueWatcher ---------------------------
(* Instances of IssueWatcher: one issue by the owner, one by somebody else.    *)
EXTENDS IssueWatcher

CONSTANTS own, other, none
=============================================================================

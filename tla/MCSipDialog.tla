----------------------------- MODULE MCSipDialog -----------------------------
EXTENDS SipDialog

CONSTANTS ta, tb

MCTags == {ta, tb}
==============================================================================

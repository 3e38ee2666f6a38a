---------------------------- MODULE MCSendInvites ----------------------------
(* The instance is MCInvitesMoving.cfg.                                    *)
EXTENDS SendInvites
=============================================================================

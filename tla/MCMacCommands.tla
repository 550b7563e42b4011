---------------------------- MODULE MCMacCommands ----------------------------
(* Three commands of the sizes 1 to 3, one of them sticky, in three slots: *)
(* more answers than slots, and more bytes than FOpts or the slower data   *)
(* rate can carry.                                                         *)
EXTENDS MacCommands

MCCids == {"LINK_CHECK_REQ", "DEV_STATUS_ANS", "RX_PARAM_SETUP_ANS"}
MCPayloadSize == [cid \in MCCids |->
    CASE cid = "LINK_CHECK_REQ" -> 0 [] cid = "DEV_STATUS_ANS" -> 2
      [] cid = "RX_PARAM_SETUP_ANS" -> 1]
MCStickyCids == {"RX_PARAM_SETUP_ANS"}
MCRequests == {"LINK_CHECK_REQ"}
=============================================================================

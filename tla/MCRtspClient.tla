---------------------------- MODULE MCRtspClient ----------------------------
(***************************************************************************)
(* RTSP frames whose data looks like the beginning of a frame or like the  *)
(* end of an answer.                                                       *)
(***************************************************************************)
EXTENDS RtspClient

MCPayloads == {<<Dollar>>, EmptyLine}

=============================================================================

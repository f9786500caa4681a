------------------------------ MODULE MCRtcmParser ------------------------------
(* Bytes of four bits, so that a misread length ends soon.  A frame with a
   message type, one too short for it, one without a payload (a filler), and one
   that carries what looks like the start of a frame; the last three bytes stand
   for their checksums.  Noise is a preamble, the byte that hurts.             *)
EXTENDS RtcmParser

MCFrames ==
    { <<13, 0, 2, 4, 8, 4, 0, 8>>,
      <<13, 0, 1, 8, 0, 4, 4>>,
      <<13, 0, 0, 4, 8, 0>>,
      <<13, 0, 3, 13, 0, 4, 8, 0, 4>> }
MCForeignFrames == { <<13, 0, 2, 4, 8, 4, 0, 8>> }
MCNoiseBytes == {13}
================================================================================

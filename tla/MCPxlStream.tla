----------------------------- MODULE MCPxlStream -----------------------------
(***************************************************************************)
(* The push decoder on small files.                                        *)
(***************************************************************************)
EXTENDS PxlStream, MCPxlFile

\* The files a liveness run needs: exact ones, and enough others to see that
\* they do not matter.
LiveFiles == { f \in AllFiles : f.frame.bad = 0 /\ f.trailing = 0 }

\* Every header meets every frame of two bytes; the plainest of each kind of filter
\* also those of three, and what follows the frame.
SomeFiles ==
  { f \in AllFiles :
      f.frame.n = 3 \/ f.trailing = 1 =>
        /\ f.hdr.palette_count = 0 /\ f.hdr.color_filter # "ADAPTIVE"
        /\ f.frame.n = 3 => f.trailing = 0 }

Native == {"NATIVE"}
AllFormats == {"NATIVE", "PACKED"}
MayRunOut == BOOLEAN
NeverOut == {FALSE}
==============================================================================
